---------------------------- MODULE Traversal_proofs ----------------------------
(***************************************************************************)
(* The pages of a walk put together are the whole answer, and its hits are  *)
(* reported at the least number of proven hops, for any index and query.    *)
(*                                                                          *)
(* A walk that stops where its page is full is the beginning of one that    *)
(* does not: its hits are the first of those, the symbols it has noted and  *)
(* the rows it has queued are the ones the whole walk has there (WalkInv:   *)
(* HopAt, VisitAt, FetchAt), and the pages are the head of the answer       *)
(* (PagesInv).  Most of it is about joining sequences: selecting from a     *)
(* beginning, and asking symbol by symbol, give beginnings.  The hops of    *)
(* the whole walk reach what is that near because what was reached before   *)
(* leads nowhere new (Closed).                                              *)
(*                                                                          *)
(* With this the types of the three algorithms are complete (AllTyped).     *)
(***************************************************************************)
EXTENDS Queries_proofs

(* Functions by recursion over the positions of a sequence.                  *)
FoldOf(f, X, b, L, H) ==
    f \in [0 .. L -> X] /\ f[0] = b /\ \A n \in 1 .. L : f[n] = H[n][f[n - 1]]

LEMMA FoldIs ==
  ASSUME NEW X, NEW b, b \in X, NEW L, L \in Nat, NEW H, H \in [1 .. L -> [X -> X]]
  PROVE  \E f : FoldOf(f, X, b, L, H)
  <1> DEFINE P == Nat \X X
             Go(x) == IF x[1] + 1 \in 1 .. L THEN H[x[1] + 1][x[2]] ELSE x[2]
             G == [x \in P |-> <<x[1] + 1, Go(x)>>]
  <1>1. ASSUME NEW x \in P PROVE <<x[1] + 1, Go(x)>> \in P
    <2>1. x[1] \in Nat /\ x[2] \in X
      OBVIOUS
    <2>2. Go(x) \in X
      BY <2>1
    <2> HIDE DEF Go
    <2> QED BY <2>1, <2>2
  <1>2. G \in [P -> P]
    <2> HIDE DEF Go, P
    <2> QED BY <1>1
  <1>3. PICK c \in P : c = <<0, b>>
    <2>1. <<0, b>> \in P
      OBVIOUS
    <2> HIDE DEF P
    <2> QED BY <2>1
  <1>4. PICK f \in [Nat -> P] : f[0] = c /\ \A n \in Nat : f[n + 1] = G[f[n]]
    <2> HIDE DEF P, G
    <2>1. c \in P
      OBVIOUS
    <2> QED BY ONLY <1>2, <2>1, RecursionExists
  <1>5. ASSUME NEW n \in Nat PROVE f[n + 1] = <<f[n][1] + 1, Go(f[n])>>
    <2>1. f[n] \in P /\ f[n + 1] = G[f[n]]
      BY <1>4
    <2> HIDE DEF Go, P
    <2> QED BY <2>1
  <1>6. \A n \in Nat : f[n][1] = n
    <2> DEFINE T == {n \in Nat : f[n][1] = n}
    <2>1. 0 \in T
      BY <1>3, <1>4
    <2>2. ASSUME NEW n \in Nat, n \in T PROVE n + 1 \in T
      <3>1. f[n][1] = n
        BY <2>2
      <3>2. f[n + 1] = <<f[n][1] + 1, Go(f[n])>>
        BY <1>5
      <3> HIDE DEF Go
      <3>3. f[n + 1][1] = n + 1
        BY <3>1, <3>2
      <3> QED BY <3>3
    <2> HIDE DEF T
    <2>3. Nat \subseteq T
      BY <2>1, <2>2, SetInduction
    <2> QED BY <2>3 DEF T
  <1> DEFINE k == [n \in 0 .. L |-> f[n][2]]
  <1>7. k \in [0 .. L -> X]
    <2>1. \A n \in 0 .. L : f[n] \in P
      <3> HIDE DEF P, G
      <3>1. f \in [Nat -> P] /\ 0 .. L \subseteq Nat
        BY <1>4
      <3> QED BY <3>1
    <2> QED BY <2>1
  <1>8. k[0] = b
    BY <1>3, <1>4
  <1>9. ASSUME NEW n \in 1 .. L PROVE k[n] = H[n][k[n - 1]]
    <2>1. n - 1 \in Nat /\ (n - 1) + 1 = n /\ n - 1 \in 0 .. L /\ n \in 0 .. L
      OBVIOUS
    <2>2. f[n] = <<f[n - 1][1] + 1, Go(f[n - 1])>> /\ f[n - 1][1] = n - 1
      <3> HIDE DEF Go
      <3> QED BY <1>5, <1>6, <2>1
    <2>3. Go(f[n - 1]) = H[n][f[n - 1][2]]
      BY <2>1, <2>2
    <2> HIDE DEF Go
    <2> QED BY <2>1, <2>2, <2>3
  <1> HIDE DEF k
  <1> QED BY <1>7, <1>8, <1>9 DEF FoldOf

-----------------------------------------------------------------------------
(* Sequences.                                                                *)
Begins(s, t) == Len(s) <= Len(t) /\ \A i \in 1 .. Len(s) : s[i] = t[i]

LEMMA BeginsWhole ==
  ASSUME NEW S, NEW s \in Seq(S), NEW t \in Seq(S), Begins(s, t), Len(s) = Len(t)
  PROVE  s = t
  BY DEF Begins

LEMMA TakeIs ==
  ASSUME NEW S, NEW s \in Seq(S), NEW n \in Nat
  PROVE  /\ W!Take(s, n) \in Seq(S) /\ Begins(W!Take(s, n), s)
         /\ Len(W!Take(s, n)) = IF n < Len(s) THEN n ELSE Len(s)
         /\ \A i \in 1 .. Len(W!Take(s, n)) : W!Take(s, n)[i] = s[i]
  <1> DEFINE m == IF n < Len(s) THEN n ELSE Len(s)
  <1>1. m \in 0 .. Len(s) /\ Len(s) \in Nat
    OBVIOUS
  <1>2. W!Take(s, n) = SubSeq(s, 1, m)
    BY DEF W!Take
  <1> HIDE DEF m
  <1>0. m = IF n < Len(s) THEN n ELSE Len(s)
    BY DEF m
  <1>3. SubSeq(s, 1, m) = [i \in 1 .. m |-> s[i]]
    BY <1>1
  <1>4. [i \in 1 .. m |-> s[i]] \in Seq(S) /\ Len([i \in 1 .. m |-> s[i]]) = m
    BY <1>1
  <1>5. W!Take(s, n) = [i \in 1 .. m |-> s[i]] /\ Len(W!Take(s, n)) = m
    BY <1>2, <1>3, <1>4
  <1> QED BY <1>0, <1>1, <1>4, <1>5 DEF Begins

LEMMA SkipIs ==
  ASSUME NEW S, NEW s \in Seq(S), NEW n \in Nat
  PROVE  /\ W!Skip(s, n) \in Seq(S)
         /\ Len(W!Skip(s, n)) = IF n < Len(s) THEN Len(s) - n ELSE 0
         /\ \A i \in 1 .. Len(W!Skip(s, n)) : W!Skip(s, n)[i] = s[n + i]
  <1>1. Len(s) \in Nat /\ n + 1 \in Int
    OBVIOUS
  <1>2. \A i \in n + 1 .. Len(s) : s[i] \in S
    OBVIOUS
  <1>3. /\ SubSeq(s, n + 1, Len(s)) \in Seq(S)
        /\ Len(SubSeq(s, n + 1, Len(s))) =
              IF n + 1 <= Len(s) THEN Len(s) - (n + 1) + 1 ELSE 0
        /\ \A i \in 1 .. Len(s) - (n + 1) + 1 : SubSeq(s, n + 1, Len(s))[i] = s[n + 1 + i - 1]
    BY <1>1, <1>2, SubSeqProperties
  <1> QED BY <1>1, <1>3 DEF W!Skip

(* Joining the first n of some sequences, one after the other.               *)
Flat(h, n) == W!FlattenSeq([i \in 1 .. n |-> h[i]])

Pieces(h, L, T) == L \in Nat /\ h \in [1 .. L -> Seq(T)]

LEMMA FlatIs ==
  ASSUME NEW T, NEW L, NEW h, Pieces(h, L, T)
  PROVE  /\ Flat(h, 0) = <<>>
         /\ \A n \in 1 .. L : Flat(h, n) = Flat(h, n - 1) \o h[n]
         /\ \A n \in 0 .. L : Flat(h, n) \in Seq(T)
  <1>0. L \in Nat /\ h \in [1 .. L -> Seq(T)]
    BY DEF Pieces
  <1> USE <1>0
  <1>1. Flat(h, 0) = <<>>
    <2>1. [i \in 1 .. 0 |-> h[i]] = <<>>
      OBVIOUS
    <2> QED BY <2>1 DEF Flat, W!FlattenSeq
  <1> DEFINE X == Seq(T)
             H == [n \in 1 .. L |-> [x \in X |-> x \o h[n]]]
  <1>2. H \in [1 .. L -> [X -> X]] /\ <<>> \in X
    <2>1. \A n \in 1 .. L : \A x \in X : x \o h[n] \in X
      OBVIOUS
    <2> HIDE DEF X
    <2>2. \A n \in 1 .. L : H[n] \in [X -> X]
      BY <2>1
    <2> QED BY <2>2 DEF X
  <1>3. PICK f \in [0 .. L -> X] : f[0] = <<>> /\ \A n \in 1 .. L : f[n] = H[n][f[n - 1]]
    <2> HIDE DEF X, H
    <2>1. PICK b : b = <<>>
      OBVIOUS
    <2>2. b \in X
      BY <1>2, <2>1
    <2>3. \E f : FoldOf(f, X, b, L, H)
      BY ONLY <1>0, <1>2, <2>2, FoldIs
    <2> QED BY <2>1, <2>3 DEF FoldOf
  <1>4. ASSUME NEW n \in 1 .. L
        PROVE  /\ f[n] = f[n - 1] \o h[n] /\ f[n - 1] \in Seq(T)
               /\ f[n] \in Seq(T) /\ h[n] \in Seq(T)
    <2>1. n - 1 \in 0 .. L /\ n \in 0 .. L
      OBVIOUS
    <2>2. f[n - 1] \in X /\ f[n] \in X /\ f[n] = H[n][f[n - 1]]
      <3> HIDE DEF X, H
      <3> QED BY <1>3, <2>1
    <2>3. H[n][f[n - 1]] = f[n - 1] \o h[n]
      <3> HIDE DEF X
      <3> QED BY <2>2
    <2> QED BY <2>2, <2>3
  <1>5. ASSUME NEW n \in 1 .. L PROVE Flat(h, n) = f[n]
    <2> DEFINE ss == [i \in 1 .. n |-> h[i]]
               Def(g) == [i \in 1 .. Len(ss) |-> IF i = 1 THEN ss[i] ELSE g[i - 1] \o ss[i]]
               k == [i \in 1 .. n |-> f[i]]
    <2>1. Len(ss) = n /\ n # 0 /\ n \in Nat /\ \A i \in 1 .. n : ss[i] = h[i]
      OBVIOUS
    <2> HIDE DEF ss
    <2>2. k = Def(k)
      <3>1. ASSUME NEW i \in 1 .. n PROVE k[i] = Def(k)[i]
        <4>1. i \in 1 .. L /\ f[i] = f[i - 1] \o h[i] /\ ss[i] = h[i] /\ h[i] \in Seq(T)
          <5>1. i \in 1 .. L
            OBVIOUS
          <5> QED BY <1>4, <2>1, <5>1
        <4>2. CASE i = 1
          <5>1. f[1] = <<>> \o h[1] /\ <<>> \o h[1] = h[1]
            <6>1. f[0] = <<>> /\ f[1] = f[0] \o h[1] /\ h[1] \in Seq(T)
              <7> HIDE DEF X, H
              <7> QED BY <1>3, <4>1, <4>2
            <6> QED BY <6>1, ConcatEmptySeq
          <5> QED BY <2>1, <4>1, <4>2, <5>1
        <4>3. CASE i # 1
          <5>1. i - 1 \in 1 .. n
            BY <4>3
          <5> QED BY <2>1, <4>1, <4>3, <5>1
        <4> QED BY <4>2, <4>3
      <3> QED BY <2>1, <3>1
    <2> DEFINE flat == CHOOSE g : g = Def(g)
    <2>3. flat = Def(flat) /\ W!FlattenSeq(ss) = flat[n]
      <3>1. W!FlattenSeq(ss) = flat[n]
        BY <2>1 DEF W!FlattenSeq
      <3> HIDE DEF Def
      <3> QED BY <2>2, <3>1
    <2> HIDE DEF flat
    <2> DEFINE U == {i \in Nat : i \in 1 .. n => flat[i] = f[i]}
    <2>4. 0 \in U
      OBVIOUS
    <2>5. ASSUME NEW i \in Nat, i \in U PROVE i + 1 \in U
      <3> SUFFICES ASSUME i + 1 \in 1 .. n PROVE flat[i + 1] = f[i + 1]
        OBVIOUS
      <3>1. k[i + 1] = Def(k)[i + 1] /\ flat[i + 1] = Def(flat)[i + 1]
        <4> HIDE DEF k, Def
        <4> QED BY <2>2, <2>3
      <3>2. CASE i = 0
        BY <2>1, <3>1, <3>2
      <3>3. CASE i # 0
        <4>1. i \in 1 .. n /\ (i + 1) - 1 = i /\ i + 1 # 1
          BY <3>3
        <4>2. flat[i] = f[i] /\ k[i] = f[i] /\ k[i + 1] = f[i + 1]
          BY <2>5, <4>1
        <4> HIDE DEF k
        <4> QED BY <2>1, <3>1, <4>1, <4>2
      <3> QED BY <3>2, <3>3
    <2> HIDE DEF U
    <2>6. Nat \subseteq U
      BY <2>4, <2>5, SetInduction
    <2>7. flat[n] = f[n]
      BY <2>1, <2>6 DEF U
    <2> QED BY <2>3, <2>7 DEF Flat, ss
  <1> HIDE DEF X, H
  <1>6. \A n \in 0 .. L : Flat(h, n) = f[n] /\ f[n] \in X
    BY <1>1, <1>3, <1>5
  <1>7. ASSUME NEW n \in 1 .. L PROVE Flat(h, n) = Flat(h, n - 1) \o h[n]
    <2>1. n \in 0 .. L /\ n - 1 \in 0 .. L
      OBVIOUS
    <2> QED BY <1>4, <1>6, <2>1
  <1> QED BY <1>1, <1>6, <1>7 DEF X

LEMMA FlatEmpty ==
  ASSUME NEW h
  PROVE  Flat(h, 0) = <<>>
  <1>1. [i \in 1 .. 0 |-> h[i]] = <<>>
    OBVIOUS
  <1> QED BY <1>1 DEF Flat, W!FlattenSeq

(* Positions and lengths, closed to arithmetic.                              *)
Place(n, m, L) == n \in 1 .. L /\ m = n - 1
Upto(n, L) == n \in 0 .. L

LEMMA FlatStep ==
  ASSUME NEW T, NEW L, NEW h, Pieces(h, L, T), NEW n, NEW m, Place(n, m, L)
  PROVE  /\ Flat(h, n) = Flat(h, m) \o h[n]
         /\ h[n] \in Seq(T)
  BY FlatIs DEF Pieces, Place

LEMMA FlatType ==
  ASSUME NEW T, NEW L, NEW h, Pieces(h, L, T), NEW n, Upto(n, L)
  PROVE  Flat(h, n) \in Seq(T)
  BY FlatIs DEF Upto

LEMMA FlatSame ==
  ASSUME NEW n, NEW g, NEW h, \A i \in 1 .. n : g[i] = h[i]
  PROVE  Flat(g, n) = Flat(h, n)
  BY DEF Flat

LEMMA FlatWhole ==
  ASSUME NEW T, NEW L, NEW h, Pieces(h, L, T)
  PROVE  W!FlattenSeq(h) = Flat(h, L)
  <1>1. h = [i \in 1 .. L |-> h[i]]
    BY DEF Pieces
  <1> QED BY <1>1 DEF Flat

LEMMA FlatBegins ==
  ASSUME NEW T, NEW L, NEW h, Pieces(h, L, T),
         NEW m \in 0 .. L, NEW n \in m .. L
  PROVE  Begins(Flat(h, m), Flat(h, n))
  <1>0. L \in Nat /\ m \in 0 .. L /\ n \in m .. L
    BY DEF Pieces
  <1> USE <1>0
  <1> DEFINE U == {i \in Nat : i \in m .. L => Begins(Flat(h, m), Flat(h, i))}
  <1>1. 0 \in U
    <2>1. m = 0 => Begins(Flat(h, m), Flat(h, 0))
      <3>1. Flat(h, 0) = <<>> /\ Len(<<>>) = 0
        BY FlatIs
      <3> QED BY <3>1 DEF Begins
    <2> QED BY <2>1
  <1>2. ASSUME NEW i \in Nat, i \in U PROVE i + 1 \in U
    <2> SUFFICES ASSUME i + 1 \in m .. L PROVE Begins(Flat(h, m), Flat(h, i + 1))
      OBVIOUS
    <2>1. i + 1 \in 1 .. L /\ (i + 1) - 1 = i /\ i \in 0 .. L /\ m \in Nat
      OBVIOUS
    <2>0. PICK p \in 1 .. L : p = i + 1 /\ p - 1 = i
      BY <2>1
    <2>2. /\ Flat(h, i + 1) = Flat(h, i) \o h[i + 1]
          /\ Flat(h, i) \in Seq(T) /\ Flat(h, i + 1) \in Seq(T) /\ Flat(h, m) \in Seq(T)
          /\ h[i + 1] \in Seq(T)
      <3>1. /\ Flat(h, p) = Flat(h, p - 1) \o h[p]
            /\ Flat(h, i) \in Seq(T) /\ Flat(h, m) \in Seq(T)
        BY <2>1, FlatIs
      <3>2. Flat(h, p) \in Seq(T) /\ h[p] \in Seq(T)
        <4>1. p \in 0 .. L
          OBVIOUS
        <4>2. h[p] \in Seq(T)
          BY DEF Pieces
        <4> QED BY <4>1, <4>2, FlatIs
      <3> QED BY <2>0, <3>1, <3>2
    <2>3. CASE m = i + 1
      BY <2>2, <2>3 DEF Begins
    <2>4. CASE m # i + 1
      <3>1. Begins(Flat(h, m), Flat(h, i))
        BY <1>2, <2>1, <2>4
      <3>2. PICK a, b, c : a = Flat(h, m) /\ b = Flat(h, i) /\ c = h[i + 1]
        OBVIOUS
      <3>3. /\ Len(b \o c) = Len(b) + Len(c) /\ Len(a) \in Nat /\ Len(b) \in Nat /\ Len(c) \in Nat
            /\ \A j \in 1 .. Len(b) : (b \o c)[j] = b[j]
        BY <2>2, <3>2, ConcatProperties
      <3> QED BY <2>2, <3>1, <3>2, <3>3 DEF Begins
    <2> QED BY <2>3, <2>4
  <1> HIDE DEF U
  <1>3. Nat \subseteq U
    BY <1>1, <1>2, SetInduction
  <1> QED BY <1>3 DEF U

Has(s, x) == \E j \in DOMAIN s : s[j] = x

LEMMA HasConcat ==
  ASSUME NEW T, NEW s, NEW t, s \in Seq(T), t \in Seq(T), NEW x
  PROVE  Has(s \o t, x) <=> Has(s, x) \/ Has(t, x)
  <1>1. /\ s \o t \in Seq(T) /\ Len(s \o t) = Len(s) + Len(t)
        /\ \A i \in 1 .. Len(s) + Len(t) : (s \o t)[i] =
             IF i <= Len(s) THEN s[i] ELSE t[i - Len(s)]
    BY ConcatProperties
  <1>2. /\ DOMAIN s = 1 .. Len(s) /\ DOMAIN t = 1 .. Len(t)
        /\ DOMAIN (s \o t) = 1 .. Len(s) + Len(t) /\ Len(s) \in Nat /\ Len(t) \in Nat
    BY <1>1
  <1>3. ASSUME Has(s \o t, x) PROVE Has(s, x) \/ Has(t, x)
    <2>1. PICK j \in 1 .. Len(s) + Len(t) : (s \o t)[j] = x
      BY <1>2, <1>3 DEF Has
    <2>2. CASE j <= Len(s)
      <3>1. j \in 1 .. Len(s) /\ s[j] = x
        BY <1>1, <1>2, <2>1, <2>2
      <3> QED BY <1>2, <3>1 DEF Has
    <2>3. CASE ~(j <= Len(s))
      <3>1. j - Len(s) \in 1 .. Len(t) /\ t[j - Len(s)] = x
        BY <1>1, <1>2, <2>1, <2>3
      <3> QED BY <1>2, <3>1 DEF Has
    <2> QED BY <2>2, <2>3
  <1>4. ASSUME Has(s, x) PROVE Has(s \o t, x)
    <2>1. PICK j \in 1 .. Len(s) : s[j] = x
      BY <1>2, <1>4 DEF Has
    <2>2. j \in 1 .. Len(s) + Len(t) /\ (s \o t)[j] = x
      BY <1>1, <1>2, <2>1
    <2> QED BY <1>2, <2>2 DEF Has
  <1>5. ASSUME Has(t, x) PROVE Has(s \o t, x)
    <2>1. PICK j \in 1 .. Len(t) : t[j] = x
      BY <1>2, <1>5 DEF Has
    <2>2. /\ Len(s) + j \in 1 .. Len(s) + Len(t) /\ ~(Len(s) + j <= Len(s))
          /\ (Len(s) + j) - Len(s) = j
      BY <1>2, <2>1
    <2>3. (s \o t)[Len(s) + j] = x
      BY <1>1, <2>1, <2>2
    <2> QED BY <1>2, <2>2, <2>3 DEF Has
  <1> QED BY <1>3, <1>4, <1>5

(* What there is in the pieces joined.                                       *)
LEMMA FlatMembers ==
  ASSUME NEW T, NEW L, NEW h, Pieces(h, L, T)
  PROVE  \A n \in 0 .. L : \A x : Has(Flat(h, n), x) <=> \E i \in 1 .. n : Has(h[i], x)
  <1>0. L \in Nat
    BY DEF Pieces
  <1> USE <1>0
  <1> DEFINE Ok(n) == \A x : Has(Flat(h, n), x) <=> \E i \in 1 .. n : Has(h[i], x)
             U == {n \in Nat : n <= L => Ok(n)}
  <1>1. 0 \in U
    <2>1. Flat(h, 0) = <<>>
      BY FlatIs
    <2> QED BY <2>1 DEF Has
  <1>2. ASSUME NEW n \in Nat, n \in U PROVE n + 1 \in U
    <2> SUFFICES ASSUME n + 1 <= L PROVE Ok(n + 1)
      OBVIOUS
    <2>1. n + 1 \in 1 .. L /\ (n + 1) - 1 = n /\ n \in 0 .. L /\ n <= L
      BY <1>0
    <2>0. PICK p \in 1 .. L : p = n + 1 /\ p - 1 = n
      BY <2>1
    <2>2. /\ Flat(h, p) = Flat(h, n) \o h[p]
          /\ Flat(h, n) \in Seq(T) /\ h[p] \in Seq(T)
      <3>1. Flat(h, p) = Flat(h, p - 1) \o h[p] /\ Flat(h, n) \in Seq(T)
        BY <2>1, FlatIs
      <3>2. h[p] \in Seq(T)
        BY DEF Pieces
      <3> QED BY <2>0, <3>1, <3>2
    <2>3. \A x : Has(Flat(h, n), x) <=> \E i \in 1 .. n : Has(h[i], x)
      BY <1>2, <2>1
    <2>4. \A x : Has(Flat(h, p), x) <=> Has(Flat(h, n), x) \/ Has(h[p], x)
      BY <2>2, HasConcat
    <2>5. \A i : i \in 1 .. p <=> i \in 1 .. n \/ i = p
      BY <2>0
    <2>6. Ok(p)
      BY <2>3, <2>4, <2>5
    <2> QED BY <2>0, <2>6
  <1> HIDE DEF U
  <1>3. Nat \subseteq U
    BY <1>1, <1>2, SetInduction
  <1>4. \A n \in 0 .. L : Ok(n)
    <2> HIDE DEF Ok
    <2> QED BY <1>0, <1>3 DEF U
  <1> QED BY <1>4

(* Pieces of two sequences, one after the other.                             *)
Joined(f, g, L, h, M) ==
    /\ \A i \in 1 .. L : f[i] = g[i]
    /\ \A i \in 1 .. M : f[L + i] = h[i]

LEMMA FlatJoin ==
  ASSUME NEW T, NEW L, NEW g, Pieces(g, L, T), NEW M, NEW h, Pieces(h, M, T),
         NEW N, NEW f, Pieces(f, N, T), Upto(L, N), Joined(f, g, L, h, M), N - L = M
  PROVE  Flat(f, N) = Flat(g, L) \o Flat(h, M)
  <1>0. L \in Nat /\ M \in Nat /\ N = L + M
    BY DEF Pieces, Upto
  <1> DEFINE U == {n \in Nat : n <= M => Flat(f, L + n) = Flat(g, L) \o Flat(h, n)}
  <1>1. 0 \in U
    <2>1. Flat(h, 0) = <<>>
      BY FlatEmpty
    <2>2. Flat(g, L) \in Seq(T)
      <3>1. Upto(L, L)
        BY <1>0 DEF Upto
      <3> QED BY <3>1, FlatType
    <2>3. Flat(g, L) \o <<>> = Flat(g, L)
      BY <2>2, ConcatEmptySeq
    <2>4. Flat(f, L) = Flat(g, L) /\ L + 0 = L
      BY <1>0, FlatSame DEF Joined
    <2> QED BY <2>1, <2>3, <2>4
  <1>2. ASSUME NEW n \in Nat, n \in U PROVE n + 1 \in U
    <2> SUFFICES ASSUME n + 1 <= M PROVE Flat(f, L + (n + 1)) = Flat(g, L) \o Flat(h, n + 1)
      OBVIOUS
    <2>1. PICK p : p = n + 1 /\ Place(p, n, M)
      BY <1>0 DEF Place
    <2>0. PICK r : r = L + n
      OBVIOUS
    <2>2. PICK t : t = L + p /\ Place(t, r, N)
      BY <1>0, <2>0, <2>1 DEF Place
    <2>3. Flat(f, t) = Flat(f, r) \o f[t]
      <3>1. Place(t, r, N)
        BY <2>2
      <3> QED BY ONLY <3>1, Pieces(f, N, T), FlatStep
    <2>4. Flat(h, p) = Flat(h, n) \o h[p] /\ h[p] \in Seq(T)
      BY ONLY <2>1, Pieces(h, M, T), FlatStep
    <2>5. PICK a : a = Flat(g, L)
      OBVIOUS
    <2>6. PICK b : b = Flat(h, n)
      OBVIOUS
    <2>7. a \in Seq(T)
      <3>1. Upto(L, L)
        BY <1>0 DEF Upto
      <3> QED BY <2>5, <3>1, FlatType
    <2>8. b \in Seq(T)
      <3>1. Upto(n, M)
        BY <1>0, <2>1 DEF Upto, Place
      <3> QED BY <2>6, <3>1, FlatType
    <2>9. Flat(f, r) = a \o b /\ f[t] = h[p]
      <3>1. n <= M /\ p \in 1 .. M
        BY <1>0, <2>1 DEF Place
      <3>2. f[L + p] = h[p]
        BY <3>1 DEF Joined
      <3>3. Flat(f, L + n) = Flat(g, L) \o Flat(h, n)
        BY <1>2, <3>1
      <3> QED BY <2>0, <2>2, <2>5, <2>6, <3>2, <3>3
    <2>10. PICK c \in Seq(T) : c = h[p]
      BY <2>4
    <2>11. (a \o b) \o c = a \o (b \o c)
      <3>1. PICK x \in Seq(T), y \in Seq(T) : x = a /\ y = b
        BY <2>7, <2>8
      <3>2. (x \o y) \o c = x \o (y \o c)
        BY ONLY x \in Seq(T), y \in Seq(T), c \in Seq(T), ConcatAssociative
      <3> QED BY <3>1, <3>2
    <2>12. Flat(f, t) = a \o Flat(h, p)
      BY ONLY <2>3, <2>4, <2>6, <2>9, <2>10, <2>11
    <2> QED BY <2>1, <2>2, <2>5, <2>12
  <1> HIDE DEF U
  <1>3. Nat \subseteq U
    BY <1>1, <1>2, SetInduction
  <1> QED BY <1>0, <1>3 DEF U

(* The pieces of a selection: an element, or nothing.                        *)
Kin(s, S) == [i \in 1 .. Len(s) |-> IF s[i] \in S THEN <<s[i]>> ELSE <<>>]

LEMMA ThoseFlat ==
  ASSUME NEW T, NEW s, s \in Seq(T), NEW S
  PROVE  W!Those(s, S) = Flat(Kin(s, S), Len(s)) /\ Pieces(Kin(s, S), Len(s), T)
  <1> DEFINE L == Len(s)
             P == Kin(s, S)
             Def(g) == [n \in 0 .. L |->
                           IF n = 0 THEN <<>>
                           ELSE IF s[n] \in S THEN Append(g[n - 1], s[n]) ELSE g[n - 1]]
             k == [n \in 0 .. L |-> Flat(P, n)]
  <1>1. L \in Nat /\ \A n \in 1 .. L : s[n] \in T
    OBVIOUS
  <1>2. Pieces(P, L, T) /\ \A n \in 1 .. L : P[n] = IF s[n] \in S THEN <<s[n]>> ELSE <<>>
    <2>1. \A n \in 1 .. L : (IF s[n] \in S THEN <<s[n]>> ELSE <<>>) \in Seq(T)
      BY <1>1
    <2> QED BY <1>1, <2>1 DEF Pieces, Kin
  <1> HIDE DEF L, P
  <1>3. k = Def(k)
    <2>1. ASSUME NEW n \in 0 .. L PROVE k[n] = Def(k)[n]
      <3>1. CASE n = 0
        BY <3>1, FlatEmpty
      <3>2. CASE n # 0
        <4>1. n \in 1 .. L /\ n - 1 \in 0 .. L
          BY <1>1, <3>2
        <4>0. PICK m : m = n - 1 /\ Place(n, m, L) /\ Upto(m, L)
          BY <1>1, <4>1 DEF Place, Upto
        <4>2. Flat(P, n) = Flat(P, n - 1) \o P[n] /\ Flat(P, n - 1) \in Seq(T) /\ s[n] \in T
          <5>1. Flat(P, n) = Flat(P, m) \o P[n]
            <6>1. Place(n, m, L) /\ Pieces(P, L, T)
              BY <1>2, <4>0
            <6> QED BY ONLY <6>1, FlatStep
          <5>2. Flat(P, m) \in Seq(T)
            BY ONLY <1>2, <4>0, FlatType
          <5> QED BY <1>1, <4>0, <4>1, <5>1, <5>2
        <4>3. Flat(P, n - 1) \o <<s[n]>> = Append(Flat(P, n - 1), s[n])
          BY <4>2, AppendIsConcat
        <4>4. Flat(P, n - 1) \o <<>> = Flat(P, n - 1)
          BY <4>2, ConcatEmptySeq
        <4> QED BY <1>2, <3>2, <4>1, <4>2, <4>3, <4>4
      <3> QED BY <3>1, <3>2
    <2> QED BY <1>1, <2>1
  <1> DEFINE those == CHOOSE g : g = Def(g)
  <1>4. those = Def(those) /\ W!Those(s, S) = those[L]
    <2>1. W!Those(s, S) = those[L]
      BY DEF W!Those, L
    <2> HIDE DEF Def
    <2> QED BY <1>3, <2>1
  <1> HIDE DEF those
  <1> DEFINE U == {n \in Nat : n <= L => those[n] = k[n]}
  <1>5. 0 \in U
    <2>1. those[0] = <<>> /\ k[0] = <<>>
      <3>1. 0 \in 0 .. L
        BY <1>1
      <3>2. those[0] = Def(those)[0] /\ k[0] = Def(k)[0]
        <4> HIDE DEF Def, k
        <4> QED BY <1>3, <1>4
      <3> HIDE DEF k
      <3> QED BY <3>1, <3>2
    <2> QED BY <2>1
  <1>6. ASSUME NEW n \in Nat, n \in U PROVE n + 1 \in U
    <2> SUFFICES ASSUME n + 1 <= L PROVE those[n + 1] = k[n + 1]
      OBVIOUS
    <2> HIDE DEF k
    <2>1. n + 1 \in 0 .. L /\ n + 1 # 0 /\ (n + 1) - 1 = n /\ n <= L
      BY <1>1
    <2>2. those[n + 1] = Def(those)[n + 1] /\ k[n + 1] = Def(k)[n + 1] /\ those[n] = k[n]
      <3> HIDE DEF Def
      <3> QED BY <1>3, <1>4, <1>6, <2>1
    <2> QED BY <2>1, <2>2
  <1> HIDE DEF U
  <1>7. Nat \subseteq U
    BY <1>5, <1>6, SetInduction
  <1>8. those[L] = Flat(P, L)
    <2>1. L \in 0 .. L /\ L \in Nat /\ L <= L
      BY <1>1
    <2>2. those[L] = k[L]
      <3> HIDE DEF k
      <3> QED BY <1>7, <2>1 DEF U
    <2> QED BY <2>1, <2>2
  <1> QED BY <1>2, <1>4, <1>8 DEF L, P

LEMMA ThoseIs ==
  ASSUME NEW T, NEW s, s \in Seq(T), NEW S
  PROVE  /\ W!Those(s, S) \in Seq(T)
         /\ \A x : Has(W!Those(s, S), x) <=> Has(s, x) /\ x \in S
  <1>1. W!Those(s, S) = Flat(Kin(s, S), Len(s)) /\ Pieces(Kin(s, S), Len(s), T)
    BY ThoseFlat
  <1>2. Len(s) \in Nat /\ Len(s) \in 0 .. Len(s) /\ DOMAIN s = 1 .. Len(s)
    OBVIOUS
  <1>3. W!Those(s, S) \in Seq(T)
    BY <1>1, <1>2, FlatIs
  <1>4. ASSUME NEW x PROVE Has(W!Those(s, S), x) <=> Has(s, x) /\ x \in S
    <2>1. Has(W!Those(s, S), x) <=> \E i \in 1 .. Len(s) : Has(Kin(s, S)[i], x)
      BY <1>1, <1>2, FlatMembers
    <2>2. \A i \in 1 .. Len(s) : Has(Kin(s, S)[i], x) <=> s[i] \in S /\ s[i] = x
      BY DEF Kin, Has
    <2>3. Has(s, x) <=> \E i \in 1 .. Len(s) : s[i] = x
      BY <1>2 DEF Has
    <2> QED BY <2>1, <2>2, <2>3
  <1> QED BY <1>3, <1>4

LEMMA ThoseSame ==
  ASSUME NEW T, NEW s, s \in Seq(T), NEW S, NEW R, \A x : Has(s, x) => (x \in S <=> x \in R)
  PROVE  W!Those(s, S) = W!Those(s, R)
  <1>1. \A i \in 1 .. Len(s) : Has(s, s[i])
    BY DEF Has
  <1>2. Kin(s, S) = Kin(s, R)
    BY <1>1 DEF Kin
  <1> QED BY <1>2, ThoseFlat

LEMMA ThoseConcat ==
  ASSUME NEW T, NEW s, NEW t, s \in Seq(T), t \in Seq(T), NEW S
  PROVE  W!Those(s \o t, S) = W!Those(s, S) \o W!Those(t, S)
  <1>1. PICK u : u = s \o t
    OBVIOUS
  <1>2. /\ u \in Seq(T) /\ Len(u) = Len(s) + Len(t) /\ Len(s) \in Nat /\ Len(t) \in Nat
        /\ \A i \in 1 .. Len(s) + Len(t) : u[i] = IF i <= Len(s) THEN s[i] ELSE t[i - Len(s)]
    BY <1>1, ConcatProperties
  <1> DEFINE L == Len(s)
             M == Len(t)
  <1>3. /\ Pieces(Kin(s, S), L, T) /\ Pieces(Kin(t, S), M, T) /\ Pieces(Kin(u, S), L + M, T)
        /\ W!Those(s, S) = Flat(Kin(s, S), L) /\ W!Those(t, S) = Flat(Kin(t, S), M)
        /\ W!Those(u, S) = Flat(Kin(u, S), L + M)
    BY <1>2, ThoseFlat
  <1>4. \A i \in 1 .. L : Kin(u, S)[i] = Kin(s, S)[i]
    <2>1. \A i \in 1 .. L : i \in 1 .. L + M /\ u[i] = s[i]
      BY <1>2
    <2> QED BY <1>2, <2>1 DEF Kin
  <1>5. \A i \in 1 .. M : Kin(u, S)[L + i] = Kin(t, S)[i]
    <2>1. \A i \in 1 .. M : L + i \in 1 .. L + M /\ u[L + i] = t[i]
      <3> TAKE i \in 1 .. M
      <3>1. L + i \in 1 .. L + M /\ ~(L + i <= L) /\ (L + i) - L = i
        BY <1>2
      <3> QED BY <1>2, <3>1
    <2> QED BY <1>2, <2>1 DEF Kin
  <1> HIDE DEF L, M
  <1>6. Flat(Kin(u, S), L + M) = Flat(Kin(s, S), L) \o Flat(Kin(t, S), M)
    <2>1. PICK N : N = L + M /\ Upto(L, N) /\ N - L = M
      BY <1>2 DEF Upto, L, M
    <2>2. PICK f, g, h : f = Kin(u, S) /\ g = Kin(s, S) /\ h = Kin(t, S)
      OBVIOUS
    <2>3. Pieces(g, L, T) /\ Pieces(h, M, T) /\ Pieces(f, N, T)
      BY <1>3, <2>1, <2>2
    <2>4. Joined(f, g, L, h, M)
      BY <1>4, <1>5, <2>2 DEF Joined
    <2>5. Flat(f, N) = Flat(g, L) \o Flat(h, M)
      BY ONLY <2>1, <2>3, <2>4, FlatJoin
    <2> QED BY <2>1, <2>2, <2>5
  <1> QED BY <1>1, <1>3, <1>6

LEMMA BeginsConcat ==
  ASSUME NEW T, NEW s, s \in Seq(T), NEW t, t \in Seq(T)
  PROVE  Begins(s, s \o t)
  <1>1. /\ Len(s \o t) = Len(s) + Len(t) /\ Len(s) \in Nat /\ Len(t) \in Nat
        /\ \A i \in 1 .. Len(s) : (s \o t)[i] = s[i]
    BY ConcatProperties
  <1> QED BY <1>1 DEF Begins

LEMMA BeginsTrans ==
  ASSUME NEW T, NEW s, s \in Seq(T), NEW t, t \in Seq(T), NEW u, u \in Seq(T),
         Begins(s, t), Begins(t, u)
  PROVE  Begins(s, u)
  <1>1. Len(s) \in Nat /\ Len(t) \in Nat /\ Len(u) \in Nat
    OBVIOUS
  <1> QED BY <1>1 DEF Begins

(* Reading on where one stopped.                                             *)
Upon(n, s) == n \in 0 .. Len(s)

LEMMA TakeMore ==
  ASSUME NEW T, NEW s, s \in Seq(T), NEW n, Upon(n, s), NEW m, m \in Nat
  PROVE  LET links == W!Take(W!Skip(s, n), m)
         IN  /\ links \in Seq(T) /\ Upon(n + Len(links), s) /\ Len(links) <= m
             /\ W!Take(s, n) \o links = W!Take(s, n + Len(links))
             /\ Len(links) < m => n + Len(links) = Len(s)
  <1>0. n \in 0 .. Len(s) /\ Len(s) \in Nat /\ n \in Nat
    BY DEF Upon
  <1>1. PICK u : u = W!Skip(s, n)
    OBVIOUS
  <1>2. /\ u \in Seq(T) /\ Len(u) = Len(s) - n /\ \A i \in 1 .. Len(u) : u[i] = s[n + i]
    BY <1>0, <1>1, SkipIs
  <1>3. PICK links : links = W!Take(u, m)
    OBVIOUS
  <1>4. /\ links \in Seq(T) /\ Len(links) = IF m < Len(u) THEN m ELSE Len(u)
        /\ \A i \in 1 .. Len(links) : links[i] = u[i]
    BY <1>2, <1>3, TakeIs
  <1>5. PICK l : l = Len(links) /\ l \in Nat /\ l <= m /\ n + l <= Len(s)
        /\ (l < m => n + l = Len(s))
    BY <1>0, <1>2, <1>4
  <1>6. PICK a : a = W!Take(s, n)
    OBVIOUS
  <1>7. a \in Seq(T) /\ Len(a) = n /\ \A i \in 1 .. n : a[i] = s[i]
    <2>1. /\ a \in Seq(T) /\ Len(a) = IF n < Len(s) THEN n ELSE Len(s)
          /\ \A i \in 1 .. Len(a) : a[i] = s[i]
      BY <1>0, <1>6, TakeIs
    <2> QED BY <1>0, <2>1
  <1>8. PICK k \in Nat : k = n + l
    BY <1>0, <1>5
  <1>9. PICK b : b = W!Take(s, k)
    OBVIOUS
  <1>10. b \in Seq(T) /\ Len(b) = k /\ \A i \in 1 .. k : b[i] = s[i]
    <2>1. /\ b \in Seq(T) /\ Len(b) = IF k < Len(s) THEN k ELSE Len(s)
          /\ \A i \in 1 .. Len(b) : b[i] = s[i]
      BY <1>9, TakeIs
    <2> QED BY <1>0, <1>5, <1>8, <2>1
  <1>11. /\ a \o links \in Seq(T) /\ Len(a \o links) = n + l
         /\ \A i \in 1 .. n + l : (a \o links)[i] = IF i <= n THEN a[i] ELSE links[i - n]
    <2>1. a \in Seq(T) /\ links \in Seq(T) /\ Len(a) = n /\ Len(links) = l
      BY <1>4, <1>5, <1>7
    <2>2. /\ a \o links \in Seq(T) /\ Len(a \o links) = Len(a) + Len(links)
          /\ \A i \in 1 .. Len(a) + Len(links) : (a \o links)[i] =
               IF i <= Len(a) THEN a[i] ELSE links[i - Len(a)]
      BY ONLY <2>1, ConcatProperties
    <2> QED BY <2>1, <2>2
  <1>12. \A i \in 1 .. k : (a \o links)[i] = b[i]
    <2> TAKE i \in 1 .. k
    <2>1. CASE i <= n
      BY <1>0, <1>5, <1>7, <1>8, <1>10, <1>11, <2>1
    <2>2. CASE ~(i <= n)
      <3>1. PICK j \in 1 .. l : j = i - n /\ n + j = i
        BY <1>0, <1>5, <1>8, <2>2
      <3>2. links[j] = u[j] /\ u[j] = s[n + j]
        <4>1. j \in 1 .. Len(links) /\ j \in 1 .. Len(u)
          BY <1>0, <1>2, <1>5, <3>1
        <4> QED BY <1>2, <1>4, <4>1
      <3> QED BY <1>8, <1>10, <1>11, <2>2, <3>1, <3>2
    <2> QED BY <2>1, <2>2
  <1>13. a \o links = b
    <2>1. PICK c : c = a \o links
      OBVIOUS
    <2>2. c \in Seq(T) /\ Len(c) = k /\ b \in Seq(T) /\ Len(b) = k /\ \A i \in 1 .. k : c[i] = b[i]
      BY <1>8, <1>10, <1>11, <1>12, <2>1
    <2>3. c = b
      BY ONLY <2>2
    <2> QED BY <2>1, <2>3
  <1> QED BY <1>0, <1>1, <1>3, <1>4, <1>5, <1>6, <1>8, <1>9, <1>13 DEF Upon

LEMMA TakeAll ==
  ASSUME NEW T, NEW s, s \in Seq(T), NEW n, n \in Nat, Len(s) <= n
  PROVE  W!Take(s, n) = s
  <1>1. PICK t : t = W!Take(s, n)
    OBVIOUS
  <1>2. /\ t \in Seq(T) /\ Len(t) = (IF n < Len(s) THEN n ELSE Len(s)) /\ Len(s) \in Nat
        /\ \A i \in 1 .. Len(t) : t[i] = s[i]
    BY <1>1, TakeIs
  <1> QED BY <1>1, <1>2

LEMMA SplitAt ==
  ASSUME NEW T, NEW s, s \in Seq(T), NEW n, Upon(n, s)
  PROVE  s = W!Take(s, n) \o W!Skip(s, n)
  <1>1. PICK m : m = Len(s)
    OBVIOUS
  <1>2. m \in Nat /\ n \in Nat
    BY <1>1 DEF Upon
  <1>3. PICK u : u = W!Skip(s, n)
    OBVIOUS
  <1>4. u \in Seq(T) /\ Len(u) = Len(s) - n
    BY <1>3, SkipIs DEF Upon
  <1>5. W!Take(u, m) = u
    BY <1>1, <1>2, <1>4, TakeAll
  <1>6. W!Take(s, n) \o u = W!Take(s, n + Len(u))
    <2>1. W!Take(s, n) \o W!Take(W!Skip(s, n), m) = W!Take(s, n + Len(W!Take(W!Skip(s, n), m)))
      BY ONLY s \in Seq(T), Upon(n, s), <1>2, TakeMore
    <2> QED BY <1>3, <1>5, <2>1
  <1>7. n + Len(u) = m
    BY <1>1, <1>4 DEF Upon
  <1>8. W!Take(s, m) = s
    BY <1>1, <1>2, TakeAll
  <1> QED BY <1>3, <1>6, <1>7, <1>8

(* A selection of the beginning is the beginning of the selection.           *)
LEMMA ThoseBegin ==
  ASSUME NEW T, NEW s, s \in Seq(T), NEW n, Upon(n, s), NEW S
  PROVE  Begins(W!Those(W!Take(s, n), S), W!Those(s, S))
  <1>1. PICK a : a = W!Take(s, n)
    OBVIOUS
  <1>2. PICK b : b = W!Skip(s, n)
    OBVIOUS
  <1>3. a \in Seq(T) /\ b \in Seq(T) /\ s = a \o b
    <2>1. n \in Nat
      BY DEF Upon
    <2>2. a \in Seq(T)
      BY <1>1, <2>1, TakeIs
    <2>3. b \in Seq(T)
      BY <1>2, <2>1, SkipIs
    <2>4. s = W!Take(s, n) \o W!Skip(s, n)
      BY ONLY s \in Seq(T), Upon(n, s), SplitAt
    <2> QED BY <1>1, <1>2, <2>2, <2>3, <2>4
  <1>4. W!Those(s, S) = W!Those(a, S) \o W!Those(b, S)
    BY <1>3, ThoseConcat
  <1>5. W!Those(a, S) \in Seq(T) /\ W!Those(b, S) \in Seq(T)
    BY <1>3, ThoseIs
  <1> QED BY <1>1, <1>4, <1>5, BeginsConcat
-----------------------------------------------------------------------------
(* The relations of an index, and what a query makes of them.                *)
Link  == W!RelationRow
Found == [row : Link, depth : Nat]

Indexed(rs) == rs \in Seq(Link) /\ \A r : Has(rs, r) /\ r.external => r.targets = {}
Walk(rs, q) == Indexed(rs) /\ q \in W!Query

LEMMA AllWalks ==
  ASSUME NEW rs \in Indexes, NEW q \in Asked
  PROVE  Walk(rs, q)
  <1>1. rs \in Seq(Link) /\ \A i \in DOMAIN rs : rs[i].external => rs[i].targets = {}
    BY QueriesAssumption DEF W!TraversalInputs, Link
  <1>2. q \in W!Query
    BY QueriesAssumption DEF W!TraversalInputs
  <1> QED BY <1>1, <1>2 DEF Walk, Indexed, Has

LEMMA SameCount ==
  \A S : (W!IsFiniteSet(S) <=> IsFiniteSet(S)) /\ W!Cardinality(S) = Cardinality(S)
  BY DEF W!IsFiniteSet, IsFiniteSet, W!Cardinality, Cardinality

LEMMA MembersAre ==
  ASSUME NEW s, NEW x
  PROVE  x \in W!ToSet(s) <=> Has(s, x)
  BY DEF W!ToSet, Has

LEMMA HasType ==
  ASSUME NEW T, NEW s, s \in Seq(T), NEW x, Has(s, x)
  PROVE  x \in T
  BY DEF Has

(* A relation whose target is proven has one, and leads to one symbol.       *)
LEMMA OneTarget ==
  ASSUME NEW r \in Link, W!Resolved(r)
  PROVE  r.targets = {W!Target(r)} /\ W!Target(r) \in Symbols
  <1>1. r.targets \subseteq Symbols /\ IsFiniteSet(r.targets) /\ Cardinality(r.targets) = 1
    <2>1. r.targets \in SUBSET Symbols /\ IsFiniteSet(Symbols)
      BY QueriesAssumption, SameCount DEF Link, W!RelationRow, W!TraversalInputs
    <2> QED BY <2>1, FS_Subset, SameCount DEF W!Resolved
  <1>2. PICK t : r.targets = {t}
    BY <1>1, FS_Singleton
  <1>3. W!Target(r) \in r.targets
    BY <1>2 DEF W!Target
  <1> QED BY <1>1, <1>2, <1>3

LEMMA NextIs ==
  ASSUME NEW d, NEW r \in Link
  PROVE  /\ W!NextNode(d, r) \subseteq Symbols
         /\ \A x, y \in W!NextNode(d, r) : x = y
  <1>1. r.from \in Symbols
    BY DEF Link, W!RelationRow
  <1>2. W!Resolved(r) => W!Target(r) \in Symbols
    BY OneTarget
  <1> QED BY <1>1, <1>2 DEF W!NextNode

(* A set of one or none as a sequence.                                       *)
LEMMA AsSeq ==
  ASSUME NEW T, NEW S \in SUBSET T, \A x, y \in S : x = y
  PROVE  W!SetToSeq(S) \in Seq(T) /\ \A x : Has(W!SetToSeq(S), x) <=> x \in S
  <1> DEFINE C == 1 .. W!Cardinality(S)
             P(f) == f \in [C -> S] /\ W!IsInjective(f)
             f == CHOOSE f \in [C -> S] : W!IsInjective(f)
  <1>0. W!SetToSeq(S) = f
    BY DEF W!SetToSeq
  <1>1. CASE S = {}
    <2>1. Cardinality(S) = 0
      BY <1>1, FS_EmptySet
    <2>2. C = {}
      BY <2>1, SameCount
    <2>3. f \in [C -> S]
      <3>1. <<>> \in [C -> S] /\ W!IsInjective(<<>>)
        BY <2>2 DEF W!IsInjective
      <3> QED BY <3>1
    <2>4. f = <<>>
      <3>1. PICK g \in [1 .. 0 -> S] : g = f
        <4>1. C = 1 .. 0
          BY <2>2
        <4> HIDE DEF f, C
        <4> QED BY <2>3, <4>1
      <3>2. g = [i \in 1 .. 0 |-> g[i]] /\ [i \in 1 .. 0 |-> g[i]] = <<>>
        OBVIOUS
      <3> QED BY <3>1, <3>2
    <2> HIDE DEF f
    <2> QED BY <1>0, <1>1, <2>4 DEF Has
  <1>2. CASE S # {}
    <2>1. PICK x \in T : S = {x}
      BY <1>2
    <2>2. C = {1}
      <3>1. Cardinality(S) = 1
        BY <2>1, FS_Singleton
      <3> QED BY <3>1, SameCount
    <2>3. f \in [C -> S]
      <3>1. <<x>> \in [C -> S] /\ W!IsInjective(<<x>>)
        BY <2>1, <2>2 DEF W!IsInjective
      <3> QED BY <3>1
    <2>4. f = <<x>>
      <3>1. PICK g \in [1 .. 1 -> {x}] : g = f
        <4>1. C = 1 .. 1
          BY <2>2
        <4> HIDE DEF f, C
        <4> QED BY <2>1, <2>3, <4>1
      <3>2. g = [i \in 1 .. 1 |-> x]
        OBVIOUS
      <3>3. [i \in 1 .. 1 |-> x] = <<x>>
        OBVIOUS
      <3> QED BY <3>1, <3>2, <3>3
    <2> HIDE DEF f
    <2> QED BY <1>0, <2>1, <2>4 DEF Has
  <1> QED BY <1>1, <1>2

LEMMA StartIs ==
  ASSUME NEW q
  PROVE  W!StartOf(q) \subseteq Symbols
  BY DEF W!StartOf, W!Named

(* The rows a query selects.                                                 *)
LEMMA ByNameIs ==
  ASSUME NEW rs, NEW q, Walk(rs, q)
  PROVE  W!ByName(rs, q) \in Seq(Link) /\ \A r : Has(W!ByName(rs, q), r) => Has(rs, r)
  BY ThoseIs DEF Walk, Indexed, W!ByName

LEMMA FetchIs ==
  ASSUME NEW rs, Indexed(rs), NEW d, NEW s
  PROVE  /\ W!FetchOf(rs, d, s) \in Seq(Link)
         /\ \A r : Has(W!FetchOf(rs, d, s), r) => Has(rs, r)
  BY ThoseIs DEF Indexed, W!FetchOf

(* Whether it leads to the start tells what a row of hop 1 is, wherever it   *)
(* is read.                                                                  *)
Leads(d, from) == {r \in Link : W!Backward(d) => W!Reaches(r, from)}

LEMMA ReachingIs ==
  ASSUME NEW s, s \in Seq(Link), NEW d, NEW from
  PROVE  W!Reaching(s, d, from) = W!Those(s, Leads(d, from))
  <1>1. ASSUME NEW r, Has(s, r)
        PROVE  r \in Leads(d, from) <=>
                  r \in {x \in W!ToSet(s) : W!Backward(d) => W!Reaches(x, from)}
    BY <1>1, HasType, MembersAre DEF Leads
  <1> QED BY <1>1, ThoseSame DEF W!Reaching

LEMMA DirectIs ==
  ASSUME NEW rs, NEW q, Walk(rs, q)
  PROVE  W!Direct(rs, q) = W!Reaching(W!ByName(rs, q), q.direction, W!StartOf(q))
  <1> DEFINE s == W!ByName(rs, q)
             from == W!StartOf(q)
             d == q.direction
  <1>1. s \in Seq(Link) /\ \A r : Has(s, r) => Has(rs, r)
    BY ByNameIs
  <1>2. ASSUME NEW r, Has(s, r)
        PROVE  W!Reaches(r, from) <=> r.external \/ r.targets = {} \/ r.targets \cap from # {}
    <2>1. r \in Link /\ (r.external => r.targets = {})
      BY <1>1, <1>2, HasType DEF Walk, Indexed
    <2>2. CASE W!Resolved(r)
      <3>1. r.targets = {W!Target(r)} /\ ~r.external
        BY <2>1, <2>2, OneTarget DEF W!Resolved
      <3>2. W!Reaches(r, from) <=> W!Target(r) \in from
        <4>1. ~W!Ambiguous(r)
          BY <2>2 DEF W!Ambiguous
        <4> QED BY <2>2, <4>1 DEF W!Reaches
      <3> QED BY <3>1, <3>2
    <2>3. CASE W!Ambiguous(r)
      <3>1. ~r.external /\ r.targets # {} /\ ~W!Resolved(r)
        BY <2>3 DEF W!Ambiguous
      <3>2. W!Reaches(r, from) <=> r.targets \cap from # {}
        BY <2>3, <3>1 DEF W!Reaches
      <3> QED BY <3>1, <3>2
    <2>4. CASE ~W!Resolved(r) /\ ~W!Ambiguous(r)
      <3>1. W!Reaches(r, from)
        BY <2>4 DEF W!Reaches
      <3>2. r.external \/ r.targets = {}
        BY <2>4 DEF W!Ambiguous
      <3> QED BY <3>1, <3>2
    <2> QED BY <2>2, <2>3, <2>4
  <1>3. ASSUME NEW r, Has(s, r)
        PROVE  r \in Leads(d, from) <=>
                  r \in {x \in W!ToSet(rs) : W!Backward(d) =>
                             x.external \/ x.targets = {} \/ x.targets \cap from # {}}
    <2>1. r \in W!ToSet(rs) /\ r \in Link
      BY <1>1, <1>3, MembersAre, HasType
    <2>2. W!Reaches(r, from) <=> r.external \/ r.targets = {} \/ r.targets \cap from # {}
      BY <1>2, <1>3
    <2> HIDE DEF s, from, d
    <2> QED BY <2>1, <2>2 DEF Leads
  <1>4. W!Those(s, Leads(d, from)) = W!Direct(rs, q)
    BY <1>1, <1>3, ThoseSame DEF W!Direct
  <1>5. W!Reaching(s, d, from) = W!Those(s, Leads(d, from))
    BY <1>1, ReachingIs
  <1> QED BY <1>4, <1>5

LEMMA DirectType ==
  ASSUME NEW rs, NEW q, Walk(rs, q)
  PROVE  W!Direct(rs, q) \in Seq(Link) /\ \A r : Has(W!Direct(rs, q), r) => Has(rs, r)
  <1>1. W!ByName(rs, q) \in Seq(Link) /\ \A r : Has(W!ByName(rs, q), r) => Has(rs, r)
    BY ByNameIs
  <1> QED BY <1>1, ThoseIs DEF W!Direct
-----------------------------------------------------------------------------
(* The levels of the unbounded walk.                                         *)
NewPieces(q, links, seen) ==
    [i \in 1 .. Len(links) |->
        W!SetToSeq(W!NextNode(q.direction, links[i]) \ (seen \cup W!LedTo(q, links, i - 1)))]

FetchPieces(rs, q, nodes) == [i \in 1 .. Len(nodes) |-> W!FetchOf(rs, q.direction, nodes[i])]

LEMMA LedToIs ==
  ASSUME NEW q, NEW links, links \in Seq(Link), NEW n, Upto(n, Len(links))
  PROVE  W!LedTo(q, links, n) \subseteq Symbols
  <1>1. \A i \in 1 .. n : links[i] \in Link
    BY DEF Upto
  <1> QED BY <1>1, NextIs DEF W!LedTo

LEMMA NewPiece ==
  ASSUME NEW q, NEW links, links \in Seq(Link), NEW seen, NEW n, NEW m, Place(n, m, Len(links))
  PROVE  /\ NewPieces(q, links, seen)[n] = W!SetToSeq(
                W!NextNode(q.direction, links[n]) \ (seen \cup W!LedTo(q, links, m)))
         /\ NewPieces(q, links, seen)[n] \in Seq(Symbols)
         /\ \A x : Has(NewPieces(q, links, seen)[n], x) <=>
                x \in W!NextNode(q.direction, links[n]) \ (seen \cup W!LedTo(q, links, m))
  <1> DEFINE S == W!NextNode(q.direction, links[n]) \ (seen \cup W!LedTo(q, links, m))
  <1>1. links[n] \in Link
    BY DEF Place
  <1>2. S \in SUBSET Symbols /\ \A x, y \in S : x = y
    BY <1>1, NextIs
  <1>3. NewPieces(q, links, seen)[n] = W!SetToSeq(S)
    BY DEF NewPieces, Place
  <1> HIDE DEF S
  <1>4. W!SetToSeq(S) \in Seq(Symbols) /\ \A x : Has(W!SetToSeq(S), x) <=> x \in S
    BY <1>2, AsSeq
  <1> QED BY <1>3, <1>4 DEF S

LEMMA NewNodesIs ==
  ASSUME NEW q, NEW links, links \in Seq(Link), NEW seen
  PROVE  /\ Pieces(NewPieces(q, links, seen), Len(links), Symbols)
         /\ W!NewNodes(q, links, seen) = Flat(NewPieces(q, links, seen), Len(links))
         /\ W!NewNodes(q, links, seen) \in Seq(Symbols)
         /\ \A x : Has(W!NewNodes(q, links, seen), x) <=>
                       x \in W!LedTo(q, links, Len(links)) \ seen
  <1>1. PICK L : L = Len(links)
    OBVIOUS
  <1>2. PICK h : h = NewPieces(q, links, seen)
    OBVIOUS
  <1>3. \A n \in 1 .. L : Place(n, n - 1, L)
    BY DEF Place
  <1>4. \A n \in 1 .. L : h[n] \in Seq(Symbols)
    <2> TAKE n \in 1 .. L
    <2>1. PICK m : Place(n, m, Len(links))
      BY <1>1, <1>3
    <2>2. NewPieces(q, links, seen)[n] \in Seq(Symbols)
      BY <2>1, NewPiece
    <2> QED BY <1>2, <2>2
  <1>5. Pieces(h, L, Symbols)
    <2>1. L \in Nat
      BY <1>1
    <2>2. h = [i \in 1 .. L |-> h[i]]
      BY <1>1, <1>2 DEF NewPieces
    <2> QED BY <1>4, <2>1, <2>2 DEF Pieces
  <1>6. W!NewNodes(q, links, seen) = Flat(h, L)
    <2>1. W!NewNodes(q, links, seen) = W!FlattenSeq(h)
      <3>1. DOMAIN links = 1 .. L
        BY <1>1
      <3> QED BY <1>1, <1>2, <3>1 DEF W!NewNodes, NewPieces
    <2> QED BY <1>5, <2>1, FlatWhole
  <1>7. L \in Nat /\ Upto(L, L) /\ L \in 0 .. L
    BY <1>1 DEF Upto
  <1>8. Flat(h, L) \in Seq(Symbols)
    BY <1>5, <1>7, FlatType
  <1>9. ASSUME NEW x
        PROVE  Has(Flat(h, L), x) <=> x \in W!LedTo(q, links, L) \ seen
    <2>1. Has(Flat(h, L), x) <=> \E i \in 1 .. L : Has(h[i], x)
      BY <1>5, <1>7, FlatMembers
    <2>2. ASSUME NEW i \in 1 .. L
          PROVE  Has(h[i], x) <=>
                   x \in W!NextNode(q.direction, links[i]) \ (seen \cup W!LedTo(q, links, i - 1))
      <3>1. PICK m : m = i - 1 /\ Place(i, m, Len(links))
        BY <1>1, <1>3
      <3>2. Has(NewPieces(q, links, seen)[i], x) <=>
              x \in W!NextNode(q.direction, links[i]) \ (seen \cup W!LedTo(q, links, m))
        <4>1. Place(i, m, Len(links))
          BY <3>1
        <4> QED BY <4>1, NewPiece
      <3> QED BY <1>2, <3>1, <3>2
    <2>3. ASSUME NEW i \in 1 .. L, Has(h[i], x) PROVE x \in W!LedTo(q, links, L) \ seen
      BY <2>2, <2>3 DEF W!LedTo
    <2>4. ASSUME x \in W!LedTo(q, links, L) \ seen PROVE \E i \in 1 .. L : Has(h[i], x)
      <3> DEFINE I == {i \in Nat : i \in 1 .. L /\ x \in W!NextNode(q.direction, links[i])}
      <3>1. I # {} /\ I \in SUBSET Nat
        <4>1. PICK i \in 1 .. L : x \in W!NextNode(q.direction, links[i])
          BY <2>4 DEF W!LedTo
        <4> QED BY <4>1
      <3> HIDE DEF I
      <3>2. PICK i \in I : \A j \in I : i <= j
        BY <3>1, LeastIn
      <3>3. i \in 1 .. L /\ x \in W!NextNode(q.direction, links[i])
        BY <3>2 DEF I
      <3>4. x \notin W!LedTo(q, links, i - 1)
        <4> SUFFICES ASSUME NEW j \in 1 .. i - 1, x \in W!NextNode(q.direction, links[j])
                     PROVE  FALSE
          BY DEF W!LedTo
        <4>1. j \in Nat /\ j \in 1 .. L /\ ~(i <= j)
          BY <1>7, <3>3
        <4>2. j \in I
          BY <4>1 DEF I
        <4> QED BY <3>2, <4>1, <4>2
      <3>5. Has(h[i], x)
        BY <2>2, <2>4, <3>3, <3>4
      <3> QED BY <3>3, <3>5
    <2> QED BY <2>1, <2>3, <2>4
  <1> QED BY <1>1, <1>2, <1>5, <1>6, <1>8, <1>9

LEMMA FetchedIs ==
  ASSUME NEW rs, NEW q, Walk(rs, q), NEW nodes, nodes \in Seq(Symbols)
  PROVE  /\ Pieces(FetchPieces(rs, q, nodes), Len(nodes), Link)
         /\ W!Fetched(rs, q, nodes) = Flat(FetchPieces(rs, q, nodes), Len(nodes))
         /\ W!Fetched(rs, q, nodes) \in Seq(Link)
         /\ \A r : Has(W!Fetched(rs, q, nodes), r) <=>
                \E s : Has(nodes, s) /\ Has(W!FetchOf(rs, q.direction, s), r)
  <1>1. PICK L : L = Len(nodes)
    OBVIOUS
  <1>2. PICK h : h = FetchPieces(rs, q, nodes)
    OBVIOUS
  <1>3. h = [i \in 1 .. L |-> h[i]] /\ \A i \in 1 .. L : h[i] = W!FetchOf(rs, q.direction, nodes[i])
    BY <1>1, <1>2 DEF FetchPieces
  <1>4. L \in Nat /\ Upto(L, L) /\ L \in 0 .. L /\ DOMAIN nodes = 1 .. L
    BY <1>1 DEF Upto
  <1>5. Pieces(h, L, Link)
    <2>1. \A i \in 1 .. L : h[i] \in Seq(Link)
      BY <1>3, FetchIs DEF Walk
    <2> QED BY <1>3, <1>4, <2>1 DEF Pieces
  <1>6. W!Fetched(rs, q, nodes) = Flat(h, L)
    <2>1. W!Fetched(rs, q, nodes) = W!FlattenSeq(h)
      BY <1>1, <1>2, <1>4 DEF W!Fetched, FetchPieces
    <2> QED BY <1>5, <2>1, FlatWhole
  <1>7. Flat(h, L) \in Seq(Link)
    BY <1>4, <1>5, FlatType
  <1>8. ASSUME NEW r
        PROVE  Has(Flat(h, L), r) <=> \E s : Has(nodes, s) /\ Has(W!FetchOf(rs, q.direction, s), r)
    <2>1. Has(Flat(h, L), r) <=> \E i \in 1 .. L : Has(h[i], r)
      BY <1>4, <1>5, FlatMembers
    <2>2. \A s : Has(nodes, s) <=> \E i \in 1 .. L : nodes[i] = s
      BY <1>4 DEF Has
    <2> QED BY <1>3, <2>1, <2>2
  <1> QED BY <1>1, <1>2, <1>5, <1>6, <1>7, <1>8

Level == [rows : Seq(Link), nodes : Seq(Symbols), seen : SUBSET Symbols]
Ground(q) == [rows |-> <<>>, nodes |-> <<>>, seen |-> W!StartOf(q)]
RowsAfter(rs, q, n, before) ==
    IF n = 1 THEN W!Direct(rs, q) ELSE W!Fetched(rs, q, before.nodes)
LevelAfter(rs, q, n, before) ==
    [rows  |-> RowsAfter(rs, q, n, before),
     nodes |-> W!NewNodes(q, RowsAfter(rs, q, n, before), before.seen),
     seen  |-> before.seen \cup W!LedTo(q, RowsAfter(rs, q, n, before),
                                       Len(RowsAfter(rs, q, n, before)))]

LEMMA LevelAfterType ==
  ASSUME NEW rs, NEW q, Walk(rs, q), NEW n, NEW before, before \in Level
  PROVE  LevelAfter(rs, q, n, before) \in Level
  <1>1. PICK links : links = RowsAfter(rs, q, n, before)
    OBVIOUS
  <1>2. links \in Seq(Link)
    <2>1. before.nodes \in Seq(Symbols)
      BY DEF Level
    <2> QED BY <1>1, <2>1, DirectType, FetchedIs DEF RowsAfter
  <1>3. W!NewNodes(q, links, before.seen) \in Seq(Symbols)
    BY <1>2, NewNodesIs
  <1>4. W!LedTo(q, links, Len(links)) \subseteq Symbols
    <2>1. Upto(Len(links), Len(links))
      BY <1>2 DEF Upto
    <2> QED BY <1>2, <2>1, LedToIs
  <1> QED BY <1>1, <1>2, <1>3, <1>4 DEF LevelAfter, Level

LEMMA LevelsAre ==
  ASSUME NEW rs, NEW q, Walk(rs, q)
  PROVE  LET levels == W!Levels(rs, q)
             L == W!Hops(q)
         IN  /\ L \in Nat /\ 1 <= L
             /\ levels[0] = Ground(q)
             /\ \A n \in 1 .. L : levels[n] = LevelAfter(rs, q, n, levels[n - 1])
             /\ \A n \in 0 .. L : levels[n] \in Level
  <1>1. PICK L : L = W!Hops(q)
    OBVIOUS
  <1>2. L \in Nat /\ 1 <= L
    BY <1>1, QueriesAssumption DEF W!Hops, Walk, W!Query, W!TraversalInputs
  <1>3. PICK b : b = Ground(q)
    OBVIOUS
  <1>4. b \in Level
    BY <1>3, StartIs DEF Ground, Level
  <1> DEFINE H == [n \in 1 .. L |-> [x \in Level |-> LevelAfter(rs, q, n, x)]]
             Def(g) == [n \in 0 .. L |-> IF n = 0 THEN b ELSE LevelAfter(rs, q, n, g[n - 1])]
  <1>5. H \in [1 .. L -> [Level -> Level]]
    <2>1. \A n \in 1 .. L : [x \in Level |-> LevelAfter(rs, q, n, x)] \in [Level -> Level]
      BY LevelAfterType
    <2> QED BY <2>1
  <1>6. PICK f : FoldOf(f, Level, b, L, H)
    <2> HIDE DEF H
    <2> QED BY ONLY <1>2, <1>4, <1>5, FoldIs
  <1>7. f = Def(f)
    <2>1. f \in [0 .. L -> Level] /\ f[0] = b /\ \A n \in 1 .. L : f[n] = H[n][f[n - 1]]
      BY <1>6 DEF FoldOf
    <2>2. ASSUME NEW n \in 1 .. L PROVE f[n] = LevelAfter(rs, q, n, f[n - 1])
      <3>1. n - 1 \in 0 .. L
        BY <1>2
      <3>2. f[n - 1] \in Level
        BY <2>1, <3>1
      <3> QED BY <2>1, <3>2
    <2>3. ASSUME NEW n \in 0 .. L
          PROVE  f[n] = IF n = 0 THEN b ELSE LevelAfter(rs, q, n, f[n - 1])
      <3>1. n # 0 => n \in 1 .. L
        BY <1>2
      <3> QED BY <2>1, <2>2, <3>1
    <2> HIDE DEF H
    <2> QED BY <2>1, <2>3
  <1> DEFINE levels == CHOOSE g : g = Def(g)
  <1>8. W!Levels(rs, q) = levels
    BY <1>1, <1>3 DEF W!Levels, LevelAfter, RowsAfter, Ground
  <1>9. levels = Def(levels)
    <2> HIDE DEF Def
    <2> QED BY <1>7
  <1> HIDE DEF levels, H
  <1>10. levels[0] = b /\ \A n \in 1 .. L : levels[n] = LevelAfter(rs, q, n, levels[n - 1])
    <2>1. \A n \in 0 .. L : levels[n] = Def(levels)[n]
      <3> HIDE DEF Def
      <3> QED BY <1>9
    <2>2. \A n \in 1 .. L : n \in 0 .. L /\ n # 0
      OBVIOUS
    <2>3. 0 \in 0 .. L
      BY <1>2
    <2> QED BY <2>1, <2>2, <2>3
  <1> DEFINE U == {n \in Nat : n <= L => levels[n] \in Level}
  <1>11. 0 \in U
    BY <1>4, <1>10
  <1>12. ASSUME NEW n \in Nat, n \in U PROVE n + 1 \in U
    <2> SUFFICES ASSUME n + 1 <= L PROVE levels[n + 1] \in Level
      OBVIOUS
    <2>1. PICK p \in 1 .. L : p = n + 1 /\ p - 1 = n
      BY <1>2
    <2>2. levels[p] = LevelAfter(rs, q, p, levels[n])
      BY <1>10, <2>1
    <2>3. levels[n] \in Level
      BY <1>2, <1>12
    <2> QED BY <2>1, <2>2, <2>3, LevelAfterType
  <1> HIDE DEF U
  <1>13. Nat \subseteq U
    BY <1>11, <1>12, SetInduction
  <1>14. \A n \in 0 .. L : levels[n] \in Level
    BY <1>2, <1>13 DEF U
  <1> QED BY <1>1, <1>2, <1>3, <1>8, <1>10, <1>14

(* The hits of the unbounded walk, up to a hop.                              *)
Numberings(rs, q) == [n \in 1 .. W!Hops(q) |-> W!Numbered(W!Levels(rs, q)[n].rows, n)]
Walked(rs, q, n) == Flat(Numberings(rs, q), n)

LEMMA NumberedIs ==
  ASSUME NEW links, links \in Seq(Link), NEW n, n \in Nat
  PROVE  /\ W!Numbered(links, n) \in Seq(Found) /\ Len(W!Numbered(links, n)) = Len(links)
         /\ \A i \in 1 .. Len(links) : W!Numbered(links, n)[i] = [row |-> links[i], depth |-> n]
         /\ \A x : Has(W!Numbered(links, n), x) <=>
                       x.depth = n /\ x = [row |-> x.row, depth |-> n] /\ Has(links, x.row)
  <1>1. PICK s : s = W!Numbered(links, n)
    OBVIOUS
  <1>2. PICK L \in Nat : L = Len(links)
    OBVIOUS
  <1>3. DOMAIN links = 1 .. L
    BY <1>2
  <1>4. s = [i \in 1 .. L |-> [row |-> links[i], depth |-> n]]
    BY <1>1, <1>3 DEF W!Numbered
  <1>5. \A i \in 1 .. L : s[i] \in Found
    BY <1>2, <1>4 DEF Found
  <1>6. s \in Seq(Found) /\ Len(s) = L /\ DOMAIN s = 1 .. L
    BY <1>4, <1>5
  <1>7. ASSUME NEW x
        PROVE  Has(s, x) <=> x.depth = n /\ x = [row |-> x.row, depth |-> n] /\ Has(links, x.row)
    <2>1. Has(s, x) <=> \E i \in 1 .. L : x = [row |-> links[i], depth |-> n]
      BY <1>4, <1>6 DEF Has
    <2>2. Has(links, x.row) <=> \E i \in 1 .. L : links[i] = x.row
      BY <1>3 DEF Has
    <2> QED BY <2>1, <2>2
  <1> QED BY <1>1, <1>2, <1>4, <1>6, <1>7

LEMMA NothingIn ==
  ASSUME NEW T, NEW s, s \in Seq(T), \A x : ~Has(s, x)
  PROVE  s = <<>>
  <1>1. \A i \in 1 .. Len(s) : Has(s, s[i])
    BY DEF Has
  <1>2. Len(s) = 0
    <2>1. Len(s) \in Nat /\ (Len(s) # 0 => 1 \in 1 .. Len(s))
      OBVIOUS
    <2> QED BY <1>1, <2>1
  <1> QED BY <1>2

LEMMA WalkedIs ==
  ASSUME NEW rs, NEW q, Walk(rs, q)
  PROVE  /\ Pieces(Numberings(rs, q), W!Hops(q), Found)
         /\ Walked(rs, q, 0) = <<>>
         /\ \A n \in 0 .. W!Hops(q) : Walked(rs, q, n) \in Seq(Found)
         /\ \A n \in 1 .. W!Hops(q) :
               Walked(rs, q, n) = Walked(rs, q, n - 1) \o W!Numbered(W!Levels(rs, q)[n].rows, n)
         /\ W!FullWalk(rs, q) = Walked(rs, q, W!Hops(q))
  <1>1. PICK L : L = W!Hops(q)
    OBVIOUS
  <1>2. PICK h : h = Numberings(rs, q)
    OBVIOUS
  <1>3. L \in Nat /\ 1 <= L /\ \A n \in 0 .. L : W!Levels(rs, q)[n] \in Level
    BY <1>1, LevelsAre
  <1>4. \A n \in 1 .. L : h[n] = W!Numbered(W!Levels(rs, q)[n].rows, n) /\ h[n] \in Seq(Found)
    <2> TAKE n \in 1 .. L
    <2>1. W!Levels(rs, q)[n].rows \in Seq(Link) /\ n \in Nat
      BY <1>3 DEF Level
    <2>2. W!Numbered(W!Levels(rs, q)[n].rows, n) \in Seq(Found)
      BY <2>1, NumberedIs
    <2> QED BY <1>1, <1>2, <2>2 DEF Numberings
  <1>5. Pieces(h, L, Found)
    <2>1. h = [i \in 1 .. L |-> h[i]]
      BY <1>1, <1>2 DEF Numberings
    <2> QED BY <1>3, <1>4, <2>1 DEF Pieces
  <1>6. ASSUME NEW n \in 1 .. L
        PROVE  Flat(h, n) = Flat(h, n - 1) \o W!Numbered(W!Levels(rs, q)[n].rows, n)
    <2>1. PICK m : m = n - 1 /\ Place(n, m, L)
      BY DEF Place
    <2>2. Flat(h, n) = Flat(h, m) \o h[n]
      <3>1. Place(n, m, L)
        BY <2>1
      <3> QED BY ONLY <1>5, <3>1, FlatStep
    <2> QED BY <1>4, <2>1, <2>2
  <1>7. \A n \in 0 .. L : Flat(h, n) \in Seq(Found)
    BY <1>5, FlatType DEF Upto
  <1>8. W!FullWalk(rs, q) = Flat(h, L)
    <2>1. W!FullWalk(rs, q) = W!FlattenSeq(h)
      BY <1>1, <1>2 DEF W!FullWalk, Numberings
    <2> QED BY <1>5, <2>1, FlatWhole
  <1> QED BY <1>1, <1>2, <1>5, <1>6, <1>7, <1>8, FlatEmpty DEF Walked

LEMMA WalkedBegins ==
  ASSUME NEW rs, NEW q, Walk(rs, q), NEW m, NEW n, Upto(m, W!Hops(q)), Upto(n, W!Hops(q)), m <= n
  PROVE  Begins(Walked(rs, q, m), Walked(rs, q, n))
  <1>1. PICK L : L = W!Hops(q)
    OBVIOUS
  <1>2. PICK h : h = Numberings(rs, q)
    OBVIOUS
  <1>3. Pieces(h, L, Found)
    BY <1>1, <1>2, WalkedIs
  <1>4. m \in 0 .. L /\ n \in m .. L
    BY <1>1 DEF Upto
  <1>5. Begins(Flat(h, m), Flat(h, n))
    BY <1>3, <1>4, FlatBegins
  <1> QED BY <1>2, <1>5 DEF Walked

(* No symbols to go on from: there is nothing more to find.                  *)
LEMMA RunsDry ==
  ASSUME NEW rs, NEW q, Walk(rs, q), NEW n, n \in 1 .. W!Hops(q),
         W!Levels(rs, q)[n].nodes = <<>>
  PROVE  W!FullWalk(rs, q) = Walked(rs, q, n)
  <1>1. PICK L : L = W!Hops(q)
    OBVIOUS
  <1>2. PICK levels : levels = W!Levels(rs, q)
    OBVIOUS
  <1>3. /\ L \in Nat /\ n \in 1 .. L
        /\ \A i \in 1 .. L : levels[i] = LevelAfter(rs, q, i, levels[i - 1])
        /\ \A i \in 0 .. L : levels[i] \in Level
    BY <1>1, <1>2, LevelsAre
  <1>4. /\ \A i \in 0 .. L : Walked(rs, q, i) \in Seq(Found)
        /\ \A i \in 1 .. L : Walked(rs, q, i) = Walked(rs, q, i - 1)
             \o W!Numbered(levels[i].rows, i)
        /\ W!FullWalk(rs, q) = Walked(rs, q, L)
    BY <1>1, <1>2, WalkedIs
  <1> DEFINE Ok(m) == levels[m].nodes = <<>> /\ Walked(rs, q, m) = Walked(rs, q, n)
             U == {m \in Nat : m \in n .. L => Ok(m)}
  <1>5. 0 \in U
    BY <1>3
  <1>6. ASSUME NEW m \in Nat, m \in U PROVE m + 1 \in U
    <2> SUFFICES ASSUME m + 1 \in n .. L PROVE Ok(m + 1)
      OBVIOUS
    <2>1. PICK p \in 1 .. L : p = m + 1 /\ p - 1 = m
      BY <1>3
    <2>2. CASE p = n
      BY <1>2, <2>1, <2>2
    <2>3. CASE p # n
      <3>1. m \in n .. L /\ p # 1 /\ m \in 0 .. L
        BY <1>3, <2>1, <2>3
      <3>2. levels[m].nodes = <<>> /\ Walked(rs, q, m) = Walked(rs, q, n)
        BY <1>6, <3>1
      <3>3. PICK links : links = W!Fetched(rs, q, <<>>)
        OBVIOUS
      <3>4. links = <<>>
        <4>1. PICK e \in Seq(Symbols) : e = <<>> /\ DOMAIN e = {}
          <5>1. <<>> \in Seq(Symbols) /\ Len(<<>>) = 0 /\ DOMAIN <<>> = {}
            OBVIOUS
          <5> QED BY <5>1
        <4>2. /\ W!Fetched(rs, q, e) \in Seq(Link)
              /\ \A r : Has(W!Fetched(rs, q, e), r) => \E s : Has(e, s)
          BY FetchedIs
        <4>3. links \in Seq(Link) /\ \A r : ~Has(links, r)
          BY <3>3, <4>1, <4>2 DEF Has
        <4> QED BY <4>3, NothingIn
      <3>5. levels[p] = LevelAfter(rs, q, p, levels[m])
        BY <1>3, <2>1
      <3>6. levels[p].rows = <<>> /\ levels[p].nodes = W!NewNodes(q, <<>>, levels[m].seen)
        BY <3>1, <3>2, <3>3, <3>4, <3>5 DEF LevelAfter, RowsAfter
      <3>7. levels[p].nodes = <<>>
        <4>1. PICK e \in Seq(Link) : e = <<>> /\ Len(e) = 0
          <5>1. <<>> \in Seq(Link) /\ Len(<<>>) = 0 /\ DOMAIN <<>> = {}
            OBVIOUS
          <5> QED BY <5>1
        <4>2. PICK seen : seen = levels[m].seen
          OBVIOUS
        <4>3. /\ W!NewNodes(q, e, seen) \in Seq(Symbols)
              /\ \A x : Has(W!NewNodes(q, e, seen), x) => x \in W!LedTo(q, e, Len(e))
          BY NewNodesIs
        <4>4. W!LedTo(q, e, Len(e)) = {}
          BY <4>1 DEF W!LedTo
        <4>5. W!NewNodes(q, e, seen) = <<>>
          BY <4>3, <4>4, NothingIn
        <4> QED BY <3>6, <4>1, <4>2, <4>5
      <3>8. Walked(rs, q, p) = Walked(rs, q, m)
        <4>1. Walked(rs, q, p) = Walked(rs, q, m) \o W!Numbered(<<>>, p)
          BY <1>4, <2>1, <3>6
        <4>2. W!Numbered(<<>>, p) = <<>>
          <5>1. <<>> \in Seq(Link) /\ Len(<<>>) = 0 /\ p \in Nat
            OBVIOUS
          <5>2. W!Numbered(<<>>, p) \in Seq(Found) /\ Len(W!Numbered(<<>>, p)) = 0
            BY <5>1, NumberedIs
          <5> QED BY <5>2
        <4>3. Walked(rs, q, m) \in Seq(Found)
          BY <1>4, <3>1
        <4> QED BY <4>1, <4>2, <4>3, ConcatEmptySeq
      <3> QED BY <2>1, <3>2, <3>7, <3>8
    <2> QED BY <2>2, <2>3
  <1> HIDE DEF U
  <1>7. Nat \subseteq U
    BY <1>5, <1>6, SetInduction
  <1>8. L \in n .. L
    BY <1>3
  <1> QED BY <1>3, <1>4, <1>7, <1>8 DEF U
-----------------------------------------------------------------------------
(* The tests among the hits found so far are the first of all of them.       *)
IsTest(found, i) ==
    /\ found[i].row.from \in Tests \ Modules
    /\ \A j \in 1 .. i - 1 : found[j].row.from # found[i].row.from
TestPieces(found) == [i \in 1 .. Len(found) |-> IF IsTest(found, i) THEN <<found[i]>> ELSE <<>>]

LEMMA TestsAre ==
  ASSUME NEW found, found \in Seq(Found)
  PROVE  /\ Pieces(TestPieces(found), Len(found), Found)
         /\ W!TestsOf(found) = Flat(TestPieces(found), Len(found))
         /\ W!TestsOf(found) \in Seq(Found)
  <1>1. PICK L : L = Len(found)
    OBVIOUS
  <1>2. PICK h : h = TestPieces(found)
    OBVIOUS
  <1>3. L \in Nat /\ Upto(L, L) /\ DOMAIN found = 1 .. L /\ \A i \in 1 .. L : found[i] \in Found
    BY <1>1 DEF Upto
  <1>4. \A i \in 1 .. L : (IF IsTest(found, i) THEN <<found[i]>> ELSE <<>>) \in Seq(Found)
    BY <1>3
  <1>5. Pieces(h, L, Found)
    BY <1>1, <1>2, <1>3, <1>4 DEF Pieces, TestPieces
  <1>6. W!TestsOf(found) = W!FlattenSeq(h)
    BY <1>1, <1>2, <1>3 DEF W!TestsOf, TestPieces, IsTest
  <1>7. W!FlattenSeq(h) = Flat(h, L)
    BY <1>5, FlatWhole
  <1>8. Flat(h, L) \in Seq(Found)
    BY <1>3, <1>5, FlatType
  <1> QED BY <1>1, <1>2, <1>5, <1>6, <1>7, <1>8

LEMMA TestsBegin ==
  ASSUME NEW s, s \in Seq(Found), NEW t, t \in Seq(Found), Begins(s, t)
  PROVE  Begins(W!TestsOf(s), W!TestsOf(t))
  <1>1. PICK m \in Nat : m = Len(s)
    OBVIOUS
  <1>2. PICK n \in Nat : n = Len(t)
    OBVIOUS
  <1>3. m <= n /\ \A i \in 1 .. m : s[i] = t[i]
    BY <1>1, <1>2 DEF Begins
  <1>4. PICK g, h : g = TestPieces(s) /\ h = TestPieces(t)
    OBVIOUS
  <1>5. /\ Pieces(h, n, Found) /\ W!TestsOf(s) = Flat(g, m) /\ W!TestsOf(t) = Flat(h, n)
    BY <1>1, <1>2, <1>4, TestsAre
  <1>6. \A i \in 1 .. m : g[i] = h[i]
    <2> TAKE i \in 1 .. m
    <2>1. i \in 1 .. n /\ s[i] = t[i] /\ \A j \in 1 .. i - 1 : s[j] = t[j]
      BY <1>3
    <2>2. IsTest(s, i) <=> IsTest(t, i)
      BY <2>1 DEF IsTest
    <2> QED BY <1>1, <1>2, <1>4, <2>1, <2>2 DEF TestPieces
  <1>7. Flat(g, m) = Flat(h, m)
    BY <1>6, FlatSame
  <1>8. m \in 0 .. n /\ n \in m .. n
    BY <1>3
  <1>9. Begins(Flat(h, m), Flat(h, n))
    BY <1>5, <1>8, FlatBegins
  <1> QED BY <1>5, <1>7, <1>9

-----------------------------------------------------------------------------
(* A page cut out of the beginning of an answer.                             *)
LEMMA PartIs ==
  ASSUME NEW T, NEW all, all \in Seq(T), NEW s, s \in Seq(T), Begins(s, all),
         NEW o, Upon(o, all), NEW l, l \in Nat
  PROVE  LET cut == W!Take(W!Skip(s, o), l)
         IN  /\ cut \in Seq(T)
             /\ Len(s) > o + l =>
                    /\ W!Take(all, o) \o cut = W!Take(all, o + l)
                    /\ Upon(o + l, all) /\ Len(cut) = l
             /\ s = all /\ Len(s) <= o + l =>
                    W!Take(all, o) \o cut = all /\ o + Len(cut) = Len(all)
  <1>0. o \in Nat /\ o <= Len(all) /\ Len(s) \in Nat /\ Len(all) \in Nat /\ Len(s) <= Len(all)
    BY DEF Upon, Begins
  <1>1. PICK u : u = W!Skip(s, o)
    OBVIOUS
  <1>2. /\ u \in Seq(T) /\ Len(u) = IF o < Len(s) THEN Len(s) - o ELSE 0
        /\ \A i \in 1 .. Len(u) : u[i] = s[o + i]
    BY <1>0, <1>1, SkipIs
  <1>3. PICK p : p = W!Take(u, l)
    OBVIOUS
  <1>4. /\ p \in Seq(T) /\ Len(p) = IF l < Len(u) THEN l ELSE Len(u)
        /\ \A i \in 1 .. Len(p) : p[i] = u[i]
    BY <1>2, <1>3, TakeIs
  <1>5. PICK v : v = W!Skip(all, o)
    OBVIOUS
  <1>6. /\ v \in Seq(T) /\ Len(v) = IF o < Len(all) THEN Len(all) - o ELSE 0
        /\ \A i \in 1 .. Len(v) : v[i] = all[o + i]
    BY <1>0, <1>5, SkipIs
  <1>7. PICK r : r = W!Take(v, l)
    OBVIOUS
  <1>8. /\ r \in Seq(T) /\ Len(r) = IF l < Len(v) THEN l ELSE Len(v)
        /\ \A i \in 1 .. Len(r) : r[i] = v[i]
    BY <1>6, <1>7, TakeIs
  <1>9. PICK k : k = o + Len(r)
    OBVIOUS
  <1>10. Upon(k, all) /\ W!Take(all, o) \o r = W!Take(all, k) /\ (Len(r) < l => k = Len(all))
    <2>1. LET links == W!Take(W!Skip(all, o), l)
          IN  /\ Upon(o + Len(links), all) /\ Len(links) <= l
              /\ W!Take(all, o) \o links = W!Take(all, o + Len(links))
              /\ Len(links) < l => o + Len(links) = Len(all)
      BY ONLY all \in Seq(T), Upon(o, all), l \in Nat, TakeMore
    <2> QED BY <1>5, <1>7, <1>9, <2>1
  <1>11. CASE Len(s) > o + l
    <2>1. Len(p) = l /\ Len(r) = l
      BY <1>0, <1>2, <1>4, <1>6, <1>8, <1>11
    <2>2. ASSUME NEW i \in 1 .. l PROVE p[i] = r[i]
      <3>1. i \in 1 .. Len(u) /\ i \in 1 .. Len(v) /\ o + i \in 1 .. Len(s)
        BY <1>0, <1>2, <1>6, <1>11
      <3>2. p[i] = s[o + i] /\ r[i] = all[o + i]
        BY <1>2, <1>4, <1>6, <1>8, <2>1, <3>1
      <3> QED BY <3>1, <3>2 DEF Begins
    <2>3. p = r
      BY <1>4, <1>8, <2>1, <2>2
    <2>4. k = o + l
      BY <1>9, <2>1
    <2>5. Upon(o + l, all) /\ W!Take(all, o) \o p = W!Take(all, o + l)
      BY <1>10, <2>3, <2>4
    <2>6. W!Take(W!Skip(s, o), l) = p
      BY <1>1, <1>3
    <2>7. ~(Len(s) <= o + l)
      BY <1>0, <1>11
    <2> QED BY ONLY <1>4, <1>11, <2>1, <2>5, <2>6, <2>7
  <1>12. CASE ~(Len(s) > o + l)
    <2> SUFFICES ASSUME s = all PROVE W!Take(all, o) \o p = all /\ o + Len(p) = Len(all)
      BY <1>0, <1>1, <1>3, <1>4, <1>12
    <2>1. p = r
      BY <1>1, <1>3, <1>5, <1>7
    <2>2. k = Len(all)
      BY <1>0, <1>6, <1>8, <1>9, <1>12
    <2>3. k \in Nat /\ Len(all) <= k
      BY <1>0, <2>2
    <2>4. W!Take(all, k) = all
      BY <2>3, TakeAll
    <2> QED BY <1>9, <1>10, <2>1, <2>2, <2>4
  <1> QED BY <1>11, <1>12
-----------------------------------------------------------------------------
(* Where a bounded walk stands in the unbounded one: in hop 1, a hop n whose  *)
(* row k was visited last, or between two hops with j symbols asked.          *)
HopAt(rs, q, c, n, hs, qu, vs, fr) ==
    /\ n = 1 /\ hs = <<>> /\ fr = <<>> /\ vs = W!StartOf(q)
    /\ Upon(c, W!ByName(rs, q))
    /\ qu = W!Reaching(W!Take(W!ByName(rs, q), c), q.direction, W!StartOf(q))

VisitAt(rs, q, b, n, k, hs, qu, vs, fr) ==
    LET all  == W!Levels(rs, q)[n].rows
        seen == W!Levels(rs, q)[n - 1].seen
    IN  /\ hs \in Seq(Found) /\ qu \in Seq(Link)
        /\ Upto(k, Len(all))
        /\ Len(hs) = Len(Walked(rs, q, n - 1)) + k /\ Begins(hs, Walked(rs, q, n))
        /\ k + Len(qu) <= Len(all)
        /\ k + Len(qu) = Len(all) \/ Len(hs) + Len(qu) >= b
        /\ \A i \in 1 .. Len(qu) : qu[i] = all[k + i]
        /\ vs = seen \cup W!LedTo(q, all, k)
        /\ fr = Flat(NewPieces(q, all, seen), k)

FetchAt(rs, q, b, n, j, hs, qu, vs, fr) ==
    LET nodes == W!Levels(rs, q)[n - 1].nodes
    IN  /\ n # 1 /\ hs = Walked(rs, q, n - 1) /\ vs = W!Levels(rs, q)[n - 1].seen
        /\ fr \in Seq(Symbols) /\ fr # <<>> /\ Upto(j, Len(nodes)) /\ j + Len(fr) = Len(nodes)
        /\ \A i \in 1 .. Len(fr) : fr[i] = nodes[j + i]
        /\ qu = Flat(FetchPieces(rs, q, nodes), j) /\ Len(hs) + Len(qu) < b

LEMMA LevelFacts ==
  ASSUME NEW rs, NEW q, Walk(rs, q), NEW n, NEW m, Place(n, m, W!Hops(q))
  PROVE  LET here   == W!Levels(rs, q)[n]
             before == W!Levels(rs, q)[m]
         IN  /\ here.rows \in Seq(Link) /\ before.seen \subseteq Symbols
             /\ before.nodes \in Seq(Symbols)
             /\ here.nodes = W!NewNodes(q, here.rows, before.seen)
             /\ here.seen = before.seen \cup W!LedTo(q, here.rows, Len(here.rows))
             /\ here.rows = IF n = 1 THEN W!Direct(rs, q) ELSE W!Fetched(rs, q, before.nodes)
             /\ Walked(rs, q, m) \in Seq(Found) /\ Walked(rs, q, n) \in Seq(Found)
             /\ Walked(rs, q, n) = Walked(rs, q, m) \o W!Numbered(here.rows, n)
  <1>1. PICK L : L = W!Hops(q)
    OBVIOUS
  <1>2. PICK levels : levels = W!Levels(rs, q)
    OBVIOUS
  <1>3. /\ L \in Nat
        /\ \A i \in 1 .. L : levels[i] = LevelAfter(rs, q, i, levels[i - 1])
        /\ \A i \in 0 .. L : levels[i] \in Level
    BY <1>1, <1>2, LevelsAre
  <1>4. /\ \A i \in 0 .. L : Walked(rs, q, i) \in Seq(Found)
        /\ \A i \in 1 .. L : Walked(rs, q, i) = Walked(rs, q, i - 1)
             \o W!Numbered(levels[i].rows, i)
    BY <1>1, <1>2, WalkedIs
  <1>5. n \in 1 .. L /\ n \in 0 .. L /\ m \in 0 .. L /\ m = n - 1
    BY <1>1, <1>3 DEF Place
  <1>6. levels[n] = LevelAfter(rs, q, n, levels[m]) /\ levels[n] \in Level /\ levels[m] \in Level
    BY <1>3, <1>5
  <1>7. /\ levels[n].rows \in Seq(Link) /\ levels[m].seen \subseteq Symbols
        /\ levels[m].nodes \in Seq(Symbols)
    BY <1>6 DEF Level
  <1>8. levels[n].rows = RowsAfter(rs, q, n, levels[m])
    BY <1>6 DEF LevelAfter
  <1>9. /\ levels[n].nodes = W!NewNodes(q, levels[n].rows, levels[m].seen)
        /\ levels[n].seen = levels[m].seen \cup W!LedTo(q, levels[n].rows, Len(levels[n].rows))
    <2>1. PICK a : a = levels[n].rows
      OBVIOUS
    <2>2. levels[n] = [rows |-> a, nodes |-> W!NewNodes(q, a, levels[m].seen),
                       seen |-> levels[m].seen \cup W!LedTo(q, a, Len(a))]
      BY <1>6, <1>8, <2>1 DEF LevelAfter
    <2> QED BY <2>1, <2>2
  <1>10. Walked(rs, q, n) = Walked(rs, q, m) \o W!Numbered(levels[n].rows, n)
    BY <1>4, <1>5
  <1>11. Walked(rs, q, m) \in Seq(Found) /\ Walked(rs, q, n) \in Seq(Found)
    BY <1>4, <1>5
  <1> QED BY <1>2, <1>7, <1>8, <1>9, <1>10, <1>11 DEF RowsAfter

(* A hop that begins: its first rows in the queue, all of them or enough.    *)
LEMMA VisitBegins ==
  ASSUME NEW rs, NEW q, Walk(rs, q), NEW n, NEW m, Place(n, m, W!Hops(q)),
         NEW b, b \in Nat, NEW qu, qu \in Seq(Link), Begins(qu, W!Levels(rs, q)[n].rows),
         \/ qu = W!Levels(rs, q)[n].rows
         \/ Len(Walked(rs, q, m)) + Len(qu) >= b
  PROVE  VisitAt(rs, q, b, n, 0, Walked(rs, q, m), qu, W!Levels(rs, q)[m].seen, <<>>)
  <1>1. PICK all : all = W!Levels(rs, q)[n].rows
    OBVIOUS
  <1>2. PICK seen : seen = W!Levels(rs, q)[m].seen
    OBVIOUS
  <1>3. PICK w, v : w = Walked(rs, q, m) /\ v = Walked(rs, q, n)
    OBVIOUS
  <1>4. all \in Seq(Link) /\ w \in Seq(Found) /\ v = w \o W!Numbered(all, n) /\ n \in Nat
        /\ m = n - 1
    <2>1. n \in Nat /\ m = n - 1
      BY DEF Place
    <2>2. /\ W!Levels(rs, q)[n].rows \in Seq(Link) /\ Walked(rs, q, m) \in Seq(Found)
          /\ Walked(rs, q, n) = Walked(rs, q, m) \o W!Numbered(W!Levels(rs, q)[n].rows, n)
      BY ONLY Walk(rs, q), Place(n, m, W!Hops(q)), LevelFacts
    <2> QED BY <1>1, <1>3, <2>1, <2>2
  <1>5. Begins(w, v)
    <2>1. W!Numbered(all, n) \in Seq(Found)
      BY <1>4, NumberedIs
    <2> QED BY <1>4, <2>1, BeginsConcat
  <1>6. Len(qu) <= Len(all) /\ \A i \in 1 .. Len(qu) : qu[i] = all[0 + i]
    BY <1>1 DEF Begins
  <1>7. Upto(0, Len(all)) /\ Len(w) = Len(w) + 0 /\ 0 + Len(qu) = Len(qu) /\ Len(all) \in Nat
    BY <1>4 DEF Upto
  <1>8. Flat(NewPieces(q, all, seen), 0) = <<>> /\ W!LedTo(q, all, 0) = {}
    BY FlatEmpty DEF W!LedTo
  <1>9. 0 + Len(qu) = Len(all) \/ Len(w) + Len(qu) >= b
    BY <1>1, <1>3, <1>7
  <1> HIDE DEF Found, Link
  <1> QED BY <1>1, <1>2, <1>3, <1>4, <1>5, <1>6, <1>7, <1>8, <1>9 DEF VisitAt

(* A row visited.                                                            *)
LEMMA VisitOne ==
  ASSUME NEW rs, NEW q, Walk(rs, q), NEW n, NEW m, Place(n, m, W!Hops(q)), NEW b, b \in Nat,
         NEW k, NEW hs, NEW qu, NEW vs, NEW fr, VisitAt(rs, q, b, n, k, hs, qu, vs, fr),
         qu # <<>>, NEW new, new = W!NextNode(q.direction, Head(qu)) \ vs
  PROVE  VisitAt(rs, q, b, n, k + 1, Append(hs, [row |-> Head(qu), depth |-> n]), Tail(qu),
                 vs \cup new, fr \o W!SetToSeq(new))
  <1>1. PICK all : all = W!Levels(rs, q)[n].rows
    OBVIOUS
  <1>2. PICK seen : seen = W!Levels(rs, q)[m].seen
    OBVIOUS
  <1>3. PICK w, v : w = Walked(rs, q, m) /\ v = Walked(rs, q, n)
    OBVIOUS
  <1>4. all \in Seq(Link) /\ w \in Seq(Found) /\ v \in Seq(Found) /\ v = w \o W!Numbered(all, n)
    <2>1. /\ W!Levels(rs, q)[n].rows \in Seq(Link) /\ Walked(rs, q, m) \in Seq(Found)
          /\ Walked(rs, q, n) \in Seq(Found)
          /\ Walked(rs, q, n) = Walked(rs, q, m) \o W!Numbered(W!Levels(rs, q)[n].rows, n)
      BY ONLY Walk(rs, q), Place(n, m, W!Hops(q)), LevelFacts
    <2> QED BY <1>1, <1>3, <2>1
  <1>5. n \in Nat /\ m = n - 1
    BY DEF Place
  <1>6. /\ hs \in Seq(Found) /\ qu \in Seq(Link) /\ Upto(k, Len(all))
        /\ Len(hs) = Len(w) + k /\ Begins(hs, v) /\ k + Len(qu) <= Len(all)
        /\ k + Len(qu) = Len(all) \/ Len(hs) + Len(qu) >= b
        /\ \A i \in 1 .. Len(qu) : qu[i] = all[k + i]
        /\ vs = seen \cup W!LedTo(q, all, k)
        /\ fr = Flat(NewPieces(q, all, seen), k)
    BY <1>1, <1>2, <1>3, <1>5 DEF VisitAt
  <1>7. PICK r : r = Head(qu)
    OBVIOUS
  <1>8. PICK rest : rest = Tail(qu)
    OBVIOUS
  <1>9. /\ Len(qu) \in Nat /\ 1 <= Len(qu) /\ r = qu[1]
        /\ rest \in Seq(Link) /\ Len(rest) = Len(qu) - 1
        /\ \A i \in 1 .. Len(rest) : rest[i] = qu[i + 1]
    BY <1>6, <1>7, <1>8, HeadTailProperties
  <1>10. PICK p : p = k + 1
    OBVIOUS
  <1>11. k \in Nat /\ p \in Nat /\ p <= Len(all) /\ Len(all) \in Nat /\ Place(p, k, Len(all))
        /\ Upto(p, Len(all))
    BY <1>4, <1>6, <1>9, <1>10 DEF Upto, Place
  <1>12. r = all[p] /\ r \in Link
    BY <1>4, <1>6, <1>9, <1>10, <1>11
  <1>13. PICK x : x = [row |-> r, depth |-> n]
    OBVIOUS
  <1>14. x \in Found
    BY <1>5, <1>12, <1>13 DEF Found
  <1>15. PICK t : t = Append(hs, x)
    OBVIOUS
  <1>16. /\ t \in Seq(Found) /\ Len(t) = Len(hs) + 1 /\ t[Len(hs) + 1] = x
         /\ \A i \in 1 .. Len(hs) : t[i] = hs[i]
    BY <1>6, <1>14, <1>15, AppendProperties
  <1>17. Begins(t, v)
    <2>1. PICK u : u = W!Numbered(all, n)
      OBVIOUS
    <2>2. u \in Seq(Found) /\ Len(u) = Len(all) /\ u[p] = x
      <3>1. /\ u \in Seq(Found) /\ Len(u) = Len(all)
            /\ \A i \in 1 .. Len(all) : u[i] = [row |-> all[i], depth |-> n]
        BY <1>4, <1>5, <2>1, NumberedIs
      <3> QED BY <1>10, <1>11, <1>12, <1>13, <3>1
    <2>3. /\ Len(v) = Len(w) + Len(u)
          /\ \A i \in 1 .. Len(w) + Len(u) : v[i] = IF i <= Len(w) THEN w[i] ELSE u[i - Len(w)]
      <3>1. w \in Seq(Found) /\ u \in Seq(Found) /\ v = w \o u
        BY <1>4, <2>1, <2>2
      <3> QED BY ONLY <3>1, ConcatProperties
    <2>4. PICK e : e = Len(hs) + 1
      OBVIOUS
    <2>5. e \in 1 .. Len(w) + Len(u) /\ ~(e <= Len(w)) /\ e - Len(w) = p /\ e \in Nat
      <3>1. Len(w) \in Nat /\ Len(hs) = Len(w) + k
        BY <1>4, <1>6
      <3> QED BY <1>10, <1>11, <2>2, <2>4, <3>1
    <2>6. v[e] = t[e]
      BY <1>16, <2>2, <2>3, <2>4, <2>5
    <2>7. \A i \in 1 .. Len(hs) : t[i] = v[i]
      BY <1>6, <1>16 DEF Begins
    <2>8. \A i \in 1 .. Len(t) : t[i] = v[i]
      <3> TAKE i \in 1 .. Len(t)
      <3>1. Len(hs) \in Nat
        BY <1>6
      <3>2. i \in 1 .. Len(hs) \/ i = e
        BY <1>16, <2>4, <3>1
      <3> QED BY <2>6, <2>7, <3>2
    <2>9. Len(t) <= Len(v)
      BY <1>16, <2>3, <2>4, <2>5
    <2> QED BY <2>8, <2>9 DEF Begins
  <1>18. \A i \in 1 .. Len(rest) : rest[i] = all[p + i]
    <2> TAKE i \in 1 .. Len(rest)
    <2>1. PICK j : j = i + 1 /\ j \in 1 .. Len(qu) /\ k + j = p + i
      <3>1. i \in Nat /\ i + 1 \in 1 .. Len(qu) /\ k + (i + 1) = p + i
        BY <1>9, <1>10, <1>11
      <3> QED BY <3>1
    <2>2. rest[i] = qu[j] /\ qu[j] = all[k + j]
      BY <1>6, <1>9, <2>1
    <2> QED BY <2>1, <2>2
  <1>19. vs \cup new = seen \cup W!LedTo(q, all, p)
    <2>2. W!LedTo(q, all, p) = W!LedTo(q, all, k) \cup W!NextNode(q.direction, all[p])
      <3>1. \A i : i \in 1 .. p <=> i \in 1 .. k \/ i = p
        BY <1>10, <1>11
      <3> QED BY <3>1 DEF W!LedTo
    <2> QED BY <1>6, <1>7, <1>12, <2>2
  <1>20. fr \o W!SetToSeq(new) = Flat(NewPieces(q, all, seen), p)
    <2>1. PICK h : h = NewPieces(q, all, seen)
      OBVIOUS
    <2>2. Pieces(h, Len(all), Symbols)
      BY <1>4, <2>1, NewNodesIs
    <2>3. Place(p, k, Len(all))
      BY <1>11
    <2>4. Flat(h, p) = Flat(h, k) \o h[p]
      BY ONLY <2>2, <2>3, FlatStep
    <2>5. h[p] = W!SetToSeq(W!NextNode(q.direction, all[p]) \ (seen \cup W!LedTo(q, all, k)))
      <3>1. all \in Seq(Link)
        BY <1>4
      <3>2. NewPieces(q, all, seen)[p] = W!SetToSeq(
                W!NextNode(q.direction, all[p]) \ (seen \cup W!LedTo(q, all, k)))
        <4>1. p \in 1 .. Len(all) /\ p - 1 = k
          BY <1>10, <1>11
        <4> QED BY <4>1 DEF NewPieces
      <3> QED BY <2>1, <3>2
    <2> QED BY <1>6, <1>7, <1>12, <2>1, <2>4, <2>5
  <1>21. /\ Len(t) = Len(w) + p /\ p + Len(rest) <= Len(all)
         /\ p + Len(rest) = Len(all) \/ Len(t) + Len(rest) >= b
    <2>1. Len(w) \in Nat /\ Len(hs) \in Nat
      BY <1>4, <1>6
    <2>2. Len(t) = Len(w) + p
      BY <1>6, <1>10, <1>11, <1>16, <2>1
    <2>3. p + Len(rest) = k + Len(qu) /\ Len(t) + Len(rest) = Len(hs) + Len(qu)
      BY <1>9, <1>10, <1>11, <1>16, <2>1
    <2> QED BY <1>6, <2>2, <2>3
  <1>22. VisitAt(rs, q, b, n, p, t, rest, vs \cup new, fr \o W!SetToSeq(new))
    <2>1. W!Levels(rs, q)[n - 1].seen = seen /\ Walked(rs, q, n - 1) = w
      BY <1>2, <1>3, <1>5
    <2> QED BY <1>1, <1>3, <1>9, <1>11, <1>16, <1>17, <1>18, <1>19, <1>20, <1>21, <2>1
       DEF VisitAt
  <1> QED BY <1>7, <1>8, <1>10, <1>13, <1>15, <1>22

LEMMA AllWalked ==
  ASSUME NEW rs, NEW q, Walk(rs, q), NEW n, NEW m, Place(n, m, W!Hops(q))
  PROVE  /\ Begins(Walked(rs, q, n), W!FullWalk(rs, q))
         /\ W!FullWalk(rs, q) \in Seq(Found)
  <1>1. PICK L : L = W!Hops(q) /\ L \in Nat
    BY LevelsAre
  <1>2. Upto(n, L) /\ Upto(L, L) /\ n <= L
    BY <1>1 DEF Place, Upto
  <1>3. Begins(Walked(rs, q, n), Walked(rs, q, L))
    BY <1>1, <1>2, WalkedBegins
  <1> QED BY <1>1, <1>2, <1>3, WalkedIs DEF Upto

(* A hop whose rows are all visited.                                         *)
LEMMA VisitEnds ==
  ASSUME NEW rs, NEW q, Walk(rs, q), NEW n, NEW m, Place(n, m, W!Hops(q)), NEW b, b \in Nat,
         NEW k, NEW hs, NEW vs, NEW fr, VisitAt(rs, q, b, n, k, hs, <<>>, vs, fr), Len(hs) < b
  PROVE  /\ hs = Walked(rs, q, n) /\ vs = W!Levels(rs, q)[n].seen
         /\ fr = W!Levels(rs, q)[n].nodes
  <1>1. PICK all : all = W!Levels(rs, q)[n].rows
    OBVIOUS
  <1>2. PICK seen : seen = W!Levels(rs, q)[m].seen
    OBVIOUS
  <1>3. PICK w, v : w = Walked(rs, q, m) /\ v = Walked(rs, q, n)
    OBVIOUS
  <1>4. /\ all \in Seq(Link) /\ w \in Seq(Found) /\ v \in Seq(Found)
        /\ v = w \o W!Numbered(all, n)
        /\ W!Levels(rs, q)[n].nodes = W!NewNodes(q, all, seen)
        /\ W!Levels(rs, q)[n].seen = seen \cup W!LedTo(q, all, Len(all))
    <2>1. LET here   == W!Levels(rs, q)[n]
              before == W!Levels(rs, q)[m]
         IN  /\ here.rows \in Seq(Link)
             /\ here.nodes = W!NewNodes(q, here.rows, before.seen)
             /\ here.seen = before.seen \cup W!LedTo(q, here.rows, Len(here.rows))
             /\ Walked(rs, q, m) \in Seq(Found) /\ Walked(rs, q, n) \in Seq(Found)
             /\ Walked(rs, q, n) = Walked(rs, q, m) \o W!Numbered(here.rows, n)
      BY ONLY Walk(rs, q), Place(n, m, W!Hops(q)), LevelFacts
    <2> QED BY <1>1, <1>2, <1>3, <2>1
  <1>5. n \in Nat /\ m = n - 1
    BY DEF Place
  <1>6. /\ hs \in Seq(Found) /\ Upto(k, Len(all))
        /\ Len(hs) = Len(w) + k /\ Begins(hs, v)
        /\ k + Len(<<>>) = Len(all) \/ Len(hs) + Len(<<>>) >= b
        /\ vs = seen \cup W!LedTo(q, all, k)
        /\ fr = Flat(NewPieces(q, all, seen), k)
    BY <1>1, <1>2, <1>3, <1>5 DEF VisitAt
  <1>7. k = Len(all)
    <2>1. Len(hs) \in Nat /\ k \in Nat /\ Len(<<>>) = 0
      BY <1>4, <1>6 DEF Upto
    <2> QED BY <1>6, <2>1
  <1>8. fr = W!NewNodes(q, all, seen)
    <2>1. W!NewNodes(q, all, seen) = Flat(NewPieces(q, all, seen), Len(all))
      BY <1>4, NewNodesIs
    <2> QED BY <1>6, <1>7, <2>1
  <1>9. hs = v
    <2>1. PICK u : u = W!Numbered(all, n)
      OBVIOUS
    <2>2. u \in Seq(Found) /\ Len(u) = Len(all)
      BY <1>4, <1>5, <2>1, NumberedIs
    <2>3. Len(v) = Len(w) + Len(u)
      <3>1. w \in Seq(Found) /\ u \in Seq(Found) /\ v = w \o u
        BY <1>4, <2>1, <2>2
      <3> QED BY ONLY <3>1, ConcatProperties
    <2>4. Len(hs) = Len(v)
      BY <1>6, <1>7, <2>2, <2>3
    <2> QED BY <1>4, <1>6, <2>4, BeginsWhole
  <1> QED BY <1>3, <1>4, <1>6, <1>7, <1>8, <1>9

LEMMA VisitBeginning ==
  ASSUME NEW rs, NEW q, Walk(rs, q), NEW n, NEW m, Place(n, m, W!Hops(q)), NEW b,
         NEW k, NEW hs, NEW qu, NEW vs, NEW fr, VisitAt(rs, q, b, n, k, hs, qu, vs, fr)
  PROVE  Begins(hs, W!FullWalk(rs, q))
  <1>1. Begins(Walked(rs, q, n), W!FullWalk(rs, q)) /\ W!FullWalk(rs, q) \in Seq(Found)
    BY AllWalked
  <1>2. hs \in Seq(Found) /\ Begins(hs, Walked(rs, q, n))
    BY DEF VisitAt
  <1>3. Walked(rs, q, n) \in Seq(Found)
    BY LevelFacts
  <1> QED BY <1>1, <1>2, <1>3, BeginsTrans

(* The next hop, asked for symbol by symbol.                                 *)
LEMMA FetchBegins ==
  ASSUME NEW rs, NEW q, Walk(rs, q), NEW n, NEW m, Place(n, m, W!Hops(q)), n # 1,
         NEW b, b \in Nat, Len(Walked(rs, q, m)) < b, W!Levels(rs, q)[m].nodes # <<>>
  PROVE  FetchAt(rs, q, b, n, 0, Walked(rs, q, m), <<>>, W!Levels(rs, q)[m].seen,
                 W!Levels(rs, q)[m].nodes)
  <1>1. PICK nodes : nodes = W!Levels(rs, q)[m].nodes
    OBVIOUS
  <1>2. PICK w : w = Walked(rs, q, m)
    OBVIOUS
  <1>3. nodes \in Seq(Symbols) /\ w \in Seq(Found)
    <2>1. W!Levels(rs, q)[m].nodes \in Seq(Symbols) /\ Walked(rs, q, m) \in Seq(Found)
      BY ONLY Walk(rs, q), Place(n, m, W!Hops(q)), LevelFacts
    <2> QED BY <1>1, <1>2, <2>1
  <1>4. Upto(0, Len(nodes)) /\ 0 + Len(nodes) = Len(nodes)
        /\ \A i \in 1 .. Len(nodes) : nodes[i] = nodes[0 + i]
    BY <1>3 DEF Upto
  <1>5. Flat(FetchPieces(rs, q, nodes), 0) = <<>>
    BY FlatEmpty
  <1>6. Len(w) + Len(<<>>) < b
    <2>1. Len(w) \in Nat /\ Len(<<>>) = 0
      BY <1>3
    <2> QED BY <1>2, <2>1
  <1>7. m = n - 1
    BY DEF Place
  <1> QED BY <1>1, <1>2, <1>3, <1>4, <1>5, <1>6, <1>7 DEF FetchAt

LEMMA FetchOne ==
  ASSUME NEW rs, NEW q, Walk(rs, q), NEW n, NEW m, Place(n, m, W!Hops(q)), NEW b, b \in Nat,
         NEW j, NEW hs, NEW qu, NEW vs, NEW fr, FetchAt(rs, q, b, n, j, hs, qu, vs, fr),
         NEW more, more = qu \o W!Take(W!FetchOf(rs, q.direction, Head(fr)), b - Len(hs) - Len(qu))
  PROVE  /\ more \in Seq(Link)
         /\ Len(more) >= b - Len(hs) \/ Len(fr) = 1 =>
               VisitAt(rs, q, b, n, 0, hs, more, vs, <<>>)
         /\ ~(Len(more) >= b - Len(hs) \/ Len(fr) = 1) =>
               FetchAt(rs, q, b, n, j + 1, hs, more, vs, Tail(fr))
  <1>1. PICK nodes : nodes = W!Levels(rs, q)[m].nodes
    OBVIOUS
  <1>2. PICK all : all = W!Levels(rs, q)[n].rows
    OBVIOUS
  <1>3. PICK w : w = Walked(rs, q, m)
    OBVIOUS
  <1>4. m = n - 1
    BY DEF Place
  <1>5. /\ n # 1 /\ hs = w /\ vs = W!Levels(rs, q)[m].seen
        /\ fr \in Seq(Symbols) /\ fr # <<>> /\ Upto(j, Len(nodes)) /\ j + Len(fr) = Len(nodes)
        /\ \A i \in 1 .. Len(fr) : fr[i] = nodes[j + i]
        /\ qu = Flat(FetchPieces(rs, q, nodes), j) /\ Len(hs) + Len(qu) < b
    BY <1>1, <1>3, <1>4 DEF FetchAt
  <1>6. nodes \in Seq(Symbols) /\ w \in Seq(Found) /\ all = W!Fetched(rs, q, nodes)
    <2>1. LET here   == W!Levels(rs, q)[n]
              before == W!Levels(rs, q)[m]
         IN  /\ before.nodes \in Seq(Symbols) /\ Walked(rs, q, m) \in Seq(Found)
             /\ here.rows = IF n = 1 THEN W!Direct(rs, q) ELSE W!Fetched(rs, q, before.nodes)
      BY ONLY Walk(rs, q), Place(n, m, W!Hops(q)), LevelFacts
    <2> QED BY <1>1, <1>2, <1>3, <1>5, <2>1
  <1>7. PICK h : h = FetchPieces(rs, q, nodes)
    OBVIOUS
  <1>8. PICK N \in Nat : N = Len(nodes)
    BY <1>6
  <1>9. Pieces(h, N, Link) /\ all = Flat(h, N)
    BY <1>6, <1>7, <1>8, FetchedIs
  <1>10. PICK p : p = j + 1
    OBVIOUS
  <1>11. /\ j \in Nat /\ p \in Nat /\ Place(p, j, N) /\ Upto(j, N) /\ Upto(p, N) /\ Upto(N, N)
         /\ p \in 0 .. N /\ N \in p .. N
    <2>1. Len(fr) \in Nat /\ 1 <= Len(fr)
      BY <1>5
    <2> QED BY <1>5, <1>8, <1>10, <2>1 DEF Place, Upto
  <1>12. PICK f : f = h[p]
    OBVIOUS
  <1>13. Flat(h, p) = qu \o f /\ f \in Seq(Link)
    <2>1. Place(p, j, N)
      BY <1>11
    <2>2. Flat(h, p) = Flat(h, j) \o h[p] /\ h[p] \in Seq(Link)
      BY ONLY <1>9, <2>1, FlatStep
    <2> QED BY <1>5, <1>7, <1>12, <2>2
  <1>14. qu \in Seq(Link)
    <2>1. Flat(h, j) \in Seq(Link)
      BY <1>9, <1>11, FlatType
    <2> QED BY <1>5, <1>7, <2>1
  <1>15. Head(fr) = nodes[p] /\ f = W!FetchOf(rs, q.direction, nodes[p])
    <2>1. 1 \in 1 .. Len(fr) /\ Head(fr) = fr[1]
      BY <1>5
    <2>2. p \in 1 .. N
      BY <1>11 DEF Place
    <2> QED BY <1>5, <1>7, <1>8, <1>10, <1>12, <2>1, <2>2 DEF FetchPieces
  <1>16. PICK room : room = b - Len(hs) - Len(qu) /\ room \in Nat
    <2>1. Len(hs) \in Nat /\ Len(qu) \in Nat
      BY <1>5, <1>6, <1>14
    <2> QED BY <1>5, <2>1
  <1>17. PICK g : g = W!Take(f, room)
    OBVIOUS
  <1>18. /\ g \in Seq(Link) /\ Len(g) = (IF room < Len(f) THEN room ELSE Len(f)) /\ Begins(g, f)
    BY <1>13, <1>16, <1>17, TakeIs
  <1>19. more = qu \o g
    BY <1>15, <1>16, <1>17
  <1>20. PICK t : t = Flat(h, p)
    OBVIOUS
  <1>21. more \in Seq(Link) /\ t \in Seq(Link) /\ Begins(more, t) /\ (Len(g) = Len(f) => more = t)
    <2>1. /\ qu \o g \in Seq(Link) /\ Len(qu \o g) = Len(qu) + Len(g)
          /\ \A i \in 1 .. Len(qu) + Len(g) : (qu \o g)[i] =
               IF i <= Len(qu) THEN qu[i] ELSE g[i - Len(qu)]
      BY ONLY <1>14, <1>18, ConcatProperties
    <2>2. /\ qu \o f \in Seq(Link) /\ Len(qu \o f) = Len(qu) + Len(f)
          /\ \A i \in 1 .. Len(qu) + Len(f) : (qu \o f)[i] =
               IF i <= Len(qu) THEN qu[i] ELSE f[i - Len(qu)]
      BY ONLY <1>13, <1>14, ConcatProperties
    <2>3. Len(qu) \in Nat /\ Len(f) \in Nat /\ Len(g) \in Nat /\ Len(g) <= Len(f)
      BY <1>13, <1>14, <1>18 DEF Begins
    <2>4. t = qu \o f
      BY <1>13, <1>20
    <2>5. \A i \in 1 .. Len(qu) + Len(g) : more[i] = t[i]
      <3> TAKE i \in 1 .. Len(qu) + Len(g)
      <3>1. i \in 1 .. Len(qu) + Len(f)
        BY <2>3
      <3>2. CASE i <= Len(qu)
        BY <1>19, <2>1, <2>2, <2>4, <3>1, <3>2
      <3>3. CASE ~(i <= Len(qu))
        <4>1. PICK e \in 1 .. Len(g) : e = i - Len(qu)
          <5>1. i \in Nat /\ i - Len(qu) \in 1 .. Len(g)
            BY <2>3, <3>3
          <5> QED BY <5>1
        <4>2. g[e] = f[e]
          BY <1>18 DEF Begins
        <4> QED BY <1>19, <2>1, <2>2, <2>4, <3>1, <3>3, <4>1, <4>2
      <3> QED BY <3>2, <3>3
    <2>6. more \in Seq(Link) /\ t \in Seq(Link) /\ Begins(more, t)
      <3>1. Len(more) = Len(qu) + Len(g) /\ Len(t) = Len(qu) + Len(f)
        BY <1>19, <2>1, <2>2, <2>4
      <3>2. Len(more) <= Len(t) /\ \A i \in 1 .. Len(more) : more[i] = t[i]
        BY <2>3, <2>5, <3>1
      <3> QED BY <1>19, <2>1, <2>2, <2>4, <3>2 DEF Begins
    <2>7. ASSUME Len(g) = Len(f) PROVE more = t
      <3>1. Len(more) = Len(t)
        BY <1>19, <2>1, <2>2, <2>4, <2>7
      <3> QED BY <2>6, <3>1, BeginsWhole
    <2> QED BY <2>6, <2>7
  <1>22. /\ Len(more) = Len(qu) + Len(g) /\ Len(qu) \in Nat /\ Len(g) \in Nat /\ Len(hs) \in Nat
         /\ Len(f) \in Nat
    <2>1. Len(qu \o g) = Len(qu) + Len(g)
      BY ONLY <1>14, <1>18, ConcatProperties
    <2> QED BY <1>5, <1>6, <1>13, <1>14, <1>18, <1>19, <2>1
  <1>23. Len(more) >= b - Len(hs) <=> Len(g) >= room
    BY <1>16, <1>22
  <1>24. Begins(more, all)
    <2>1. Begins(t, all)
      BY <1>9, <1>11, <1>20, FlatBegins
    <2>2. all \in Seq(Link)
      BY <1>9, <1>11, FlatType
    <2> QED BY <1>21, <2>1, <2>2, BeginsTrans
  <1>25. ASSUME Len(more) >= b - Len(hs) \/ Len(fr) = 1
         PROVE  VisitAt(rs, q, b, n, 0, hs, more, vs, <<>>)
    <2>1. more = all \/ Len(hs) + Len(more) >= b
      <3>1. CASE Len(more) >= b - Len(hs)
        BY <1>22, <3>1
      <3>2. CASE ~(Len(more) >= b - Len(hs))
        <4>1. Len(fr) = 1
          BY <1>25, <3>2
        <4>2. p = N
          BY <1>5, <1>8, <1>10, <4>1
        <4>3. Len(g) = Len(f)
          BY <1>16, <1>18, <1>22, <1>23, <3>2
        <4> QED BY <1>9, <1>20, <1>21, <4>2, <4>3
      <3> QED BY <3>1, <3>2
    <2>2. /\ more = W!Levels(rs, q)[n].rows \/ Len(Walked(rs, q, m)) + Len(more) >= b
          /\ Begins(more, W!Levels(rs, q)[n].rows)
      BY <1>2, <1>3, <1>5, <1>24, <2>1
    <2>3. VisitAt(rs, q, b, n, 0, Walked(rs, q, m), more, W!Levels(rs, q)[m].seen, <<>>)
      BY ONLY Walk(rs, q), Place(n, m, W!Hops(q)), b \in Nat, <1>21, <2>2, VisitBegins
    <2> QED BY <1>3, <1>5, <2>3
  <1>26. ASSUME ~(Len(more) >= b - Len(hs) \/ Len(fr) = 1)
         PROVE  FetchAt(rs, q, b, n, j + 1, hs, more, vs, Tail(fr))
    <2>1. PICK rest : rest = Tail(fr)
      OBVIOUS
    <2>2. /\ rest \in Seq(Symbols) /\ Len(rest) = Len(fr) - 1 /\ Len(fr) \in Nat /\ 1 <= Len(fr)
          /\ \A i \in 1 .. Len(rest) : rest[i] = fr[i + 1]
      BY <1>5, <2>1, HeadTailProperties
    <2>3. rest # <<>> /\ p + Len(rest) = N
      <3>1. Len(rest) # 0
        BY <1>26, <2>2
      <3>2. rest # <<>>
        BY <2>2, <3>1
      <3>3. p + Len(rest) = N
        <4>1. j + Len(fr) = N
          BY <1>5, <1>8
        <4>2. Len(rest) = Len(fr) - 1 /\ Len(fr) \in Nat
          BY <2>2
        <4>3. j \in Nat
          BY <1>11
        <4> QED BY ONLY <1>10, <4>1, <4>2, <4>3
      <3> QED BY <3>2, <3>3
    <2>4. \A i \in 1 .. Len(rest) : rest[i] = nodes[p + i]
      <3> TAKE i \in 1 .. Len(rest)
      <3>1. PICK e : e = i + 1 /\ e \in 1 .. Len(fr) /\ j + e = p + i
        <4>1. i \in Nat /\ i + 1 \in 1 .. Len(fr) /\ j + (i + 1) = p + i
          BY <1>10, <1>11, <2>2
        <4> QED BY <4>1
      <3>2. rest[i] = fr[e] /\ fr[e] = nodes[j + e]
        BY <1>5, <2>2, <3>1
      <3> QED BY <3>1, <3>2
    <2>5. more = t
      <3>1. Len(g) = Len(f)
        BY <1>16, <1>18, <1>22, <1>23, <1>26
      <3> QED BY <1>21, <3>1
    <2>6. Len(hs) + Len(more) < b
      BY <1>22, <1>26
    <2> QED BY <1>1, <1>3, <1>4, <1>5, <1>7, <1>8, <1>10, <1>11, <1>20, <2>1, <2>2, <2>3, <2>4,
               <2>5, <2>6 DEF FetchAt
  <1> QED BY <1>21, <1>25, <1>26

(* Hop 1, a page by name at a time.                                          *)
LEMMA HopOne ==
  ASSUME NEW rs, NEW q, Walk(rs, q), NEW b, b \in Nat, NEW c, NEW n, NEW hs, NEW qu, NEW vs, NEW fr,
         HopAt(rs, q, c, n, hs, qu, vs, fr), NEW z, z \in Nat,
         NEW links, links = W!Take(W!Skip(W!ByName(rs, q), c), z),
         NEW kept, kept = qu \o W!Reaching(links, q.direction, W!StartOf(q))
  PROVE  /\ kept \in Seq(Link) /\ links \in Seq(Link)
         /\ Len(kept) >= b \/ Len(links) < z =>
               VisitAt(rs, q, b, n, 0, hs, W!Take(kept, b), vs, fr)
         /\ ~(Len(kept) >= b \/ Len(links) < z) =>
               HopAt(rs, q, c + Len(links), n, hs, kept, vs, fr)
  <1>1. PICK all : all = W!ByName(rs, q)
    OBVIOUS
  <1>2. PICK S : S = Leads(q.direction, W!StartOf(q))
    OBVIOUS
  <1>3. PICK e : e = c + Len(links)
    OBVIOUS
  <1>4. all \in Seq(Link)
    BY <1>1, ByNameIs
  <1>5. Upon(c, all) /\ c \in Nat
    BY <1>1 DEF HopAt, Upon
  <1>6. /\ links \in Seq(Link) /\ Upon(e, all) /\ Len(links) <= z
        /\ W!Take(all, c) \o links = W!Take(all, e)
        /\ Len(links) < z => e = Len(all)
    <2>1. LET part == W!Take(W!Skip(all, c), z)
          IN  /\ part \in Seq(Link) /\ Upon(c + Len(part), all) /\ Len(part) <= z
              /\ W!Take(all, c) \o part = W!Take(all, c + Len(part))
              /\ Len(part) < z => c + Len(part) = Len(all)
      BY ONLY <1>4, <1>5, z \in Nat, TakeMore
    <2> QED BY <1>1, <1>3, <2>1
  <1>7. PICK d, g : d = W!Take(all, c) /\ g = W!Take(all, e)
    OBVIOUS
  <1>8. d \in Seq(Link) /\ g \in Seq(Link) /\ g = d \o links
    <2>1. e \in Nat
      BY <1>6 DEF Upon
    <2>2. d \in Seq(Link)
      BY <1>4, <1>5, <1>7, TakeIs
    <2>3. g \in Seq(Link)
      BY <1>4, <1>7, <2>1, TakeIs
    <2> QED BY <1>6, <1>7, <2>2, <2>3
  <1>9. /\ qu = W!Those(d, S) /\ W!Reaching(links, q.direction, W!StartOf(q)) = W!Those(links, S)
        /\ W!Reaching(g, q.direction, W!StartOf(q)) = W!Those(g, S)
        /\ W!Reaching(all, q.direction, W!StartOf(q)) = W!Those(all, S)
    <2>1. qu = W!Reaching(d, q.direction, W!StartOf(q))
      BY <1>1, <1>7 DEF HopAt
    <2> QED BY <1>2, <1>4, <1>6, <1>8, <2>1, ReachingIs
  <1>10. kept = W!Those(g, S)
    <2>1. W!Those(d \o links, S) = W!Those(d, S) \o W!Those(links, S)
      BY ONLY <1>6, <1>8, ThoseConcat
    <2> QED BY <1>8, <1>9, <2>1
  <1>11. kept \in Seq(Link)
    <2>1. g \in Seq(Link)
      BY <1>8
    <2>2. W!Those(g, S) \in Seq(Link)
      BY ONLY <2>1, ThoseIs
    <2> QED BY <1>10, <2>2
  <1>12. PICK direct : direct = W!Direct(rs, q)
    OBVIOUS
  <1>13. direct = W!Those(all, S)
    BY <1>1, <1>9, <1>12, DirectIs
  <1>14. direct \in Seq(Link)
    BY <1>12, DirectType
  <1>15. Begins(kept, direct)
    <2>1. Begins(W!Those(W!Take(all, e), S), W!Those(all, S))
      BY <1>4, <1>6, ThoseBegin
    <2> QED BY <1>7, <1>10, <1>13, <2>1
  <1>16. ASSUME Len(links) < z PROVE kept = direct
    <2>1. e = Len(all) /\ e \in Nat /\ Len(all) <= e
      BY <1>4, <1>6, <1>16
    <2>2. W!Take(all, e) = all
      BY <1>4, <2>1, TakeAll
    <2> QED BY <1>7, <1>10, <1>13, <2>2
  <1>17. ASSUME Len(kept) >= b \/ Len(links) < z
         PROVE  VisitAt(rs, q, b, n, 0, hs, W!Take(kept, b), vs, fr)
    <2>1. PICK t : t = W!Take(kept, b)
      OBVIOUS
    <2>2. /\ t \in Seq(Link) /\ Begins(t, kept)
          /\ Len(t) = IF b < Len(kept) THEN b ELSE Len(kept)
      BY <1>11, <2>1, TakeIs
    <2>3. Begins(t, direct)
      BY <1>11, <1>14, <1>15, <2>2, BeginsTrans
    <2>4. t = direct \/ Len(t) >= b
      <3>1. CASE Len(kept) >= b
        <4>1. Len(kept) \in Nat
          BY <1>11
        <4> QED BY <2>2, <3>1, <4>1
      <3>2. CASE ~(Len(kept) >= b)
        <4>1. Len(kept) <= b /\ kept = direct
          BY <1>11, <1>16, <1>17, <3>2
        <4> QED BY <1>11, <2>1, <4>1, TakeAll
      <3> QED BY <3>1, <3>2
    <2>5. PICK one, zero : one = 1 /\ zero = 0 /\ Place(one, zero, W!Hops(q))
      <3>1. W!Hops(q) \in Nat /\ 1 <= W!Hops(q)
        BY LevelsAre
      <3> QED BY <3>1 DEF Place
    <2>6. /\ W!Levels(rs, q)[one].rows = direct
          /\ W!Levels(rs, q)[zero].seen = W!StartOf(q)
          /\ Walked(rs, q, zero) = <<>>
      <3>1. Place(one, zero, W!Hops(q))
        BY <2>5
      <3>2. LET here   == W!Levels(rs, q)[one]
                before == W!Levels(rs, q)[zero]
            IN  here.rows = IF one = 1 THEN W!Direct(rs, q) ELSE W!Fetched(rs, q, before.nodes)
        BY ONLY Walk(rs, q), <3>1, LevelFacts
      <3>3. W!Levels(rs, q)[zero].seen = W!StartOf(q)
        <4>1. W!Levels(rs, q)[0] = Ground(q)
          BY LevelsAre
        <4> QED BY <2>5, <4>1 DEF Ground
      <3>4. Walked(rs, q, zero) = <<>>
        BY <2>5, FlatEmpty DEF Walked
      <3> QED BY <1>12, <2>5, <3>2, <3>3, <3>4
    <2>7. t = W!Levels(rs, q)[one].rows \/ Len(Walked(rs, q, zero)) + Len(t) >= b
      <3>1. Len(<<>>) = 0 /\ Len(t) \in Nat
        BY <2>2
      <3> QED BY <2>4, <2>6, <3>1
    <2>8. Begins(t, W!Levels(rs, q)[one].rows)
      BY <2>3, <2>6
    <2>9. VisitAt(rs, q, b, one, 0, Walked(rs, q, zero), t, W!Levels(rs, q)[zero].seen, <<>>)
      <3>1. Place(one, zero, W!Hops(q)) /\ t \in Seq(Link)
        BY <2>2, <2>5
      <3> QED BY ONLY Walk(rs, q), b \in Nat, <2>7, <2>8, <3>1, VisitBegins
    <2>10. n = one /\ hs = <<>> /\ fr = <<>> /\ vs = W!StartOf(q)
      BY <2>5 DEF HopAt
    <2> QED BY <2>1, <2>6, <2>9, <2>10
  <1>18. HopAt(rs, q, e, n, hs, kept, vs, fr)
    <2>1. kept = W!Reaching(W!Take(W!ByName(rs, q), e), q.direction, W!StartOf(q))
      BY <1>1, <1>7, <1>9, <1>10
    <2>2. Upon(e, W!ByName(rs, q))
      BY <1>1, <1>6
    <2> QED BY <2>1, <2>2 DEF HopAt
  <1> QED BY <1>3, <1>6, <1>11, <1>17, <1>18
-----------------------------------------------------------------------------
(* The walk in progress, and the pages the client has.                       *)
Walking == {"hop1", "visit", "fetch"}

WalkInv ==
    /\ walkPhase \in Walking =>
          level \in 1 .. W!Hops(query) /\ start = W!StartOf(query) /\ Len(hits) < budget
    /\ walkPhase = "hop1" =>
          HopAt(relations, query, cursor[1], level, hits, queue, visited, walkFrontier)
    /\ walkPhase = "visit" => \E k :
          VisitAt(relations, query, budget, level, k, hits, queue, visited, walkFrontier)
    /\ walkPhase = "fetch" => \E j :
          FetchAt(relations, query, budget, level, j, hits, queue, visited, walkFrontier)
    /\ walkPhase = "cut" =>
          /\ budget # 0
          /\ Begins(hits, W!FullWalk(relations, query))
          /\ Len(hits) >= budget \/ hits = W!FullWalk(relations, query)
    /\ walkPhase \in Walking \cup {"cut"} /\ query.direction # "tests" =>
          budget = offset + query.limit + 1

PagesInv ==
    LET answer == W!FullAnswer(relations, query)
    IN  /\ walkPhase # "complete" => Upon(offset, answer) /\ walkGot = W!Take(answer, offset)
        /\ walkPhase = "complete" => walkGot = answer
        /\ page.total # None => page.total = Len(answer)

WalkIndInv == W!TypeOK /\ WalkInv /\ PagesInv

LEMMA AnswerIs ==
  ASSUME W!TypeOK
  PROVE  /\ Walk(relations, query)
         /\ W!FullWalk(relations, query) \in Seq(Found)
         /\ W!FullAnswer(relations, query) \in Seq(Found)
         /\ query.limit \in Nat \ {0} /\ query.depth \in Nat
         /\ MinFirstHopPage \in Nat \ {0}
  <1>1. relations \in Indexes /\ query \in Asked
    BY DEF W!TypeOK
  <1>2. Walk(relations, query)
    BY <1>1, AllWalks
  <1>3. W!FullWalk(relations, query) \in Seq(Found)
    <2>1. PICK L : L = W!Hops(query) /\ L \in Nat /\ 1 <= L
      BY <1>2, LevelsAre
    <2>2. L \in 0 .. L
      BY <2>1
    <2> QED BY <1>2, <2>1, <2>2, WalkedIs
  <1>4. W!FullAnswer(relations, query) \in Seq(Found)
    BY <1>3, TestsAre DEF W!FullAnswer
  <1>5. query.limit \in Nat \ {0} /\ query.depth \in Nat
    BY <1>2 DEF Walk, W!Query
  <1>6. MinFirstHopPage \in Nat \ {0}
    BY QueriesAssumption DEF W!TraversalInputs
  <1> QED BY <1>2, <1>3, <1>4, <1>5, <1>6

LEMMA WalkInit ==
  ASSUME W!Init
  PROVE  WalkIndInv
  <1>1. W!TypeOK
    <2>1. cursor \in Nat \X (Nat \ {0})
      BY DEF W!Init
    <2>2. page.total \in Nat \cup {None}
      BY DEF W!Init, W!NoPage
    <2> QED BY <2>1, <2>2 DEF W!Init, W!TypeOK
  <1>2. WalkInv
    BY DEF W!Init, WalkInv, Walking
  <1>3. PagesInv
    <2>1. PICK a \in Seq(Found) : a = W!FullAnswer(relations, query)
      BY <1>1, AnswerIs
    <2>2. Upon(0, a)
      BY DEF Upon
    <2>3. W!Take(a, 0) = <<>>
      <3>1. PICK t : t = W!Take(a, 0)
        OBVIOUS
      <3>2. t \in Seq(Found) /\ Len(t) = IF 0 < Len(a) THEN 0 ELSE Len(a)
        BY <3>1, TakeIs
      <3>3. Len(a) \in Nat
        OBVIOUS
      <3>4. Len(t) = 0
        BY <3>2, <3>3
      <3> QED BY <3>1, <3>2, <3>4
    <2> QED BY <2>1, <2>2, <2>3 DEF W!Init, W!NoPage, PagesInv
  <1> QED BY <1>1, <1>2, <1>3 DEF WalkIndInv

(* The walk starts over: with a budget that leaves room for the page.        *)
LEMMA WalkBegins ==
  ASSUME WalkIndInv, NEW n, n \in Nat \ {0}, W!Walk(n),
         UNCHANGED <<relations, query, offset, page, walkGot>>,
         walkPhase # "complete", query.direction # "tests" => n = offset + query.limit + 1
  PROVE  WalkIndInv'
  <1>1. W!TypeOK /\ WalkInv /\ PagesInv
    BY DEF WalkIndInv
  <1>2. /\ budget' = n /\ start' = W!StartOf(query) /\ visited' = W!StartOf(query)
        /\ cursor' = <<0, IF n > MinFirstHopPage THEN n ELSE MinFirstHopPage>>
        /\ level' = 1 /\ queue' = <<>> /\ walkFrontier' = <<>> /\ hits' = <<>>
             /\ walkPhase' = "hop1"
    BY DEF W!Walk
  <1>3. Walk(relations, query) /\ MinFirstHopPage \in Nat \ {0}
    BY <1>1, AnswerIs
  <1>4. W!StartOf(query) \subseteq Symbols
    BY StartIs
  <1>5. W!TypeOK'
    <2>1. cursor' \in Nat \X (Nat \ {0})
      BY <1>2, <1>3
    <2> QED BY <1>1, <1>2, <1>4, <2>1 DEF W!TypeOK
  <1>6. WalkInv'
    <2>1. 1 \in 1 .. W!Hops(query)
      BY <1>3, LevelsAre
    <2>2. HopAt(relations, query, 0, 1, <<>>, <<>>, W!StartOf(query), <<>>)
      <3>1. PICK all : all = W!ByName(relations, query)
        OBVIOUS
      <3>2. all \in Seq(Link)
        BY <1>3, <3>1, ByNameIs
      <3>3. Upon(0, all)
        BY <3>2 DEF Upon
      <3>4. W!Take(all, 0) = <<>>
        <4>1. PICK t : t = W!Take(all, 0)
          OBVIOUS
        <4>2. t \in Seq(Link) /\ Len(t) = IF 0 < Len(all) THEN 0 ELSE Len(all)
          BY <3>2, <4>1, TakeIs
        <4>3. Len(all) \in Nat
          BY <3>2
        <4>4. Len(t) = 0
          BY <4>2, <4>3
        <4> QED BY <4>1, <4>2, <4>4
      <3>5. W!Reaching(<<>>, query.direction, W!StartOf(query)) = <<>>
        <4>1. PICK e \in Seq(Link) : e = <<>>
          <5>1. <<>> \in Seq(Link)
            OBVIOUS
          <5> QED BY <5>1
        <4>2. PICK S : W!Reaching(e, query.direction, W!StartOf(query)) = W!Those(e, S)
          BY DEF W!Reaching
        <4>3. W!Those(e, S) = Flat(Kin(e, S), Len(e))
          BY ThoseFlat
        <4>4. Len(e) = 0
          BY <4>1
        <4>5. Flat(Kin(e, S), 0) = <<>>
          BY FlatEmpty
        <4> QED BY <4>1, <4>2, <4>3, <4>4, <4>5
      <3> QED BY <3>1, <3>3, <3>4, <3>5 DEF HopAt
    <2>3. cursor'[1] = 0
      BY <1>2
    <2>4. Len(<<>>) < n
      <3>1. Len(<<>>) = 0
        OBVIOUS
      <3> QED BY <3>1
    <2> QED BY <1>2, <2>1, <2>2, <2>3, <2>4 DEF WalkInv, Walking
  <1>7. PagesInv'
    BY <1>1, <1>2 DEF PagesInv
  <1> QED BY <1>5, <1>6, <1>7 DEF WalkIndInv

LEMMA AskWalkKeeps ==
  ASSUME WalkIndInv, W!AskWalk
  PROVE  WalkIndInv'
  <1>1. offset \in Nat /\ query.limit \in Nat \ {0} /\ MinFirstHopPage \in Nat \ {0}
    BY AnswerIs DEF WalkIndInv, W!TypeOK
  <1>2. PICK wanted : wanted = offset + query.limit + 1
    OBVIOUS
  <1>3. PICK n : n = IF query.direction = "tests" /\ wanted < MinFirstHopPage
                     THEN MinFirstHopPage ELSE wanted
    OBVIOUS
  <1>4. n \in Nat \ {0} /\ (query.direction # "tests" => n = offset + query.limit + 1)
    BY <1>1, <1>2, <1>3
  <1>5. W!Walk(n) /\ UNCHANGED <<relations, query, offset, page, walkGot>> /\ walkPhase # "complete"
    BY <1>2, <1>3 DEF W!AskWalk
  <1> QED BY <1>4, <1>5, WalkBegins

LEMMA ReadPageKeeps ==
  ASSUME WalkIndInv, W!ReadPage
  PROVE  WalkIndInv'
  <1>1. W!TypeOK /\ WalkInv /\ PagesInv
    BY DEF WalkIndInv
  <1>2. Walk(relations, query)
    BY <1>1, AnswerIs
  <1>3. /\ walkPhase = "hop1"
        /\ HopAt(relations, query, cursor[1], level, hits, queue, visited, walkFrontier)
        /\ level \in 1 .. W!Hops(query) /\ start = W!StartOf(query) /\ Len(hits) < budget
        /\ query.direction # "tests" => budget = offset + query.limit + 1
    BY <1>1 DEF W!ReadPage, WalkInv, Walking
  <1>4. PICK links : links = W!Take(W!Skip(W!ByName(relations, query), cursor[1]), cursor[2])
    OBVIOUS
  <1>5. PICK kept : kept = queue \o W!Reaching(links, query.direction, W!StartOf(query))
    OBVIOUS
  <1>6. /\ IF Len(kept) >= budget \/ Len(links) < cursor[2]
           THEN queue' = W!Take(kept, budget) /\ walkPhase' = "visit" /\ UNCHANGED cursor
           ELSE /\ queue' = kept /\ UNCHANGED walkPhase
                /\ cursor' = <<cursor[1] + Len(links), 2 * cursor[2]>>
        /\ UNCHANGED <<relations, query, offset, budget, start, level, walkFrontier, visited,
                       hits, page, walkGot>>
    BY <1>3, <1>4, <1>5 DEF W!ReadPage
  <1>7. budget \in Nat /\ cursor[1] \in Nat /\ cursor[2] \in Nat \ {0}
        /\ cursor = <<cursor[1], cursor[2]>>
    BY <1>1 DEF W!TypeOK
  <1>8. /\ kept \in Seq(Link) /\ links \in Seq(Link)
        /\ Len(kept) >= budget \/ Len(links) < cursor[2] =>
              VisitAt(relations, query, budget, level, 0, hits, W!Take(kept, budget), visited,
                      walkFrontier)
        /\ ~(Len(kept) >= budget \/ Len(links) < cursor[2]) =>
              HopAt(relations, query, cursor[1] + Len(links), level, hits, kept, visited,
                    walkFrontier)
    <2>1. PICK z : z = cursor[2]
      OBVIOUS
    <2>2. PICK c : c = cursor[1]
      OBVIOUS
    <2>3. /\ HopAt(relations, query, c, level, hits, queue, visited, walkFrontier) /\ z \in Nat
          /\ links = W!Take(W!Skip(W!ByName(relations, query), c), z)
      BY <1>3, <1>4, <1>7, <2>1, <2>2
    <2>4. /\ kept \in Seq(Link) /\ links \in Seq(Link)
          /\ Len(kept) >= budget \/ Len(links) < z =>
                VisitAt(relations, query, budget, level, 0, hits, W!Take(kept, budget), visited,
                        walkFrontier)
          /\ ~(Len(kept) >= budget \/ Len(links) < z) =>
                HopAt(relations, query, c + Len(links), level, hits, kept, visited, walkFrontier)
      <3>1. HopAt(relations, query, c, level, hits, queue, visited, walkFrontier)
        BY <2>3
      <3>2. z \in Nat
        BY <2>3
      <3>3. links = W!Take(W!Skip(W!ByName(relations, query), c), z)
        BY <2>3
      <3>4. budget \in Nat
        BY <1>7
      <3> QED BY ONLY <1>2, <1>5, <3>1, <3>2, <3>3, <3>4, HopOne
    <2> QED BY <2>1, <2>2, <2>4
  <1>9. CASE Len(kept) >= budget \/ Len(links) < cursor[2]
    <2>1. /\ queue' = W!Take(kept, budget) /\ walkPhase' = "visit" /\ UNCHANGED cursor
      BY <1>6, <1>9
    <2>2. queue' \in Seq(Link)
      BY <1>7, <1>8, <2>1, TakeIs
    <2>3. W!TypeOK'
      BY <1>1, <1>6, <2>1, <2>2 DEF W!TypeOK, Link
    <2>4. WalkInv'
      BY <1>3, <1>6, <1>8, <1>9, <2>1 DEF WalkInv, Walking
    <2>5. PagesInv'
      BY <1>1, <1>3, <1>6, <2>1 DEF PagesInv
    <2> QED BY <2>3, <2>4, <2>5 DEF WalkIndInv
  <1>10. CASE ~(Len(kept) >= budget \/ Len(links) < cursor[2])
    <2>1. /\ queue' = kept /\ walkPhase' = "hop1"
          /\ cursor' = <<cursor[1] + Len(links), 2 * cursor[2]>>
      BY <1>3, <1>6, <1>10
    <2>2. cursor' \in Nat \X (Nat \ {0}) /\ cursor'[1] = cursor[1] + Len(links)
      <3>1. Len(links) \in Nat
        BY <1>8
      <3> QED BY <1>7, <2>1, <3>1
    <2>3. W!TypeOK'
      BY <1>1, <1>6, <1>8, <2>1, <2>2 DEF W!TypeOK, Link
    <2>4. WalkInv'
      BY <1>3, <1>6, <1>8, <1>10, <2>1, <2>2 DEF WalkInv, Walking
    <2>5. PagesInv'
      BY <1>1, <1>3, <1>6, <2>1 DEF PagesInv
    <2> QED BY <2>3, <2>4, <2>5 DEF WalkIndInv
  <1> QED BY <1>9, <1>10

LEMMA VisitKeeps ==
  ASSUME WalkIndInv, W!Visit
  PROVE  WalkIndInv'
  <1>1. W!TypeOK /\ WalkInv /\ PagesInv
    BY DEF WalkIndInv
  <1>2. Walk(relations, query) /\ budget \in Nat
    BY <1>1, AnswerIs DEF W!TypeOK
  <1>3. /\ walkPhase = "visit" /\ queue # <<>>
        /\ level \in 1 .. W!Hops(query) /\ start = W!StartOf(query) /\ Len(hits) < budget
        /\ query.direction # "tests" => budget = offset + query.limit + 1
    BY <1>1 DEF W!Visit, WalkInv, Walking
  <1>4. PICK k : VisitAt(relations, query, budget, level, k, hits, queue, visited, walkFrontier)
    BY <1>1, <1>3 DEF WalkInv
  <1>5. PICK new : new = W!NextNode(query.direction, Head(queue)) \ visited
    OBVIOUS
  <1>6. PICK found : found = Append(hits, [row |-> Head(queue), depth |-> level])
    OBVIOUS
  <1>7. /\ hits' = found /\ visited' = visited \cup new
        /\ walkFrontier' = walkFrontier \o W!SetToSeq(new) /\ queue' = Tail(queue)
        /\ walkPhase' = IF Len(hits) + 1 >= budget THEN "cut" ELSE "visit"
        /\ UNCHANGED <<relations, query, offset, budget, start, cursor, level, page, walkGot>>
    BY <1>5, <1>6 DEF W!Visit
  <1>8. PICK m : m = level - 1
    OBVIOUS
  <1>9. Place(level, m, W!Hops(query))
    BY <1>3, <1>8 DEF Place
  <1>10. VisitAt(relations, query, budget, level, k + 1, found, Tail(queue), visited \cup new,
                 walkFrontier \o W!SetToSeq(new))
    <2>1. queue # <<>>
      BY <1>3
    <2>2. VisitAt(relations, query, budget, level, k + 1,
                  Append(hits, [row |-> Head(queue), depth |-> level]), Tail(queue),
                  visited \cup new, walkFrontier \o W!SetToSeq(new))
      BY ONLY <1>2, <1>4, <1>5, <1>9, <2>1, VisitOne
    <2> QED BY <1>6, <2>2
  <1>11. /\ hits \in Seq(Found) /\ queue \in Seq(Link) /\ walkFrontier \in Seq(Symbols)
         /\ visited \subseteq Symbols
    BY <1>1 DEF W!TypeOK, Link, Found
  <1>12. Head(queue) \in Link /\ Tail(queue) \in Seq(Link)
    BY <1>3, <1>11
  <1>13. new \subseteq Symbols /\ \A x, y \in new : x = y
    BY <1>5, <1>12, NextIs
  <1>14. W!SetToSeq(new) \in Seq(Symbols)
    BY <1>13, AsSeq
  <1>15. level \in Nat
    BY <1>1 DEF W!TypeOK
  <1>16. found \in Seq(Found) /\ Len(found) = Len(hits) + 1
    <2>1. [row |-> Head(queue), depth |-> level] \in Found
      BY <1>12, <1>15 DEF Found
    <2> QED BY <1>6, <1>11, <2>1
  <1>17. W!TypeOK'
    <2>1. walkFrontier' \in Seq(Symbols) /\ visited' \subseteq Symbols
      BY <1>7, <1>11, <1>13, <1>14
    <2>2. hits' \in Seq(Found) /\ queue' \in Seq(Link)
      BY <1>7, <1>12, <1>16
    <2> QED BY <1>1, <1>7, <2>1, <2>2 DEF W!TypeOK, Link, Found
  <1>18. PagesInv'
    BY <1>1, <1>3, <1>7 DEF PagesInv
  <1>19. CASE Len(hits) + 1 >= budget
    <2>1. Begins(found, W!FullWalk(relations, query))
      BY ONLY <1>2, <1>9, <1>10, VisitBeginning
    <2>2. walkPhase' = "cut"
      BY <1>7, <1>19
    <2>3. WalkInv'
      BY <1>3, <1>7, <1>16, <1>19, <2>1, <2>2 DEF WalkInv, Walking
    <2> QED BY <1>17, <1>18, <2>3 DEF WalkIndInv
  <1>20. CASE ~(Len(hits) + 1 >= budget)
    <2>1. walkPhase' = "visit" /\ Len(found) < budget
      <3>1. Len(hits) \in Nat
        BY <1>11
      <3> QED BY <1>2, <1>7, <1>16, <1>20, <3>1
    <2>2. VisitAt(relations, query, budget, level, k + 1, hits', queue', visited', walkFrontier')
      BY <1>7, <1>10
    <2>3. WalkInv'
      BY <1>3, <1>7, <2>1, <2>2 DEF WalkInv, Walking
    <2> QED BY <1>17, <1>18, <2>3 DEF WalkIndInv
  <1> QED BY <1>19, <1>20

LEMMA EndLevelKeeps ==
  ASSUME WalkIndInv, W!EndLevel
  PROVE  WalkIndInv'
  <1>1. W!TypeOK /\ WalkInv /\ PagesInv
    BY DEF WalkIndInv
  <1>2. Walk(relations, query) /\ budget \in Nat
    BY <1>1, AnswerIs DEF W!TypeOK
  <1>3. /\ walkPhase = "visit" /\ queue = <<>>
        /\ level \in 1 .. W!Hops(query) /\ start = W!StartOf(query) /\ Len(hits) < budget
        /\ query.direction # "tests" => budget = offset + query.limit + 1
    BY <1>1 DEF W!EndLevel, WalkInv, Walking
  <1>4. PICK k : VisitAt(relations, query, budget, level, k, hits, <<>>, visited, walkFrontier)
    BY <1>1, <1>3 DEF WalkInv
  <1>5. /\ IF level = W!Hops(query) \/ walkFrontier = <<>>
           THEN walkPhase' = "cut" /\ UNCHANGED level
           ELSE walkPhase' = "fetch" /\ level' = level + 1
        /\ UNCHANGED <<relations, query, offset, budget, start, cursor, queue, walkFrontier,
                       visited, hits, page, walkGot>>
    BY DEF W!EndLevel
  <1>6. PICK m : m = level - 1
    OBVIOUS
  <1>7. Place(level, m, W!Hops(query))
    BY <1>3, <1>6 DEF Place
  <1>8. /\ hits = Walked(relations, query, level)
        /\ visited = W!Levels(relations, query)[level].seen
        /\ walkFrontier = W!Levels(relations, query)[level].nodes
    <2>1. Len(hits) < budget
      BY <1>3
    <2> QED BY ONLY <1>2, <1>4, <1>7, <2>1, VisitEnds
  <1>9. PagesInv'
    BY <1>1, <1>3, <1>5 DEF PagesInv
  <1>10. level \in Nat /\ W!Hops(query) \in Nat
    BY <1>1, <1>2, LevelsAre DEF W!TypeOK
  <1>11. CASE level = W!Hops(query) \/ walkFrontier = <<>>
    <2>1. hits = W!FullWalk(relations, query)
      <3>1. CASE level = W!Hops(query)
        BY <1>2, <1>8, <3>1, WalkedIs
      <3>2. CASE walkFrontier = <<>>
        BY <1>2, <1>3, <1>8, <3>2, RunsDry
      <3> QED BY <1>11, <3>1, <3>2
    <2>2. Begins(hits, W!FullWalk(relations, query))
      <3>1. Upto(level, W!Hops(query))
        BY <1>3, <1>10 DEF Upto
      <3>2. Begins(Walked(relations, query, level), Walked(relations, query, level))
        BY <1>2, <1>10, <3>1, WalkedBegins
      <3> QED BY <1>8, <2>1, <3>2
    <2>3. walkPhase' = "cut" /\ UNCHANGED level
      BY <1>5, <1>11
    <2>4. W!TypeOK'
      BY <1>1, <1>5, <2>3 DEF W!TypeOK
    <2>5. WalkInv'
      BY <1>3, <1>5, <2>1, <2>2, <2>3 DEF WalkInv, Walking
    <2> QED BY <1>9, <2>4, <2>5 DEF WalkIndInv
  <1>12. CASE ~(level = W!Hops(query) \/ walkFrontier = <<>>)
    <2>1. PICK n : n = level + 1
      OBVIOUS
    <2>2. Place(n, level, W!Hops(query)) /\ n # 1 /\ n \in 1 .. W!Hops(query)
      BY <1>3, <1>10, <1>12, <2>1 DEF Place
    <2>3. walkPhase' = "fetch" /\ level' = n
      BY <1>5, <1>12, <2>1
    <2>4. FetchAt(relations, query, budget, n, 0, hits, queue, visited, walkFrontier)
      <3>1. PICK l : l = level
        OBVIOUS
      <3>2. Place(n, l, W!Hops(query)) /\ n # 1
        BY <2>2, <3>1
      <3>3. Len(Walked(relations, query, l)) < budget
        BY <1>3, <1>8, <3>1
      <3>4. W!Levels(relations, query)[l].nodes # <<>>
        BY <1>8, <1>12, <3>1
      <3>5. FetchAt(relations, query, budget, n, 0, Walked(relations, query, l), <<>>,
                    W!Levels(relations, query)[l].seen, W!Levels(relations, query)[l].nodes)
        BY ONLY <1>2, <3>2, <3>3, <3>4, FetchBegins
      <3> QED BY <1>3, <1>8, <3>1, <3>5
    <2>5. W!TypeOK'
      <3>1. n \in Nat
        BY <1>10, <2>1
      <3> QED BY <1>1, <1>5, <2>3, <3>1 DEF W!TypeOK
    <2>6. FetchAt(relations, query, budget, level', 0, hits, queue, visited, walkFrontier)
      BY <2>3, <2>4
    <2>7. WalkInv'
      BY <1>3, <1>5, <2>2, <2>3, <2>6 DEF WalkInv, Walking
    <2> QED BY <1>9, <2>5, <2>7 DEF WalkIndInv
  <1> QED BY <1>11, <1>12

LEMMA FetchKeeps ==
  ASSUME WalkIndInv, W!Fetch
  PROVE  WalkIndInv'
  <1>1. W!TypeOK /\ WalkInv /\ PagesInv
    BY DEF WalkIndInv
  <1>2. Walk(relations, query) /\ budget \in Nat
    BY <1>1, AnswerIs DEF W!TypeOK
  <1>3. /\ walkPhase = "fetch"
        /\ level \in 1 .. W!Hops(query) /\ start = W!StartOf(query) /\ Len(hits) < budget
        /\ query.direction # "tests" => budget = offset + query.limit + 1
    BY <1>1 DEF W!Fetch, WalkInv, Walking
  <1>4. PICK j : FetchAt(relations, query, budget, level, j, hits, queue, visited, walkFrontier)
    BY <1>1, <1>3 DEF WalkInv
  <1>5. PICK more : more = queue
        \o W!Take(W!FetchOf(relations, query.direction, Head(walkFrontier)),
                                           budget - Len(hits) - Len(queue))
    OBVIOUS
  <1>6. /\ queue' = more
        /\ IF Len(more) >= budget - Len(hits) \/ Len(walkFrontier) = 1
           THEN walkFrontier' = <<>> /\ walkPhase' = "visit"
           ELSE walkFrontier' = Tail(walkFrontier) /\ UNCHANGED walkPhase
        /\ UNCHANGED <<relations, query, offset, budget, start, cursor, level, visited, hits,
                       page, walkGot>>
    BY <1>5 DEF W!Fetch
  <1>7. PICK m : m = level - 1
    OBVIOUS
  <1>8. Place(level, m, W!Hops(query))
    BY <1>3, <1>7 DEF Place
  <1>9. /\ more \in Seq(Link)
        /\ Len(more) >= budget - Len(hits) \/ Len(walkFrontier) = 1 =>
              VisitAt(relations, query, budget, level, 0, hits, more, visited, <<>>)
        /\ ~(Len(more) >= budget - Len(hits) \/ Len(walkFrontier) = 1) =>
              FetchAt(relations, query, budget, level, j + 1, hits, more, visited,
                      Tail(walkFrontier))
    BY ONLY <1>2, <1>4, <1>5, <1>8, FetchOne
  <1>10. walkFrontier \in Seq(Symbols) /\ walkFrontier # <<>>
    BY <1>4 DEF FetchAt
  <1>11. PagesInv'
    BY <1>1, <1>3, <1>6 DEF PagesInv
  <1>12. W!TypeOK'
    <2>1. walkFrontier' \in Seq(Symbols)
      <3>1. Tail(walkFrontier) \in Seq(Symbols) /\ <<>> \in Seq(Symbols)
        BY <1>10
      <3> QED BY <1>6, <3>1
    <2>2. walkPhase' \in {"visit", "fetch"}
      BY <1>3, <1>6
    <2> QED BY <1>1, <1>6, <1>9, <2>1, <2>2 DEF W!TypeOK, Link
  <1>13. CASE Len(more) >= budget - Len(hits) \/ Len(walkFrontier) = 1
    <2>1. walkFrontier' = <<>> /\ walkPhase' = "visit"
      BY <1>6, <1>13
    <2>2. VisitAt(relations, query, budget, level, 0, hits, queue', visited, walkFrontier')
      BY <1>6, <1>9, <1>13, <2>1
    <2>3. WalkInv'
      BY <1>3, <1>6, <2>1, <2>2 DEF WalkInv, Walking
    <2> QED BY <1>11, <1>12, <2>3 DEF WalkIndInv
  <1>14. CASE ~(Len(more) >= budget - Len(hits) \/ Len(walkFrontier) = 1)
    <2>1. walkFrontier' = Tail(walkFrontier) /\ walkPhase' = "fetch"
      BY <1>3, <1>6, <1>14
    <2>2. FetchAt(relations, query, budget, level, j + 1, hits, queue', visited, walkFrontier')
      BY <1>6, <1>9, <1>14, <2>1
    <2>3. WalkInv'
      BY <1>3, <1>6, <2>1, <2>2 DEF WalkInv, Walking
    <2> QED BY <1>11, <1>12, <2>3 DEF WalkIndInv
  <1> QED BY <1>13, <1>14

(* A page of an answer, out of its beginning or the whole of it.             *)
LEMMA AnswerKeeps ==
  ASSUME W!TypeOK, PagesInv, walkPhase # "complete",
         NEW s, s \in Seq(Found), Begins(s, W!FullAnswer(relations, query)),
         NEW cut, cut = W!Take(W!Skip(s, offset), query.limit),
         NEW more, more \in BOOLEAN, NEW sum,
         more => Len(s) > offset + query.limit,
         ~more => s = W!FullAnswer(relations, query) /\ Len(s) <= offset + query.limit,
         sum # None => sum = Len(W!FullAnswer(relations, query)),
         W!Answer(cut, more, sum), UNCHANGED <<relations, query>>
  PROVE  /\ PagesInv' /\ walkPhase' \in {"idle", "complete"}
         /\ offset' \in Nat /\ page'.total \in Nat \cup {None} /\ walkGot' \in Seq(Found)
  <1>1. PICK a \in Seq(Found) : a = W!FullAnswer(relations, query)
    BY AnswerIs
  <1>2. offset \in Nat /\ query.limit \in Nat
    BY AnswerIs DEF W!TypeOK
  <1>3. PICK o, l : o = offset /\ l = query.limit
    OBVIOUS
  <1>4. Upon(o, a) /\ walkGot = W!Take(a, o)
    BY <1>1, <1>3 DEF PagesInv
  <1>5. /\ cut \in Seq(Found)
        /\ Len(s) > o + l => W!Take(a, o) \o cut = W!Take(a, o + l) /\ Upon(o + l, a)
        /\ s = a /\ Len(s) <= o + l => W!Take(a, o) \o cut = a
    <2>1. Begins(s, a) /\ cut = W!Take(W!Skip(s, o), l) /\ l \in Nat
      BY <1>1, <1>2, <1>3
    <2>2. a \in Seq(Found)
      OBVIOUS
    <2>3. LET part == W!Take(W!Skip(s, o), l)
          IN  /\ part \in Seq(Found)
              /\ Len(s) > o + l =>
                     /\ W!Take(a, o) \o part = W!Take(a, o + l)
                     /\ Upon(o + l, a) /\ Len(part) = l
              /\ s = a /\ Len(s) <= o + l =>
                     W!Take(a, o) \o part = a /\ o + Len(part) = Len(a)
      <3>1. Begins(s, a)
        BY <2>1
      <3>2. l \in Nat
        BY <2>1
      <3>3. Upon(o, a)
        BY <1>4
      <3>4. s \in Seq(Found)
        OBVIOUS
      <3> QED BY ONLY <2>2, <3>1, <3>2, <3>3, <3>4, PartIs
    <2> QED BY <2>1, <2>3
  <1>6. /\ page' = [hits |-> cut, more |-> more, total |-> sum]
        /\ walkGot' = W!Take(a, o) \o cut /\ offset' = o + l
        /\ walkPhase' = IF more THEN "idle" ELSE "complete"
        /\ W!FullAnswer(relations, query)' = a
    <2>1. walkGot' = walkGot \o cut
      BY DEF W!Answer
    <2> QED BY <1>1, <1>3, <1>4, <2>1 DEF W!Answer
  <1>7. Len(a) \in Nat
    OBVIOUS
  <1>8. page'.total = sum /\ sum \in Nat \cup {None}
    BY <1>1, <1>6, <1>7
  <1>9. offset' \in Nat
    BY <1>2, <1>3, <1>6
  <1>10. CASE more
    <2>1. walkGot' = W!Take(a, o + l) /\ Upon(o + l, a) /\ walkPhase' = "idle"
      BY <1>3, <1>5, <1>6, <1>10
    <2>2. W!Take(a, o + l) \in Seq(Found)
      BY <1>2, <1>3, TakeIs
    <2>3. PagesInv'
      BY <1>1, <1>6, <1>8, <2>1 DEF PagesInv
    <2> QED BY <1>8, <1>9, <2>1, <2>2, <2>3
  <1>11. CASE ~more
    <2>1. walkGot' = a /\ walkPhase' = "complete"
      BY <1>1, <1>3, <1>5, <1>6, <1>11
    <2>2. PagesInv'
      BY <1>1, <1>6, <1>8, <2>1 DEF PagesInv
    <2> QED BY <1>8, <1>9, <2>1, <2>2
  <1> QED BY <1>10, <1>11

LEMMA CutPageKeeps ==
  ASSUME WalkIndInv, W!CutPage
  PROVE  WalkIndInv'
  <1>1. W!TypeOK /\ WalkInv /\ PagesInv
    BY DEF WalkIndInv
  <1>2. offset \in Nat /\ query.limit \in Nat \ {0}
    BY <1>1, AnswerIs DEF W!TypeOK
  <1>3. /\ walkPhase = "cut" /\ budget = offset + query.limit + 1
        /\ Begins(hits, W!FullWalk(relations, query))
        /\ Len(hits) >= budget \/ hits = W!FullWalk(relations, query)
    BY <1>1 DEF W!CutPage, WalkInv
  <1>4. W!FullAnswer(relations, query) = W!FullWalk(relations, query)
    BY DEF W!CutPage, W!FullAnswer
  <1>5. hits \in Seq(Found) /\ Len(hits) \in Nat
    BY <1>1 DEF W!TypeOK, Found, Link
  <1>6. PICK more : more = (Len(hits) > offset + query.limit)
    OBVIOUS
  <1>7. PICK sum : sum = IF more THEN None ELSE Len(hits)
    OBVIOUS
  <1>8. PICK cut : cut = W!Take(W!Skip(hits, offset), query.limit)
    OBVIOUS
  <1>9. /\ W!Answer(cut, more, sum)
        /\ UNCHANGED <<relations, query, budget, start, cursor, level, queue, walkFrontier,
                       visited, hits>>
    BY <1>6, <1>7, <1>8 DEF W!CutPage
  <1>10. /\ more \in BOOLEAN /\ (more => Len(hits) > offset + query.limit)
         /\ ~more => hits = W!FullAnswer(relations, query) /\ Len(hits) <= offset + query.limit
    <2>1. more <=> Len(hits) > offset + query.limit
      BY <1>6, Zenon
    <2>2. more \in BOOLEAN
      BY <1>6, SMT
    <2> QED BY <1>2, <1>3, <1>4, <1>5, <2>1, <2>2
  <1>11. sum # None => sum = Len(W!FullAnswer(relations, query))
    BY <1>7, <1>10
  <1>12. /\ PagesInv' /\ walkPhase' \in {"idle", "complete"}
         /\ offset' \in Nat /\ page'.total \in Nat \cup {None} /\ walkGot' \in Seq(Found)
    <2>1. UNCHANGED <<relations, query>> /\ walkPhase # "complete"
      BY <1>3, <1>9
    <2>2. Begins(hits, W!FullAnswer(relations, query))
      BY <1>3, <1>4
    <2> QED BY <1>1, <1>5, <1>8, <1>9, <1>10, <1>11, <2>1, <2>2, AnswerKeeps
  <1>13. W!TypeOK'
    BY <1>1, <1>9, <1>12 DEF W!TypeOK, Found, Link
  <1>14. WalkInv'
    BY <1>12 DEF WalkInv, Walking
  <1> QED BY <1>12, <1>13, <1>14 DEF WalkIndInv

LEMMA CutTestsKeeps ==
  ASSUME WalkIndInv, W!CutTests
  PROVE  WalkIndInv'
  <1>1. W!TypeOK /\ WalkInv /\ PagesInv
    BY DEF WalkIndInv
  <1>2. offset \in Nat /\ query.limit \in Nat \ {0} /\ budget \in Nat
    BY <1>1, AnswerIs DEF W!TypeOK
  <1>3. /\ walkPhase = "cut" /\ budget # 0 /\ query.direction = "tests"
        /\ Begins(hits, W!FullWalk(relations, query))
        /\ Len(hits) >= budget \/ hits = W!FullWalk(relations, query)
    BY <1>1 DEF W!CutTests, WalkInv
  <1>4. W!FullAnswer(relations, query) = W!TestsOf(W!FullWalk(relations, query))
    BY <1>3 DEF W!FullAnswer
  <1>5. hits \in Seq(Found) /\ Len(hits) \in Nat
    BY <1>1 DEF W!TypeOK, Found, Link
  <1>6. PICK found : found = W!TestsOf(hits)
    OBVIOUS
  <1>7. found \in Seq(Found) /\ Len(found) \in Nat
    BY <1>5, <1>6, TestsAre
  <1>8. Begins(found, W!FullAnswer(relations, query))
    <2>1. W!FullWalk(relations, query) \in Seq(Found)
      BY <1>1, AnswerIs
    <2> QED BY <1>3, <1>4, <1>5, <1>6, <2>1, TestsBegin
  <1>9. Len(hits) < budget => found = W!FullAnswer(relations, query)
    BY <1>2, <1>3, <1>4, <1>5, <1>6
  <1>10. CASE Len(found) > offset + query.limit \/ Len(hits) < budget
    <2>1. PICK more : more = (Len(found) > offset + query.limit)
      OBVIOUS
    <2>2. PICK sum : sum = IF Len(hits) < budget THEN Len(found) ELSE None
      OBVIOUS
    <2>3. PICK cut : cut = W!Take(W!Skip(found, offset), query.limit)
      OBVIOUS
    <2>4. /\ W!Answer(cut, more, sum)
          /\ UNCHANGED <<relations, query, budget, start, cursor, level, queue, walkFrontier,
                         visited, hits>>
      BY <1>6, <1>10, <2>1, <2>2, <2>3 DEF W!CutTests
    <2>5. /\ more \in BOOLEAN /\ (more => Len(found) > offset + query.limit)
          /\ ~more => found = W!FullAnswer(relations, query)
                      /\ Len(found) <= offset + query.limit
      <3>1. more <=> Len(found) > offset + query.limit
        BY <2>1, Zenon
      <3>2. more \in BOOLEAN
        BY <2>1, SMT
      <3> QED BY <1>2, <1>7, <1>9, <1>10, <3>1, <3>2
    <2>6. sum # None => sum = Len(W!FullAnswer(relations, query))
      BY <1>9, <2>2
    <2>7. /\ PagesInv' /\ walkPhase' \in {"idle", "complete"}
          /\ offset' \in Nat /\ page'.total \in Nat \cup {None} /\ walkGot' \in Seq(Found)
      <3>1. UNCHANGED <<relations, query>> /\ walkPhase # "complete"
        BY <1>3, <2>4
      <3> QED BY <1>1, <1>7, <1>8, <2>3, <2>4, <2>5, <2>6, <3>1, AnswerKeeps
    <2>8. W!TypeOK'
      BY <1>1, <2>4, <2>7 DEF W!TypeOK, Found, Link
    <2>9. WalkInv'
      BY <2>7 DEF WalkInv, Walking
    <2> QED BY <2>7, <2>8, <2>9 DEF WalkIndInv
  <1>11. CASE ~(Len(found) > offset + query.limit \/ Len(hits) < budget)
    <2>1. PICK n : n = 2 * budget
      OBVIOUS
    <2>2. n \in Nat \ {0}
      BY <1>2, <1>3, <2>1
    <2>3. W!Walk(n) /\ UNCHANGED <<relations, query, offset, page, walkGot>>
      BY <1>6, <1>11, <2>1 DEF W!CutTests
    <2> QED BY <1>3, <2>2, <2>3, WalkBegins
  <1> QED BY <1>10, <1>11

LEMMA AskDirectKeeps ==
  ASSUME WalkIndInv, W!AskDirect
  PROVE  WalkIndInv'
  <1>1. W!TypeOK /\ WalkInv /\ PagesInv
    BY DEF WalkIndInv
  <1>2. /\ offset \in Nat /\ query.limit \in Nat \ {0} /\ query.depth \in Nat
        /\ Walk(relations, query)
    BY <1>1, AnswerIs DEF W!TypeOK
  <1>3. walkPhase = "idle" /\ query.depth <= 1 /\ query.direction # "tests"
    BY DEF W!AskDirect
  <1>4. PICK all : all = W!Numbered(W!Direct(relations, query), 1)
    OBVIOUS
  <1>5. W!FullAnswer(relations, query) = all
    <2>1. W!Hops(query) = 1
      BY <1>2, <1>3, QueriesAssumption DEF W!Hops, W!TraversalInputs
    <2>2. PICK one, zero : one = 1 /\ zero = 0 /\ Place(one, zero, W!Hops(query))
      BY <2>1 DEF Place
    <2>3. /\ W!Levels(relations, query)[one].rows = W!Direct(relations, query)
          /\ Walked(relations, query, one) =
                Walked(relations, query, zero)
                     \o W!Numbered(W!Levels(relations, query)[one].rows, one)
      <3>1. Place(one, zero, W!Hops(query))
        BY <2>2
      <3>2. LET here   == W!Levels(relations, query)[one]
                before == W!Levels(relations, query)[zero]
            IN  /\ here.rows = IF one = 1 THEN W!Direct(relations, query)
                               ELSE W!Fetched(relations, query, before.nodes)
                /\ Walked(relations, query, one) =
                      Walked(relations, query, zero) \o W!Numbered(here.rows, one)
        BY ONLY <1>2, <3>1, LevelFacts
      <3> QED BY <2>2, <3>2
    <2>4. Walked(relations, query, zero) = <<>>
          /\ W!FullWalk(relations, query) = Walked(relations, query, one)
      BY <1>2, <2>1, <2>2, WalkedIs
    <2>5. all \in Seq(Found)
      BY <1>2, <1>4, DirectType, NumberedIs
    <2>6. <<>> \o all = all
      BY <2>5
    <2>7. W!FullWalk(relations, query) = all
      BY <1>4, <2>2, <2>3, <2>4, <2>6
    <2> QED BY <1>3, <2>7 DEF W!FullAnswer
  <1>6. all \in Seq(Found) /\ Len(all) \in Nat
    BY <1>1, <1>5, AnswerIs
  <1>7. PICK cut : cut = W!Take(W!Skip(all, offset), query.limit)
    OBVIOUS
  <1>8. PICK more : more = (offset + Len(cut) < Len(all))
    OBVIOUS
  <1>9. /\ W!Answer(cut, more, Len(all))
        /\ UNCHANGED <<relations, query, budget, start, cursor, level, queue, walkFrontier,
                       visited, hits>>
    BY <1>4, <1>7, <1>8 DEF W!AskDirect
  <1>10. offset <= Len(all)
    <2>1. Upon(offset, all)
      BY <1>1, <1>3, <1>5 DEF PagesInv
    <2> QED BY <1>6, <2>1 DEF Upon
  <1>11. /\ more \in BOOLEAN /\ (more => Len(all) > offset + query.limit)
         /\ ~more => Len(all) <= offset + query.limit
    <2>1. PICK rest : rest = W!Skip(all, offset)
      OBVIOUS
    <2>2. rest \in Seq(Found) /\ Len(rest) = Len(all) - offset
      <3>1. rest \in Seq(Found) /\ Len(rest) = IF offset < Len(all) THEN Len(all) - offset ELSE 0
        BY <1>2, <1>6, <2>1, SkipIs
      <3> QED BY <1>2, <1>6, <1>10, <3>1
    <2>3. Len(cut) = IF query.limit < Len(rest) THEN query.limit ELSE Len(rest)
      BY <1>2, <1>7, <2>1, <2>2, TakeIs
    <2>4. more <=> offset + Len(cut) < Len(all)
      BY <1>8, Zenon
    <2>5. more \in BOOLEAN
      BY <1>8, SMT
    <2> QED BY <1>2, <1>6, <1>10, <2>2, <2>3, <2>4, <2>5
  <1>12. Begins(all, all)
    BY <1>6 DEF Begins
  <1>13. /\ PagesInv' /\ walkPhase' \in {"idle", "complete"}
         /\ offset' \in Nat /\ page'.total \in Nat \cup {None} /\ walkGot' \in Seq(Found)
    <2>1. UNCHANGED <<relations, query>> /\ walkPhase # "complete"
      BY <1>3, <1>9
    <2>2. Begins(all, W!FullAnswer(relations, query))
      BY <1>5, <1>12
    <2>3. ~more => all = W!FullAnswer(relations, query) /\ Len(all) <= offset + query.limit
      BY <1>5, <1>11
    <2>4. Len(all) = Len(W!FullAnswer(relations, query))
      BY <1>5
    <2> QED BY <1>1, <1>6, <1>7, <1>9, <1>11, <2>1, <2>2, <2>3, <2>4, AnswerKeeps
  <1>14. W!TypeOK'
    BY <1>1, <1>9, <1>13 DEF W!TypeOK, Found, Link
  <1>15. WalkInv'
    BY <1>13 DEF WalkInv, Walking
  <1> QED BY <1>13, <1>14, <1>15 DEF WalkIndInv

LEMMA WalkStutters ==
  ASSUME WalkIndInv, UNCHANGED walkVars
  PROVE  WalkIndInv'
  <1>1. W!TypeOK'
    BY DEF WalkIndInv, walkVars, W!TypeOK
  <1>2. WalkInv'
    BY DEF WalkIndInv, walkVars, WalkInv
  <1>3. PagesInv'
    BY DEF WalkIndInv, walkVars, PagesInv
  <1> QED BY <1>1, <1>2, <1>3 DEF WalkIndInv

LEMMA WalkAlways == AnySpec => []WalkIndInv
  <1>1. AnyInit => WalkIndInv
    BY WalkInit DEF AnyInit
  <1>2. WalkIndInv /\ [AllNext]_allVars => WalkIndInv'
    <2>1. [AllNext]_allVars => W!Next \/ UNCHANGED walkVars
      BY DEF AllNext, allVars
    <2>2. W!Complete => UNCHANGED walkVars
      BY DEF W!Complete, W!vars, walkVars
    <2>3. WalkIndInv /\ W!Next => WalkIndInv'
      BY <2>2, AskDirectKeeps, AskWalkKeeps, ReadPageKeeps, VisitKeeps, EndLevelKeeps,
         FetchKeeps,
         CutPageKeeps, CutTestsKeeps, WalkStutters DEF W!Next
    <2> QED BY <2>1, <2>3, WalkStutters
  <1> QED BY <1>1, <1>2, PTL DEF AnySpec

LEMMA PagesResult ==
  ASSUME WalkIndInv
  PROVE  PagesAddUp
  <1>1. W!TypeOK /\ PagesInv
    BY DEF WalkIndInv
  <1>2. PICK a \in Seq(Found) : a = W!FullAnswer(relations, query)
    BY <1>1, AnswerIs
  <1>3. offset \in Nat /\ Len(a) \in Nat
    BY <1>1 DEF W!TypeOK
  <1>4. W!IsPrefix(walkGot, a)
    <2>1. walkGot \in Seq(Found) /\ Len(walkGot) <= Len(a)
          /\ \A i \in 1 .. Len(walkGot) : walkGot[i] = a[i]
      <3>1. CASE walkPhase = "complete"
        BY <1>1, <1>2, <1>3, <3>1 DEF PagesInv
      <3>2. CASE walkPhase # "complete"
        <4>1. walkGot = W!Take(a, offset)
          BY <1>1, <1>2, <3>2 DEF PagesInv
        <4>2. walkGot \in Seq(Found) /\ Begins(walkGot, a)
          BY <1>3, <4>1, TakeIs
        <4> QED BY <4>2 DEF Begins
      <3> QED BY <3>1, <3>2
    <2> QED BY <2>1 DEF W!IsPrefix
  <1>5. walkPhase = "complete" => walkGot = a
    BY <1>1, <1>2 DEF PagesInv
  <1>6. page.total # None => page.total = Len(a)
    BY <1>1, <1>2 DEF PagesInv
  <1> QED BY <1>2, <1>4, <1>5, <1>6 DEF PagesAddUp, W!PagesAddUp

(* The pages of an answer put together are the whole of it: each walk, as    *)
(* short as its page allows, finds the beginning of what an unbounded one    *)
(* would, the first hop filtered in pages is the one that SQL selects, and a *)
(* total or a last page is one (bfs, relation_page, test_search).            *)
THEOREM PagesAreTheAnswer == AnySpec => []PagesAddUp
  <1>1. WalkIndInv => PagesAddUp
    BY PagesResult
  <1> QED BY <1>1, WalkAlways, PTL
-----------------------------------------------------------------------------
(* The symbols within so many proven hops of the start.                      *)
ProvenEnd(q, r, s) ==
    /\ W!Cardinality(r.targets) = 1 /\ ~r.member
    /\ IF W!Backward(q.direction) THEN r.from = s ELSE s \in r.targets

LEMMA ProvenEnds ==
  ASSUME NEW rs, NEW q, Walk(rs, q), NEW r, Has(rs, r), NEW s
  PROVE  s \in W!NextNode(q.direction, r) <=> s \in Symbols /\ ProvenEnd(q, r, s)
  <1>1. r \in Link /\ (r.external => r.targets = {})
    BY HasType DEF Walk, Indexed
  <1>2. r.from \in Symbols /\ r.external \in BOOLEAN /\ r.member \in BOOLEAN
    BY <1>1 DEF Link, W!RelationRow
  <1>3. W!Cardinality({}) = 0
    BY SameCount, FS_EmptySet
  <1>4. W!Resolved(r) <=> W!Cardinality(r.targets) = 1 /\ ~r.member
    BY <1>1, <1>2, <1>3 DEF W!Resolved
  <1>5. CASE ~W!Resolved(r)
    BY <1>4, <1>5 DEF W!NextNode, ProvenEnd
  <1>6. CASE W!Resolved(r)
    <2>1. r.targets = {W!Target(r)} /\ W!Target(r) \in Symbols
      BY <1>1, <1>6, OneTarget
    <2> QED BY <1>2, <1>4, <1>6, <2>1 DEF W!NextNode, ProvenEnd
  <1> QED BY <1>5, <1>6

LEMMA LedToAll ==
  ASSUME NEW q, NEW links, links \in Seq(Link), NEW x
  PROVE  x \in W!LedTo(q, links, Len(links)) <=>
             \E r : Has(links, r) /\ x \in W!NextNode(q.direction, r)
  <1>1. DOMAIN links = 1 .. Len(links)
    OBVIOUS
  <1> QED BY <1>1 DEF W!LedTo, Has

(* The symbols a hop is the first to lead to.                                *)
LEMMA NodesAre ==
  ASSUME NEW rs, NEW q, Walk(rs, q), NEW n, NEW m, Place(n, m, W!Hops(q)), NEW s
  PROVE  Has(W!Levels(rs, q)[n].nodes, s) <=>
             s \in W!Levels(rs, q)[n].seen \ W!Levels(rs, q)[m].seen
  <1>1. PICK here, before : here = W!Levels(rs, q)[n] /\ before = W!Levels(rs, q)[m]
    OBVIOUS
  <1>2. /\ here.rows \in Seq(Link)
        /\ here.nodes = W!NewNodes(q, here.rows, before.seen)
        /\ here.seen = before.seen \cup W!LedTo(q, here.rows, Len(here.rows))
    BY <1>1, LevelFacts
  <1>3. Has(W!NewNodes(q, here.rows, before.seen), s) <=>
            s \in W!LedTo(q, here.rows, Len(here.rows)) \ before.seen
    BY <1>2, NewNodesIs
  <1> QED BY <1>1, <1>2, <1>3

LEMMA StartSeen ==
  ASSUME NEW rs, NEW q, Walk(rs, q)
  PROVE  \A n \in 0 .. W!Hops(q) : W!StartOf(q) \subseteq W!Levels(rs, q)[n].seen
  <1>1. PICK L : L = W!Hops(q)
    OBVIOUS
  <1>2. L \in Nat /\ W!Levels(rs, q)[0] = Ground(q)
    BY <1>1, LevelsAre
  <1> DEFINE U == {n \in Nat : n <= L => W!StartOf(q) \subseteq W!Levels(rs, q)[n].seen}
  <1>3. 0 \in U
    BY <1>2 DEF Ground
  <1>4. ASSUME NEW n \in Nat, n \in U PROVE n + 1 \in U
    <2> SUFFICES ASSUME n + 1 <= L PROVE W!StartOf(q) \subseteq W!Levels(rs, q)[n + 1].seen
      OBVIOUS
    <2>1. PICK p : p = n + 1
      OBVIOUS
    <2>2. Place(p, n, W!Hops(q))
      BY <1>1, <1>2, <2>1 DEF Place
    <2>3. W!Levels(rs, q)[n].seen \subseteq W!Levels(rs, q)[p].seen
      BY <2>2, LevelFacts
    <2>4. W!StartOf(q) \subseteq W!Levels(rs, q)[n].seen
      BY <1>2, <1>4
    <2> QED BY <2>1, <2>3, <2>4
  <1> HIDE DEF U
  <1>5. Nat \subseteq U
    BY <1>3, <1>4, SetInduction
  <1> QED BY <1>1, <1>2, <1>5 DEF U

(* What has been reached leads nowhere new, but for the last hop.            *)
Closed(rs, q, n, m) ==
    \A s \in W!Levels(rs, q)[m].seen \ W!StartOf(q) : \A r :
        Has(W!FetchOf(rs, q.direction, s), r) =>
            W!NextNode(q.direction, r) \subseteq W!Levels(rs, q)[n].seen

LEMMA ClosedFirst ==
  ASSUME NEW rs, NEW q, Walk(rs, q)
  PROVE  Closed(rs, q, 1, 0)
  <1>1. W!Levels(rs, q)[0].seen = W!StartOf(q)
    <2>1. W!Levels(rs, q)[0] = Ground(q)
      BY LevelsAre
    <2> QED BY <2>1 DEF Ground
  <1> QED BY <1>1 DEF Closed

LEMMA ClosedNext ==
  ASSUME NEW rs, NEW q, Walk(rs, q), NEW n, NEW m, Place(n, m, W!Hops(q)),
         NEW p, Place(p, n, W!Hops(q)), Closed(rs, q, n, m)
  PROVE  Closed(rs, q, p, n)
  <1> SUFFICES ASSUME NEW s \in W!Levels(rs, q)[n].seen \ W!StartOf(q),
                      NEW r, Has(W!FetchOf(rs, q.direction, s), r)
               PROVE  W!NextNode(q.direction, r) \subseteq W!Levels(rs, q)[p].seen
    BY DEF Closed
  <1>1. /\ W!Levels(rs, q)[p].rows \in Seq(Link)
        /\ W!Levels(rs, q)[n].nodes \in Seq(Symbols)
        /\ W!Levels(rs, q)[p].seen = W!Levels(rs, q)[n].seen
              \cup W!LedTo(q, W!Levels(rs, q)[p].rows, Len(W!Levels(rs, q)[p].rows))
        /\ W!Levels(rs, q)[p].rows =
              IF p = 1 THEN W!Direct(rs, q) ELSE W!Fetched(rs, q, W!Levels(rs, q)[n].nodes)
    BY LevelFacts
  <1>2. p # 1
    BY DEF Place
  <1>3. CASE s \in W!Levels(rs, q)[m].seen
    BY <1>1, <1>3 DEF Closed
  <1>4. CASE s \notin W!Levels(rs, q)[m].seen
    <2>1. Has(W!Levels(rs, q)[n].nodes, s)
      BY <1>4, NodesAre
    <2>2. Has(W!Levels(rs, q)[p].rows, r)
      BY <1>1, <1>2, <2>1, FetchedIs
    <2>3. \A x : x \in W!NextNode(q.direction, r) => x \in W!Levels(rs, q)[p].seen
      BY <1>1, <2>2, LedToAll
    <2> QED BY <2>3
  <1> QED BY <1>3, <1>4

LEMMA AllClosed ==
  ASSUME NEW rs, NEW q, Walk(rs, q), NEW n, NEW m, Place(n, m, W!Hops(q))
  PROVE  Closed(rs, q, n, m)
  <1>1. PICK L : L = W!Hops(q) /\ L \in Nat
    BY LevelsAre
  <1> DEFINE U == {k \in Nat : k + 1 <= L => Closed(rs, q, k + 1, k)}
  <1>2. 0 \in U
    BY ClosedFirst
  <1>3. ASSUME NEW k \in Nat, k \in U PROVE k + 1 \in U
    <2> SUFFICES ASSUME (k + 1) + 1 <= L PROVE Closed(rs, q, (k + 1) + 1, k + 1)
      OBVIOUS
    <2>1. PICK p, o : p = k + 1 /\ o = (k + 1) + 1
      OBVIOUS
    <2>2. Place(p, k, W!Hops(q)) /\ Place(o, p, W!Hops(q))
      BY <1>1, <2>1 DEF Place
    <2>3. Closed(rs, q, p, k)
      BY <1>1, <1>3, <2>1
    <2>4. Closed(rs, q, o, p)
      BY ONLY Walk(rs, q), <2>2, <2>3, ClosedNext
    <2> QED BY <2>1, <2>4
  <1> HIDE DEF U
  <1>4. Nat \subseteq U
    BY <1>2, <1>3, SetInduction
  <1>5. m \in Nat /\ m + 1 <= L /\ n = m + 1
    BY <1>1 DEF Place
  <1>6. m \in U
    BY <1>4, <1>5
  <1> QED BY <1>5, <1>6 DEF U
NearRows(rs, q, n, before) ==
    IF n = 1 THEN W!ToSet(W!Direct(rs, q))
    ELSE UNION {W!ToSet(W!FetchOf(rs, q.direction, s)) : s \in before \ W!StartOf(q)}
NearAfter(rs, q, n, before) ==
    before \cup {s \in Symbols : \E r \in NearRows(rs, q, n, before) : ProvenEnd(q, r, s)}

LEMMA NearAre ==
  ASSUME NEW rs, NEW q, Walk(rs, q)
  PROVE  LET near == W!Near(rs, q)
             L == W!Hops(q)
         IN  /\ near[0] = W!StartOf(q)
             /\ \A n \in 1 .. L : near[n] = NearAfter(rs, q, n, near[n - 1])
  <1>1. PICK L : L = W!Hops(q) /\ L \in Nat /\ 1 <= L
    BY LevelsAre
  <1>2. PICK b : b = W!StartOf(q)
    OBVIOUS
  <1>3. b \in SUBSET Symbols
    BY <1>2, StartIs
  <1> DEFINE H == [n \in 1 .. L |-> [x \in SUBSET Symbols |-> NearAfter(rs, q, n, x)]]
             Def(g) == [n \in 0 .. L |-> IF n = 0 THEN b ELSE NearAfter(rs, q, n, g[n - 1])]
  <1>4. H \in [1 .. L -> [SUBSET Symbols -> SUBSET Symbols]]
    <2>1. \A n \in 1 .. L : [x \in SUBSET Symbols |-> NearAfter(rs, q, n, x)]
                                \in [SUBSET Symbols -> SUBSET Symbols]
      BY DEF NearAfter
    <2> QED BY <2>1
  <1>5. PICK f : FoldOf(f, SUBSET Symbols, b, L, H)
    <2>1. L \in Nat
      BY <1>1
    <2> HIDE DEF H
    <2> QED BY ONLY <1>3, <1>4, <2>1, FoldIs
  <1>6. f = Def(f)
    <2>1. f \in [0 .. L -> SUBSET Symbols] /\ f[0] = b /\ \A n \in 1 .. L : f[n] = H[n][f[n - 1]]
      BY <1>5 DEF FoldOf
    <2>2. ASSUME NEW n \in 1 .. L PROVE f[n] = NearAfter(rs, q, n, f[n - 1])
      <3>1. n - 1 \in 0 .. L
        BY <1>1
      <3>2. f[n - 1] \in SUBSET Symbols
        BY <2>1, <3>1
      <3> QED BY <2>1, <3>2
    <2>3. ASSUME NEW n \in 0 .. L
          PROVE  f[n] = IF n = 0 THEN b ELSE NearAfter(rs, q, n, f[n - 1])
      <3>1. n # 0 => n \in 1 .. L
        BY <1>1
      <3> QED BY <2>1, <2>2, <3>1
    <2> HIDE DEF H
    <2> QED BY <2>1, <2>3
  <1> DEFINE near == CHOOSE g : g = Def(g)
  <1>7. W!Near(rs, q) = near
    BY <1>1, <1>2 DEF W!Near, NearAfter, NearRows, ProvenEnd
  <1>8. near = Def(near)
    <2> HIDE DEF Def
    <2> QED BY <1>6
  <1> HIDE DEF near, H
  <1>9. near[0] = b /\ \A n \in 1 .. L : near[n] = NearAfter(rs, q, n, near[n - 1])
    <2>1. \A n \in 0 .. L : near[n] = Def(near)[n]
      <3> HIDE DEF Def
      <3> QED BY <1>8
    <2>2. \A n \in 1 .. L : n \in 0 .. L /\ n # 0
      OBVIOUS
    <2>3. 0 \in 0 .. L
      BY <1>1
    <2> QED BY <2>1, <2>2, <2>3
  <1> QED BY <1>1, <1>2, <1>7, <1>9

(* One hop further, from what the walk has reached.                          *)
LEMMA NearStep ==
  ASSUME NEW rs, NEW q, Walk(rs, q), NEW n, NEW m, Place(n, m, W!Hops(q))
  PROVE  NearAfter(rs, q, n, W!Levels(rs, q)[m].seen) = W!Levels(rs, q)[n].seen
  <1>1. PICK links, seen, nodes : /\ links = W!Levels(rs, q)[n].rows
                                  /\ seen = W!Levels(rs, q)[m].seen
                                  /\ nodes = W!Levels(rs, q)[m].nodes
    OBVIOUS
  <1>2. /\ links \in Seq(Link) /\ nodes \in Seq(Symbols) /\ seen \subseteq Symbols
        /\ W!Levels(rs, q)[n].seen = seen \cup W!LedTo(q, links, Len(links))
        /\ links = IF n = 1 THEN W!Direct(rs, q) ELSE W!Fetched(rs, q, nodes)
    BY <1>1, LevelFacts
  <1>3. \A r : Has(links, r) => Has(rs, r)
    <2>1. CASE n = 1
      BY <1>2, <2>1, DirectType
    <2>2. CASE n # 1
      <3>1. Indexed(rs)
        BY DEF Walk
      <3> QED BY <1>2, <2>2, <3>1, FetchedIs, FetchIs
    <2> QED BY <2>1, <2>2
  <1>4. ASSUME NEW x, x \in NearAfter(rs, q, n, seen) PROVE x \in W!Levels(rs, q)[n].seen
    <2> SUFFICES ASSUME x \in Symbols, NEW r \in NearRows(rs, q, n, seen), ProvenEnd(q, r, x)
                 PROVE  x \in W!Levels(rs, q)[n].seen
      BY <1>2, <1>4 DEF NearAfter
    <2>1. CASE n = 1
      <3>1. Has(links, r)
        BY <1>2, <2>1, MembersAre DEF NearRows
      <3>2. x \in W!NextNode(q.direction, r)
        BY <1>3, <3>1, ProvenEnds
      <3> QED BY <1>2, <3>1, <3>2, LedToAll
    <2>2. CASE n # 1
      <3>1. PICK s \in seen \ W!StartOf(q) : Has(W!FetchOf(rs, q.direction, s), r)
        BY <2>2, MembersAre DEF NearRows
      <3>2. Has(rs, r)
        BY <3>1, FetchIs DEF Walk
      <3>3. x \in W!NextNode(q.direction, r)
        BY <3>2, ProvenEnds
      <3>4. Closed(rs, q, n, m)
        BY AllClosed
      <3> QED BY <1>1, <3>1, <3>3, <3>4 DEF Closed
    <2> QED BY <2>1, <2>2
  <1>5. ASSUME NEW x, x \in W!Levels(rs, q)[n].seen PROVE x \in NearAfter(rs, q, n, seen)
    <2>1. CASE x \in seen
      BY <2>1 DEF NearAfter
    <2>2. CASE x \notin seen
      <3>1. PICK r : Has(links, r) /\ x \in W!NextNode(q.direction, r)
        BY <1>2, <1>5, <2>2, LedToAll
      <3>2. x \in Symbols /\ ProvenEnd(q, r, x)
        BY <1>3, <3>1, ProvenEnds
      <3>3. r \in NearRows(rs, q, n, seen)
        <4>1. CASE n = 1
          BY <1>2, <3>1, <4>1, MembersAre DEF NearRows
        <4>2. CASE n # 1
          <5>1. PICK s : Has(nodes, s) /\ Has(W!FetchOf(rs, q.direction, s), r)
            BY <1>2, <3>1, <4>2, FetchedIs
          <5>2. PICK l : l = m - 1
            OBVIOUS
          <5>3. Place(m, l, W!Hops(q)) /\ l \in 0 .. W!Hops(q)
            <6>1. PICK L : L = W!Hops(q) /\ L \in Nat
              BY LevelsAre
            <6> QED BY <4>2, <5>2, <6>1 DEF Place
          <5>4. s \in seen \ W!Levels(rs, q)[l].seen
            BY <1>1, <5>1, <5>3, NodesAre
          <5>5. W!StartOf(q) \subseteq W!Levels(rs, q)[l].seen
            BY <5>3, StartSeen
          <5>6. s \in seen \ W!StartOf(q)
            BY <5>4, <5>5
          <5>7. r \in W!ToSet(W!FetchOf(rs, q.direction, s))
            BY <5>1, MembersAre
          <5> QED BY <4>2, <5>6, <5>7 DEF NearRows
        <4> QED BY <4>1, <4>2
      <3> QED BY <3>2, <3>3 DEF NearAfter
    <2> QED BY <2>1, <2>2
  <1> QED BY <1>1, <1>4, <1>5

LEMMA NearIs ==
  ASSUME NEW rs, NEW q, Walk(rs, q)
  PROVE  \A n \in 0 .. W!Hops(q) : W!Near(rs, q)[n] = W!Levels(rs, q)[n].seen
  <1>1. PICK L : L = W!Hops(q) /\ L \in Nat
    BY LevelsAre
  <1> DEFINE U == {n \in Nat : n <= L => W!Near(rs, q)[n] = W!Levels(rs, q)[n].seen}
  <1>2. 0 \in U
    <2>1. W!Levels(rs, q)[0] = Ground(q)
      BY LevelsAre
    <2>2. W!Near(rs, q)[0] = W!StartOf(q)
      BY NearAre
    <2> QED BY <2>1, <2>2 DEF Ground
  <1>3. ASSUME NEW n \in Nat, n \in U PROVE n + 1 \in U
    <2> SUFFICES ASSUME n + 1 <= L PROVE W!Near(rs, q)[n + 1] = W!Levels(rs, q)[n + 1].seen
      OBVIOUS
    <2>1. PICK p \in 1 .. L : p = n + 1 /\ p - 1 = n
      BY <1>1
    <2>2. Place(p, n, W!Hops(q))
      BY <1>1, <2>1 DEF Place
    <2>3. W!Near(rs, q)[p] = NearAfter(rs, q, p, W!Near(rs, q)[n])
      BY <1>1, <2>1, NearAre
    <2>4. W!Near(rs, q)[n] = W!Levels(rs, q)[n].seen
      BY <1>1, <1>3, <2>1
    <2>5. NearAfter(rs, q, p, W!Levels(rs, q)[n].seen) = W!Levels(rs, q)[p].seen
      BY ONLY Walk(rs, q), <2>2, NearStep
    <2> QED BY <2>1, <2>3, <2>4, <2>5
  <1> HIDE DEF U
  <1>4. Nat \subseteq U
    BY <1>2, <1>3, SetInduction
  <1> QED BY <1>1, <1>4 DEF U

(* A hit of a later hop, and where it was asked for.                         *)
LEMMA LaterHit ==
  ASSUME NEW rs, NEW q, Walk(rs, q), NEW x, Has(W!FullWalk(rs, q), x), x.depth > 1
  PROVE  \E s \in W!Near(rs, q)[x.depth - 1] \ W!Near(rs, q)[x.depth - 2] :
             Has(W!FetchOf(rs, q.direction, s), x.row)
  <1>1. PICK L : L = W!Hops(q) /\ L \in Nat /\ 1 <= L
    BY LevelsAre
  <1>2. Pieces(Numberings(rs, q), L, Found) /\ W!FullWalk(rs, q) = Flat(Numberings(rs, q), L)
    BY <1>1, WalkedIs DEF Walked
  <1>3. PICK n \in 1 .. L : Has(Numberings(rs, q)[n], x)
    <2>1. L \in 0 .. L
      BY <1>1
    <2> QED BY <1>2, <2>1, FlatMembers
  <1>4. PICK m : m = n - 1
    OBVIOUS
  <1>5. Place(n, m, W!Hops(q)) /\ n \in Nat
    BY <1>1, <1>4 DEF Place
  <1>6. /\ W!Levels(rs, q)[n].rows \in Seq(Link) /\ W!Levels(rs, q)[m].nodes \in Seq(Symbols)
        /\ W!Levels(rs, q)[n].rows =
              IF n = 1 THEN W!Direct(rs, q) ELSE W!Fetched(rs, q, W!Levels(rs, q)[m].nodes)
    BY <1>5, LevelFacts
  <1>7. x.depth = n /\ Has(W!Levels(rs, q)[n].rows, x.row)
    <2>1. Has(W!Numbered(W!Levels(rs, q)[n].rows, n), x)
      BY <1>1, <1>3 DEF Numberings
    <2> QED BY <1>5, <1>6, <2>1, NumberedIs
  <1>8. n # 1
    BY <1>7
  <1>9. PICK s : Has(W!Levels(rs, q)[m].nodes, s) /\ Has(W!FetchOf(rs, q.direction, s), x.row)
    BY <1>6, <1>7, <1>8, FetchedIs
  <1>10. PICK l : l = m - 1
    OBVIOUS
  <1>11. Place(m, l, W!Hops(q)) /\ l \in 0 .. W!Hops(q) /\ m \in 0 .. W!Hops(q)
         /\ m = x.depth - 1 /\ l = x.depth - 2
    BY <1>1, <1>4, <1>7, <1>8, <1>10 DEF Place
  <1>12. s \in W!Levels(rs, q)[m].seen \ W!Levels(rs, q)[l].seen
    BY <1>9, <1>11, NodesAre
  <1>13. /\ W!Near(rs, q)[m] = W!Levels(rs, q)[m].seen
         /\ W!Near(rs, q)[l] = W!Levels(rs, q)[l].seen
    BY <1>11, NearIs
  <1> QED BY <1>9, <1>11, <1>12, <1>13

LEMMA DepthResult ==
  ASSUME WalkIndInv
  PROVE  DepthIsShortest
  <1> SUFFICES ASSUME walkPhase = "cut", NEW i \in DOMAIN hits, hits[i].depth > 1
               PROVE  \E s \in W!Near(relations, query)[hits[i].depth - 1]
                                 \ W!Near(relations, query)[hits[i].depth - 2] :
                          hits[i].row \in W!ToSet(W!FetchOf(relations, query.direction, s))
    BY DEF DepthIsShortest, W!DepthIsShortest
  <1>1. W!TypeOK /\ Begins(hits, W!FullWalk(relations, query))
    BY DEF WalkIndInv, WalkInv
  <1>2. Walk(relations, query) /\ W!FullWalk(relations, query) \in Seq(Found)
    BY <1>1, AnswerIs
  <1>3. PICK x : x = hits[i]
    OBVIOUS
  <1>4. Has(W!FullWalk(relations, query), x)
    <2>1. i \in 1 .. Len(hits) /\ Len(hits) \in Nat
      BY <1>1 DEF W!TypeOK
    <2>2. i \in DOMAIN W!FullWalk(relations, query)
      BY <1>1, <1>2, <2>1 DEF Begins
    <2> QED BY <1>1, <1>3, <2>1, <2>2 DEF Begins, Has
  <1>5. PICK s \in W!Near(relations, query)[x.depth - 1] \ W!Near(relations, query)[x.depth - 2] :
            Has(W!FetchOf(relations, query.direction, s), x.row)
    <2>1. x.depth > 1
      BY <1>3
    <2> QED BY ONLY <1>2, <1>4, <2>1, LaterHit
  <1>6. x.row \in W!ToSet(W!FetchOf(relations, query.direction, s))
    BY <1>5, MembersAre
  <1> QED BY <1>3, <1>5, <1>6

(* A hit is reported at the least number of proven hops from the start, and  *)
(* nothing is reached through a relation that may mean something else (bfs): *)
(* the symbols a hop is the first to lead to are those one proven hop beyond *)
(* all that were reached before, because these lead nowhere new.             *)
THEOREM DepthsAreShortest == AnySpec => []DepthIsShortest
  <1>1. WalkIndInv => DepthIsShortest
    BY DepthResult
  <1> QED BY <1>1, WalkAlways, PTL

-----------------------------------------------------------------------------
(* The types.                                                                *)
OverInv == over \in BOOLEAN

(* What is given stays, and a module of no files is answered at once. *)
GivenInv ==
    /\ table \in Tables /\ module \in RootFiles
    /\ module = {} => /\ stage = "done" /\ hop = 1 /\ next = {} /\ edges = {}
                      /\ truncated = FALSE /\ Unsearched
                      /\ frontier = {D!Root} /\ DOMAIN reached = {D!Root} /\ reached[D!Root] = 0

LEMMA GivenInit == D!Init => GivenInv
  <1> SUFFICES ASSUME D!Init PROVE GivenInv
    OBVIOUS
  <1>1. CASE module = {}
    <2>1. D!RootNode = D!Root
      BY <1>1, FS_EmptySet DEF D!RootNode
    <2> QED BY <1>1, <2>1 DEF GivenInv, D!Init, Unsearched
  <1>2. CASE module # {}
    BY <1>2 DEF GivenInv, D!Init
  <1> QED BY <1>1, <1>2

LEMMA GivenStep ==
  ASSUME GivenInv, D!Next \/ UNCHANGED graphVars
  PROVE  GivenInv'
  <1>1. UNCHANGED <<table, module>>
    BY DEF D!Next, D!Expand, D!EndHop, D!StartAt, D!Look, D!Finish, D!Answer, D!Done, D!walked,
           D!vars, graphVars
  <1>2. CASE module = {}
    <2>1. UNCHANGED graphVars
      BY <1>2 DEF GivenInv, D!Next, D!Expand, D!EndHop, D!StartAt, D!Look, D!Finish, D!Answer,
                  D!Done, D!vars, graphVars
    <2> QED BY <1>2, <2>1 DEF GivenInv, graphVars, Unsearched, D!Root
  <1>3. CASE module # {}
    BY <1>1, <1>3 DEF GivenInv
  <1> QED BY <1>2, <1>3

(* A search has the types of its graph. *)
LEMMA SearchTyped ==
  ASSUME NEW N, NEW A, NEW P, SearchInv(N, A, P), N \subseteq D!Node
  PROVE  /\ DOMAIN index = DOMAIN low /\ DOMAIN index \subseteq D!Node
         /\ D!ToSet(stack) \subseteq DOMAIN index
         /\ \A i \in DOMAIN call : call[i].node \in DOMAIN index /\ call[i].rest \subseteq D!Node
         /\ cycles \subseteq SUBSET D!Node
  <1>1. SearchTypes(N, A) /\ Discovered /\ CyclesInv(P, N)
    BY DEF SearchInv
  <1>2. DOMAIN index = DOMAIN low /\ DOMAIN index \subseteq D!Node /\ OnStack \subseteq DOMAIN index
    BY <1>1 DEF SearchTypes
  <1>3. \A i \in DOMAIN call : call[i].node \in DOMAIN index
    BY <1>1, <1>2 DEF Discovered, Gray
  <1>4. \A i \in DOMAIN call : call[i].rest \subseteq D!Node
    <2>1. PICK K : K = Len(call)
      OBVIOUS
    <2>2. \A i \in DOMAIN call : call[i] \in [node : N, rest : SUBSET N]
      BY <2>1, OnPath
    <2> QED BY <2>2
  <1>5. cycles \subseteq SUBSET D!Node
    BY <1>1 DEF CyclesInv, Comp
  <1>6. D!ToSet(stack) \subseteq DOMAIN index
    BY <1>2 DEF D!ToSet, OnStack
  <1> QED BY <1>2, <1>3, <1>4, <1>5, <1>6

LEMMA GraphTyped == CyclesIndInv /\ GivenInv => D!TypeOK
  <1> SUFFICES ASSUME CyclesIndInv, GivenInv PROVE D!TypeOK
    OBVIOUS
  <1>1. D!Nodes \subseteq D!Node
    BY NodesAreFew DEF CyclesIndInv
  <1>2. PICK N, A, P : N = D!Nodes /\ A = Arrows /\ P = Linked
    OBVIOUS
  <1>3. SearchInv(N, A, P)
    BY <1>2, UnsearchedIs DEF CyclesIndInv
  <1>4. /\ DOMAIN index = DOMAIN low /\ DOMAIN index \subseteq D!Node
        /\ D!ToSet(stack) \subseteq DOMAIN index
        /\ \A i \in DOMAIN call : call[i].node \in DOMAIN index /\ call[i].rest \subseteq D!Node
        /\ cycles \subseteq SUBSET D!Node
    BY <1>1, <1>2, <1>3, SearchTyped
  <1>5. CASE module = {}
    <2>1. /\ stage = "done" /\ hop = 1 /\ next = {} /\ edges = {} /\ truncated = FALSE
          /\ frontier = {D!Root} /\ DOMAIN reached = {D!Root} /\ reached[D!Root] = 0
      BY <1>5 DEF GivenInv
    <2>2. D!Root \in D!Node
      BY DEF D!Node
    <2>3. /\ hop \in Nat \ {0} /\ frontier \subseteq D!Node /\ next \subseteq D!Node
          /\ DOMAIN reached \subseteq D!Node /\ \A n \in DOMAIN reached : reached[n] \in 0 .. hop
      BY <2>1, <2>2
    <2> QED BY <1>4, <2>1, <2>3 DEF D!TypeOK, GivenInv
  <1>6. CASE module # {}
    <2>1. GraphTypes /\ truncated \in BOOLEAN /\ EdgesInv
      BY <1>6 DEF CyclesIndInv, GraphInv
    <2>2. /\ hop \in Nat \ {0} /\ frontier \subseteq D!Node /\ next \subseteq D!Node
          /\ DOMAIN reached \subseteq D!Node /\ \A n \in DOMAIN reached : reached[n] \in 0 .. hop
          /\ stage \in {"walk", "search", "done"}
      BY <2>1 DEF GraphTypes
    <2>3. ASSUME NEW e \in edges
          PROVE  e.from \in D!Node /\ e.to \in D!Node /\ e.depth \in 1 .. hop
      <3>1. PICK p \in Noted : e = [from |-> p[1], to |-> p[2], depth |-> reached[p[1]] + 1]
        BY <2>1 DEF EdgesInv
      <3>2. p[1] \in DOMAIN reached /\ p[2] \in DOMAIN reached /\ reached[p[1]] < hop
        BY DEF Noted, Expanded
      <3>3. reached[p[1]] \in Nat /\ hop \in Nat
        BY <2>2, <3>2
      <3> QED BY <2>2, <3>1, <3>2, <3>3
    <2> QED BY <1>4, <2>1, <2>2, <2>3 DEF D!TypeOK, GivenInv
  <1> QED BY <1>5, <1>6

LEMMA BudgetTyped == BudgetInv /\ NumbersInv /\ OverInv => TypeOK
  <1> SUFFICES ASSUME BudgetInv, NumbersInv, OverInv PROVE TypeOK
    OBVIOUS
  <1>1. BudgetTypes /\ GotInv
    BY DEF BudgetInv
  <1>2. ranked \in Seq(Candidate)
    BY <1>1, RankedOfCorpus
  <1>3. got \in Seq(Candidate)
    <2>1. Len(got) \in Nat /\ \A i \in 1 .. Len(got) : ranked[i] \in Candidate
      BY <1>1, <1>2 DEF GotInv
    <2>2. [i \in 1 .. Len(got) |-> ranked[i]] \in Seq(Candidate)
      BY <2>1
    <2> QED BY <1>1, <2>2 DEF GotInv
  <1>4. request \in Requests
    BY <1>1, <1>2 DEF BudgetTypes, NumbersInv, Requests
  <1> QED BY <1>1, <1>2, <1>3, <1>4 DEF TypeOK, BudgetTypes, NumbersInv, OverInv

(* Each variable has its type, whatever the estimate of a response is as     *)
(* long as it is a number.                                                   *)
THEOREM AllTyped ==
  ASSUME EstimateIsNumber(Seq(Row), Nat)
  PROVE  AnySpec => []AllTypesOK
  <1> DEFINE Held == BudgetInv /\ NumbersInv /\ OverInv /\ CyclesIndInv /\ GivenInv
  <1>1. AnyInit => Held
    <2>1. Init => NumbersInv
      BY DEF Init, NumbersInv
    <2>2. Init => OverInv
      BY Zenon DEF Init, OverInv
    <2> QED BY <2>1, <2>2, BudgetInit, CyclesInit, GivenInit DEF AnyInit
  <1>2. Held /\ [AllNext]_allVars => Held'
    <2>1. [AllNext]_allVars => [Next]_vars /\ (D!Next \/ UNCHANGED graphVars)
      BY DEF AllNext, allVars, graphVars
    <2>2. OverInv /\ [Next]_vars => OverInv'
      BY DEF OverInv, Next, Ask, Settle, Lower, Drop, Begin, Halve, KeepHead, Render, Complete,
             Receive, vars
    <2> QED BY <2>1, <2>2, BudgetStep, NumbersStep, CyclesStep, GivenStep
  <1>3. Held /\ WalkIndInv => AllTypesOK
    BY BudgetTyped, GraphTyped DEF WalkIndInv, AllTypesOK
  <1> QED BY <1>1, <1>2, <1>3, WalkAlways, PTL DEF AnySpec
===============================================================================
