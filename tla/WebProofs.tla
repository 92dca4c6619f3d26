----------------------------- MODULE WebProofs -----------------------------
(* The safety properties of Web, for any number of sessions and channels   *)
(* and for all bursts of frames. First lists of positions and what a       *)
(* sequence has at them; then what the frames of a client begin, complete  *)
(* and fail, and what socket_read makes of it; then the inductive          *)
(* invariant, the actions, which keep it, and the theorems.                *)
EXTENDS Web, FiniteSetTheorems, WellFoundedInduction, TLAPS

----------------------------------------------------------------------------
(* Positions in ascending order.                                           *)

(* A set of natural numbers that is not empty has a least element.         *)
LEMMA LeastElement ==
  ASSUME NEW T \in SUBSET Nat, T # {}
  PROVE  \E m \in T : \A k \in T : m <= k
<1>1. PICK m \in T : \A k \in T : ~(<<k, m>> \in OpToRel(<, Nat))
  BY NatLessThanWellFounded, WFMin, Zenon
<1>2. \A k \in T : ~(k < m)
  BY <1>1, Zenon DEF OpToRel
<1> QED BY <1>2

(* A set of positions that is not empty has a last one.                    *)
LEMMA MaxFacts ==
  ASSUME NEW j \in Nat, NEW B \in SUBSET (1 .. j), B # {}
  PROVE  Max(B) \in B /\ \A k \in B : k <= Max(B)
<1> DEFINE T == {m \in Nat : \A k \in B : k <= m}
<1>1. j \in T /\ T \in SUBSET Nat
  OBVIOUS
<1>0. \A k \in B : k \in Nat /\ k # 0
  OBVIOUS
<1>2. PICK m \in T : \A k \in T : m <= k
  <2> HIDE DEF T
  <2> QED BY <1>1, LeastElement, Zenon
<1>3. m \in Nat /\ \A k \in B : k <= m
  BY <1>2
<1>4. m \in B
  <2> SUFFICES ASSUME m \notin B PROVE FALSE
    OBVIOUS
  <2>1. \A k \in B : k <= m - 1
    <3> SUFFICES ASSUME NEW k \in B PROVE k <= m - 1
      OBVIOUS
    <3>1. k <= m /\ k # m /\ k \in Nat
      BY <1>0, <1>3, Zenon
    <3> QED BY <1>3, <3>1
  <2>2. m - 1 \in Nat
    <3>1. PICK k \in B : TRUE
      BY Zenon
    <3> QED BY <1>0, <1>3, <3>1
  <2>3. m <= m - 1
    BY <1>2, <2>1, <2>2
  <2> QED BY <1>3, <2>3
<1>5. \E x \in B : \A y \in B : x >= y
  BY <1>3, <1>4
<1>6. Max(B) \in B /\ \A y \in B : Max(B) >= y
  BY <1>5, Zenon DEF Max
<1> QED BY <1>6

(* How many positions there are up to one of them.                         *)
LEMMA RankFacts ==
  ASSUME NEW N \in Nat, NEW S \in SUBSET (1 .. N)
  PROVE  /\ IsFiniteSet(S) /\ Cardinality(S) \in Nat
         /\ \A k : Rank(S, k) \in Nat
         /\ \A k, l \in S : k < l => Rank(S, k) < Rank(S, l)
<1>0. \A k \in S : k \in Nat
  OBVIOUS
<1>1. IsFiniteSet(S) /\ Cardinality(S) \in Nat
  <2>1. IsFiniteSet(1 .. N)
    BY FS_Interval
  <2> QED BY <2>1, FS_Subset, FS_CardinalityType, Zenon
<1> DEFINE Upto(k) == {l \in S : l <= k}
<1>2. ASSUME NEW k PROVE IsFiniteSet(Upto(k)) /\ Cardinality(Upto(k)) \in Nat
  <2>1. Upto(k) \in SUBSET S
    OBVIOUS
  <2> HIDE DEF Upto
  <2> QED BY <1>1, <2>1, FS_Subset, FS_CardinalityType
<1>3. ASSUME NEW k \in S, NEW l \in S, k < l
      PROVE  Cardinality(Upto(k)) < Cardinality(Upto(l))
  <2>1. Upto(k) \cup {l} \in SUBSET Upto(l) /\ l \notin Upto(k)
    <3>1. k \in Nat /\ l \in Nat /\ l <= l /\ ~(l <= k)
      BY <1>0, <1>3
    <3>2. \A x \in S : x <= k => x <= l
      BY <1>0, <1>3, <3>1
    <3> QED BY <3>1, <3>2, Zenon
  <2> HIDE DEF Upto
  <2>2. Cardinality(Upto(k) \cup {l}) = Cardinality(Upto(k)) + 1
    BY <1>2, <2>1, FS_AddElement, Zenon
  <2>3. Cardinality(Upto(k) \cup {l}) <= Cardinality(Upto(l))
    BY <1>2, <2>1, FS_Subset
  <2> QED BY <1>2, <2>2, <2>3
<1> QED BY <1>1, <1>2, <1>3, Zenon DEF Rank

(* The sequence of the positions.                                          *)
Lists(q, S) ==
  /\ q \in Seq(S) /\ Len(q) = Cardinality(S)
  /\ \A n \in 1 .. Len(q) : Rank(S, q[n]) = n

(* There is one such list, and Listed yields it.                           *)
LEMMA ListedIs ==
  ASSUME NEW N \in Nat, NEW S \in SUBSET (1 .. N), NEW q, Lists(q, S)
  PROVE  Listed(S) = q
<1>1. /\ q \in Seq(S) /\ Len(q) = Cardinality(S) /\ Len(q) \in Nat
      /\ \A n \in 1 .. Len(q) : q[n] \in S /\ Rank(S, q[n]) = n
  BY DEF Lists
<1>2. ASSUME NEW n \in 1 .. Cardinality(S)
      PROVE  (CHOOSE k \in S : Rank(S, k) = n) = q[n]
  <2> DEFINE c == CHOOSE k \in S : Rank(S, k) = n
  <2>1. q[n] \in S /\ Rank(S, q[n]) = n
    BY <1>1
  <2>2. c \in S /\ Rank(S, c) = n
    BY <2>1, Zenon
  <2> HIDE DEF c
  <2>3. c \in Nat /\ q[n] \in Nat /\ ~(c < q[n]) /\ ~(q[n] < c)
    <3>1. c < q[n] => Rank(S, c) < Rank(S, q[n])
      BY <2>1, <2>2, RankFacts, Zenon
    <3>2. q[n] < c => Rank(S, q[n]) < Rank(S, c)
      BY <2>1, <2>2, RankFacts, Zenon
    <3>3. c \in Nat /\ q[n] \in Nat /\ n \in Nat
      <4>1. \A k \in S : k \in Nat
        OBVIOUS
      <4>2. n \in Nat
        OBVIOUS
      <4> QED BY <2>1, <2>2, <4>1, <4>2, Zenon
    <3>4. ~(n < n)
      BY <3>3
    <3> QED BY <2>1, <2>2, <3>1, <3>2, <3>3, <3>4, Zenon
  <2>4. c = q[n]
    BY <2>3
  <2> QED BY <2>4 DEF c
<1>3. Listed(S) = [n \in 1 .. Cardinality(S) |-> q[n]]
  BY <1>2, Zenon DEF Listed
<1>4. q = [n \in 1 .. Len(q) |-> q[n]]
  BY <1>1
<1> QED BY <1>1, <1>3, <1>4, Zenon

(* A position above all others goes to the end of the list.                *)
LEMMA ListsAdd ==
  ASSUME NEW N \in Nat, NEW S \in SUBSET (1 .. N), NEW q, Lists(q, S),
         NEW j \in Nat, \A k \in S : k < j
  PROVE  Lists(Append(q, j), S \cup {j})
<1>0. (\A k \in S : k \in Nat /\ k < j /\ k <= j /\ ~(j <= k)) /\ j <= j
  <2> SUFFICES ASSUME NEW k \in S PROVE k \in Nat /\ k < j /\ k <= j /\ ~(j <= k)
    OBVIOUS
  <2>1. k \in Nat /\ k < j
    OBVIOUS
  <2> QED BY <2>1
<1> DEFINE R == S \cup {j}
           p == Append(q, j)
<1>1. /\ q \in Seq(S) /\ Len(q) = Cardinality(S) /\ Len(q) \in Nat
      /\ \A n \in 1 .. Len(q) : q[n] \in S /\ Rank(S, q[n]) = n
  BY DEF Lists
<1>2. j \notin S
  BY <1>0, Zenon
<1>3. Cardinality(R) = Cardinality(S) + 1
  BY <1>2, RankFacts, FS_AddElement
<1>4. p \in Seq(R) /\ Len(p) = Len(q) + 1 /\ p[Len(q) + 1] = j
      /\ \A n \in 1 .. Len(q) : p[n] = q[n]
  BY <1>1
<1>5. {l \in R : l <= j} = R
  BY <1>0, Zenon
<1>6. \A k \in S : {l \in R : l <= k} = {l \in S : l <= k}
  BY <1>0, Zenon
<1>7. Rank(R, j) = Len(q) + 1 /\ \A k \in S : Rank(R, k) = Rank(S, k)
  BY <1>1, <1>3, <1>5, <1>6, Zenon DEF Rank
<1> HIDE DEF R, p
<1>8. ASSUME NEW n \in 1 .. Len(p) PROVE Rank(R, p[n]) = n
  <2>1. n \in 1 .. Len(q) \/ n = Len(q) + 1
    BY <1>1, <1>4
  <2> QED BY <1>1, <1>4, <1>7, <2>1, Zenon
<1>9. Len(p) = Cardinality(R)
  BY <1>1, <1>3, <1>4, Zenon
<1> QED BY <1>4, <1>8, <1>9, Zenon DEF Lists, R, p

(* Every set of positions is listed, by induction over their bound.        *)
LEMMA ListsAll ==
  ASSUME NEW N \in Nat, NEW S \in SUBSET (1 .. N) PROVE Lists(Listed(S), S)
<1>0. \A k \in S : k \in Nat /\ 1 <= k /\ k <= N
  OBVIOUS
<1> DEFINE Up(n) == {k \in S : k <= n}
           T == {n \in Nat : ~Lists(Listed(Up(n)), Up(n))}
<1>1. ASSUME NEW n \in Nat PROVE Up(n) \in SUBSET (1 .. n)
  <2> SUFFICES ASSUME NEW k \in S, k <= n PROVE k \in 1 .. n
    BY Zenon
  <2>1. k \in Nat /\ 1 <= k
    BY <1>0, Zenon
  <2> QED BY <2>1
<1>2. SUFFICES ASSUME T # {} PROVE FALSE
  <2>1. Up(N) = S
    BY <1>0, Zenon
  <2>2. N \notin T
    BY <1>2, Zenon
  <2> QED BY <2>1, <2>2, Zenon
<1>3. PICK m \in T : \A k \in T : m <= k
  <2>1. T \in SUBSET Nat
    BY Zenon
  <2> HIDE DEF T
  <2> QED BY <1>2, <2>1, LeastElement, Zenon
<1>4. m \in Nat /\ ~Lists(Listed(Up(m)), Up(m))
  BY <1>3, Zenon
<1>5. \A n \in Nat : ~(m <= n) => Lists(Listed(Up(n)), Up(n))
  BY <1>3, Zenon
<1> HIDE DEF T
<1>6. CASE m = 0
  <2>1. Up(0) = {}
    <3>1. \A k \in S : ~(k <= 0)
      BY <1>0
    <3> QED BY <3>1, Zenon
  <2>2. Lists(<<>>, {})
    BY FS_EmptySet DEF Lists
  <2>3. Listed({}) = <<>>
    <3>1. {} \in SUBSET (1 .. 0) /\ 0 \in Nat
      OBVIOUS
    <3> QED BY <2>2, <3>1, ListedIs, Zenon
  <2> QED BY <1>4, <1>6, <2>1, <2>2, <2>3, Zenon
<1>7. CASE m # 0
  <2> DEFINE n == m - 1
  <2>1. n \in Nat /\ ~(m <= n) /\ \A k \in Nat : k <= m <=> k <= n \/ k = m
    BY <1>4, <1>7
  <2>2. \A k \in Nat : k <= n => k < m
    BY <1>4, <1>7
  <2> HIDE DEF n
  <2> DEFINE A == Up(n)
  <2>3. Lists(Listed(A), A) /\ A \in SUBSET (1 .. n) /\ \A k \in A : k < m
    BY <1>0, <1>1, <1>5, <2>1, <2>2, Zenon
  <2>4. CASE m \in S
    <3>1. Up(m) = A \cup {m}
      <4>1. Up(m) \subseteq A \cup {m}
        BY <1>0, <2>1, Zenon
      <4>2. A \cup {m} \subseteq Up(m)
        BY <1>0, <1>4, <2>1, <2>4, Zenon
      <4> QED BY <4>1, <4>2, Zenon
    <3>2. A \cup {m} \in SUBSET (1 .. m)
      BY <1>1, <1>4, <3>1, Zenon
    <3> HIDE DEF A
    <3>3. Lists(Append(Listed(A), m), A \cup {m})
      BY <1>4, <2>1, <2>3, ListsAdd, Zenon
    <3>4. Listed(A \cup {m}) = Append(Listed(A), m)
      BY <1>4, <3>2, <3>3, ListedIs, Zenon
    <3> QED BY <1>4, <3>1, <3>3, <3>4, Zenon
  <2>5. CASE m \notin S
    <3>1. Up(m) = A
      <4>1. Up(m) \subseteq A
        BY <1>0, <2>1, <2>5, Zenon
      <4>2. A \subseteq Up(m)
        BY <1>0, <2>1, Zenon
      <4> QED BY <4>1, <4>2, Zenon
    <3> QED BY <1>4, <2>3, <3>1, Zenon
  <2> QED BY <2>4, <2>5
<1> QED BY <1>6, <1>7

(* What is listed, and that a later position comes last.                   *)
LEMMA ListedFacts ==
  ASSUME NEW N \in Nat, NEW S \in SUBSET (1 .. N)
  PROVE  /\ Listed(S) \in Seq(S)
         /\ Listed(S \cup {N + 1}) = Append(Listed(S), N + 1)
<1>1. Lists(Listed(S), S)
  BY ListsAll, Zenon
<1> DEFINE j == N + 1
<1>2. j \in Nat /\ \A k \in S : k < j
  <2> SUFFICES ASSUME NEW k \in S PROVE k < N + 1
    OBVIOUS
  <2>1. k \in 1 .. N
    OBVIOUS
  <2> QED BY <2>1
<1>3. S \cup {j} \in SUBSET (1 .. j)
  OBVIOUS
<1> HIDE DEF j
<1>4. Lists(Append(Listed(S), j), S \cup {j})
  BY <1>1, <1>2, ListsAdd, Zenon
<1>5. Listed(S \cup {j}) = Append(Listed(S), j)
  BY <1>2, <1>3, <1>4, ListedIs, Zenon
<1> QED BY <1>1, <1>5, Zenon DEF Lists, j

(* What a sequence has at the positions of S.                              *)
LEMMA SubsequenceFacts ==
  ASSUME NEW N \in Nat, NEW S \in SUBSET (1 .. N), NEW q, NEW X,
         \A k \in S : q[k] \in X
  PROVE  /\ Subsequence(q, S) \in Seq(X)
         /\ Subsequence(q, S \cup {N + 1}) = Append(Subsequence(q, S), q[N + 1])
<1> DEFINE at == Listed(S)
           more == Listed(S \cup {N + 1})
           sub == Subsequence(q, S)
<1>1. at \in Seq(S) /\ more = Append(at, N + 1)
  BY ListedFacts, Zenon
<1>2. Len(at) \in Nat /\ DOMAIN at = 1 .. Len(at) /\ \A n \in 1 .. Len(at) : at[n] \in S
  BY <1>1
<1>3. sub = [n \in 1 .. Len(at) |-> q[at[n]]]
  BY <1>2, Zenon DEF Subsequence
<1>4. Subsequence(q, S \cup {N + 1}) = [n \in DOMAIN more |-> q[more[n]]]
  BY Zenon DEF Subsequence
<1> HIDE DEF at, more, sub
<1>5. sub \in Seq(X) /\ Len(sub) = Len(at)
  <2>1. \A n \in 1 .. Len(at) : q[at[n]] \in X
    BY <1>2, Zenon
  <2> QED BY <1>2, <1>3, <2>1
<1>6. /\ DOMAIN more = 1 .. (Len(at) + 1) /\ more[Len(at) + 1] = N + 1
      /\ \A n \in 1 .. Len(at) : more[n] = at[n]
  BY <1>1, <1>2
<1> DEFINE r == [n \in 1 .. (Len(at) + 1) |-> q[more[n]]]
<1>7. r = Append(sub, q[N + 1])
  <2> DEFINE x == q[N + 1]
             Y == X \cup {x}
             z == Append(sub, x)
  <2>1. sub \in Seq(Y) /\ x \in Y
    BY <1>5
  <2> HIDE DEF x, Y
  <2>2. /\ z \in Seq(Y) /\ Len(z) = Len(at) + 1 /\ z[Len(at) + 1] = x
        /\ \A n \in 1 .. Len(at) : z[n] = sub[n]
    BY <1>5, <2>1
  <2> HIDE DEF z
  <2>3. z = [n \in 1 .. (Len(at) + 1) |-> z[n]]
    BY <2>2
  <2>4. ASSUME NEW n \in 1 .. (Len(at) + 1) PROVE z[n] = q[more[n]]
    <3>1. n \in 1 .. Len(at) \/ n = Len(at) + 1
      BY <1>2
    <3>2. CASE n \in 1 .. Len(at)
      BY <1>3, <1>6, <2>2, <3>2
    <3>3. CASE n = Len(at) + 1
      BY <1>6, <2>2, <3>3, Zenon DEF x
    <3> QED BY <3>1, <3>2, <3>3
  <2>5. z = r
    BY <2>3, <2>4, Zenon
  <2> QED BY <2>5, Zenon DEF z, x
<1> QED BY <1>4, <1>5, <1>6, <1>7, Zenon DEF sub

(* Two sequences that agree at the positions have the same there.          *)
LEMMA SubsequenceSame ==
  ASSUME NEW N \in Nat, NEW S \in SUBSET (1 .. N), NEW p, NEW q,
         \A k \in S : p[k] = q[k]
  PROVE  Subsequence(p, S) = Subsequence(q, S)
<1>1. Listed(S) \in Seq(S)
  BY ListedFacts, Zenon
<1> DEFINE at == Listed(S)
<1> HIDE DEF at
<1>2. \A n \in DOMAIN at : at[n] \in S
  BY <1>1 DEF at
<1>3. \A n \in DOMAIN at : p[at[n]] = q[at[n]]
  BY <1>2, Zenon
<1> QED BY <1>3, Zenon DEF Subsequence, at

----------------------------------------------------------------------------
(* Messages and their fragments.                                           *)

Commands == [op : {"text", "binary"}, payload : Seq(Piece)]
Outs ==
  [op : {"text", "binary", "pong", "close"}, payload : Seq(Piece)]
  \cup [op : {"push"}, payload : Nat]

(* The frame that began the message.                                       *)
LEMMA BeginningFacts ==
  ASSUME NEW fs \in Seq(Frames), NEW j \in 1 .. Len(fs),
         \E k \in 1 .. j : Begins(fs[k])
  PROVE  LET i == Beginning(fs, j)
         IN  i \in 1 .. j /\ Begins(fs[i]) /\ \A k \in 1 .. j : Begins(fs[k]) => k <= i
<1> DEFINE B == {k \in 1 .. j : Begins(fs[k])}
<1>1. j \in Nat /\ B \in SUBSET (1 .. j) /\ B # {}
  <2>1. j \in Nat
    OBVIOUS
  <2> QED BY <2>1, Zenon
<1>2. Max(B) \in B /\ \A k \in B : k <= Max(B)
  <2> HIDE DEF B
  <2> QED BY <1>1, MaxFacts, Zenon
<1> QED BY <1>2, Zenon DEF Beginning

(* A message is of one of two kinds.                                       *)
LEMMA MessageFacts ==
  ASSUME NEW fs \in Seq(Frames), NEW j \in 1 .. Len(fs),
         \E k \in 1 .. j : Begins(fs[k])
  PROVE  /\ Message(fs, j) \in Commands
         /\ Message(fs, j).op = fs[Beginning(fs, j)].op
<1> DEFINE i == Beginning(fs, j)
           S == {k \in i .. j : IsData(fs[k])}
           data == Subsequence(fs, S)
           p == [n \in DOMAIN data |-> data[n].piece]
<1>1. i \in 1 .. j /\ Begins(fs[i])
  BY BeginningFacts, Zenon
<1>2. Message(fs, j) = Sent(fs[i].op, p)
  BY Zenon DEF Message
<1> HIDE DEF i
<1>3. j \in Nat /\ S \in SUBSET (1 .. j)
  BY <1>1
<1>4. \A k \in S : fs[k] \in Frames
  BY <1>3
<1> HIDE DEF S
<1>5. data \in Seq(Frames)
  BY <1>3, <1>4, SubsequenceFacts, Zenon
<1> HIDE DEF data
<1>6. p \in Seq(Piece)
  <2>1. Len(data) \in Nat /\ DOMAIN data = 1 .. Len(data)
        /\ \A n \in 1 .. Len(data) : data[n] \in Frames
    BY <1>5
  <2>2. \A n \in 1 .. Len(data) : data[n].piece \in Piece
    BY <2>1 DEF Frames
  <2> QED BY <2>1, <2>2
<1> HIDE DEF p
<1>7. fs[i].op \in {"text", "binary"}
  BY <1>1, Zenon DEF Begins
<1> QED BY <1>2, <1>6, <1>7 DEF Sent, Commands, i

(* What is said of frame j depends on the frames up to j only.             *)
LEMMA Earlier ==
  ASSUME NEW fs \in Seq(Frames), NEW gs \in Seq(Frames),
         Len(fs) <= Len(gs), \A k \in 1 .. Len(fs) : gs[k] = fs[k]
  PROVE  /\ \A j \in 1 .. (Len(fs) + 1) : Open(gs, j) <=> Open(fs, j)
         /\ \A j \in 1 .. Len(fs) :
              /\ Completes(gs, j) <=> Completes(fs, j)
              /\ Fails(gs, j) <=> Fails(fs, j)
              /\ (\E k \in 1 .. j : Begins(fs[k])) =>
                   Message(gs, j) = Message(fs, j) /\ Beginning(gs, j) = Beginning(fs, j)
<1>0. Len(fs) \in Nat
  OBVIOUS
<1>1. ASSUME NEW j \in 1 .. (Len(fs) + 1) PROVE Open(gs, j) <=> Open(fs, j)
  <2>1. \A i \in 1 .. (j - 1) : gs[i] = fs[i]
    BY <1>0
  <2>2. \A i \in 1 .. (j - 1) : \A k \in i .. (j - 1) : gs[k] = fs[k]
    BY <1>0
  <2> QED BY <2>1, <2>2, Zenon DEF Open
<1>2. ASSUME NEW j \in 1 .. Len(fs), \E k \in 1 .. j : Begins(fs[k])
      PROVE  Message(gs, j) = Message(fs, j) /\ Beginning(gs, j) = Beginning(fs, j)
  <2>1. \A k \in 1 .. j : gs[k] = fs[k]
    BY <1>0
  <2>2. {k \in 1 .. j : Begins(gs[k])} = {k \in 1 .. j : Begins(fs[k])}
    BY <2>1, Zenon
  <2> DEFINE i == Beginning(fs, j)
             S == {k \in i .. j : IsData(fs[k])}
  <2>3. Beginning(gs, j) = i
    BY <2>2, Zenon DEF Beginning
  <2>4. i \in 1 .. j
    BY <1>2, BeginningFacts, Zenon
  <2> HIDE DEF i
  <2>5. \A k \in i .. j : gs[k] = fs[k]
    BY <1>0, <2>4
  <2>6. {k \in i .. j : IsData(gs[k])} = S
    BY <2>5, Zenon
  <2>7. j \in Nat /\ S \in SUBSET (1 .. j) /\ \A k \in S : gs[k] = fs[k]
    <3>1. j \in Nat /\ \A k \in i .. j : k \in 1 .. j
      BY <2>4
    <3> QED BY <2>5, <3>1, Zenon
  <2> HIDE DEF S
  <2>8. Subsequence(gs, S) = Subsequence(fs, S)
    BY <2>7, SubsequenceSame, Zenon
  <2>9. gs[i] = fs[i]
    BY <2>1, <2>4, Zenon
  <2>10. Message(fs, j) =
           Sent(fs[i].op, [n \in DOMAIN Subsequence(fs, S) |-> Subsequence(fs, S)[n].piece])
    BY Zenon DEF Message, i, S
  <2>11. Message(gs, j) =
           Sent(gs[i].op, [n \in DOMAIN Subsequence(gs, S) |-> Subsequence(gs, S)[n].piece])
    BY <2>3, <2>6, Zenon DEF Message
  <2> QED BY <2>3, <2>8, <2>9, <2>10, <2>11, Zenon DEF i
<1>3. ASSUME NEW j \in 1 .. Len(fs)
      PROVE  /\ Completes(gs, j) <=> Completes(fs, j)
             /\ Fails(gs, j) <=> Fails(fs, j)
  <2>1. gs[j] = fs[j] /\ (Open(gs, j) <=> Open(fs, j))
    <3>1. j \in 1 .. (Len(fs) + 1)
      BY <1>0
    <3> QED BY <1>1, <3>1, Zenon
  <2>2. Completes(gs, j) <=> Completes(fs, j)
    BY <2>1, Zenon DEF Completes
  <2>3. Completes(fs, j) => \E k \in 1 .. j : Begins(fs[k])
    <3>1. \A k \in 1 .. (j - 1) : k \in 1 .. j
      OBVIOUS
    <3>2. j \in 1 .. j
      OBVIOUS
    <3> QED BY <3>1, <3>2, Zenon DEF Completes, Open, IsData
  <2>4. Completes(fs, j) => Message(gs, j) = Message(fs, j)
    BY <1>2, <2>3, Zenon
  <2>5. (Completes(gs, j) /\ ~IsText(Message(gs, j))) <=> (Completes(fs, j) /\ ~IsText(Message(fs, j)))
    BY <2>2, <2>4, Zenon
  <2>6. Open(gs, j) \in BOOLEAN /\ Open(fs, j) \in BOOLEAN
    BY Zenon DEF Open
  <2>7. Open(gs, j) = Open(fs, j)
    BY <2>1, <2>6
  <2> QED BY <2>1, <2>2, <2>5, <2>7, Zenon DEF Fails
<1> QED BY <1>1, <1>2, <1>3

(* Nothing is found at no position.                                        *)
LEMMA SubsequenceNone == ASSUME NEW q PROVE Subsequence(q, {}) = <<>>
<1>1. 0 \in Nat /\ {} \in SUBSET (1 .. 0) /\ \A k \in {} : q[k] \in {}
  OBVIOUS
<1>2. Subsequence(q, {}) \in Seq({})
  BY <1>1, SubsequenceFacts, Zenon
<1> QED BY <1>2

(* The pieces of the frames of a message, and of one frame more.           *)
LEMMA PiecesAppend ==
  ASSUME NEW d \in Seq(Frames), NEW f \in Frames
  PROVE  LET p == [n \in DOMAIN d |-> d[n].piece]
             e == Append(d, f)
         IN  p \in Seq(Piece) /\ [n \in DOMAIN e |-> e[n].piece] = Append(p, f.piece)
<1> DEFINE p == [n \in DOMAIN d |-> d[n].piece]
           e == Append(d, f)
           g == [n \in DOMAIN e |-> e[n].piece]
           h == Append(p, f.piece)
<1>1. Len(d) \in Nat /\ DOMAIN d = 1 .. Len(d) /\ \A n \in 1 .. Len(d) : d[n] \in Frames
  OBVIOUS
<1>2. f.piece \in Piece /\ \A n \in 1 .. Len(d) : d[n].piece \in Piece
  BY <1>1 DEF Frames
<1>3. p \in Seq(Piece) /\ Len(p) = Len(d) /\ \A n \in 1 .. Len(d) : p[n] = d[n].piece
  BY <1>1, <1>2
<1>4. e \in Seq(Frames) /\ DOMAIN e = 1 .. (Len(d) + 1) /\ e[Len(d) + 1] = f
      /\ \A n \in 1 .. Len(d) : e[n] = d[n]
  BY <1>1
<1> HIDE DEF p
<1>5. h \in Seq(Piece) /\ Len(h) = Len(d) + 1 /\ h[Len(d) + 1] = f.piece
      /\ \A n \in 1 .. Len(d) : h[n] = p[n]
  BY <1>2, <1>3
<1> HIDE DEF e, h
<1>6. h = [n \in 1 .. (Len(d) + 1) |-> h[n]]
  BY <1>1, <1>5
<1>7. \A n \in 1 .. (Len(d) + 1) : n = Len(d) + 1 \/ n \in 1 .. Len(d)
  BY <1>1
<1>8. \A n \in 1 .. (Len(d) + 1) : h[n] = e[n].piece
  BY <1>3, <1>4, <1>5, <1>7, Zenon
<1>9. g = h
  BY <1>4, <1>6, <1>8, Zenon
<1> QED BY <1>3, <1>9, Zenon DEF p, e, h

(* A message is open: one has begun.                                       *)
LEMMA OpenBegan ==
  ASSUME NEW fs \in Seq(Frames), Open(fs, Len(fs) + 1)
  PROVE  Len(fs) \in 1 .. Len(fs) /\ \E k \in 1 .. Len(fs) : Begins(fs[k])
<1>1. Len(fs) \in Nat
  OBVIOUS
<1>2. (Len(fs) + 1) - 1 = Len(fs)
  BY <1>1
<1>3. \E k \in 1 .. Len(fs) : Begins(fs[k])
  BY <1>2, Zenon DEF Open
<1>4. \A k \in 1 .. Len(fs) : Len(fs) \in 1 .. Len(fs)
  BY <1>1
<1> QED BY <1>3, <1>4, Zenon

(* What a frame more adds to the message that is open.                     *)
LEMMA NextMessage ==
  ASSUME NEW fs \in Seq(Frames), NEW f \in Frames
  PROVE  LET n == Len(fs)
             gs == Append(fs, f)
         IN  /\ Begins(f) => Message(gs, n + 1) = Sent(f.op, <<f.piece>>)
             /\ ~Begins(f) /\ (\E k \in 1 .. n : Begins(fs[k])) =>
                  /\ IsData(f) => /\ Message(gs, n + 1).op = Message(fs, n).op
                                  /\ Message(gs, n + 1).payload
                                       = Append(Message(fs, n).payload, f.piece)
                                  /\ Message(gs, n + 1) \in Commands
                  /\ ~IsData(f) => Message(gs, n + 1) = Message(fs, n)
<1> DEFINE n == Len(fs)
           gs == Append(fs, f)
<1>0. n \in Nat /\ gs \in Seq(Frames) /\ Len(gs) = n + 1 /\ gs[n + 1] = f /\ n + 1 \in 1 .. (n + 1)
      /\ \A k \in 1 .. n : gs[k] = fs[k]
  OBVIOUS
<1>0a. \A k \in 1 .. n + 1 : k \in 1 .. n \/ k = n + 1
  BY <1>0
<1>0b. \A k \in 1 .. n : k \in 1 .. (n + 1)
  BY <1>0
<1>0c. n + 1 \in 1 .. Len(gs)
  BY <1>0
<1> HIDE DEF gs
<1>1. ASSUME Begins(f) PROVE Message(gs, n + 1) = Sent(f.op, <<f.piece>>)
  <2> DEFINE i == Beginning(gs, n + 1)
             S == {k \in i .. (n + 1) : IsData(gs[k])}
  <2>1. \E k \in 1 .. (n + 1) : Begins(gs[k])
    BY <1>0, <1>1, Zenon
  <2>2. i \in 1 .. (n + 1) /\ (n + 1 <= i)
    BY <1>0, <1>0c, <1>1, <2>1, BeginningFacts, Zenon
  <2>2a. Message(gs, n + 1) =
           Sent(gs[i].op, [k \in DOMAIN Subsequence(gs, S) |-> Subsequence(gs, S)[k].piece])
    BY Zenon DEF Message
  <2> HIDE DEF i
  <2>3. i = n + 1
    BY <1>0, <2>2
  <2>4. \A k \in i .. (n + 1) : k = n + 1
    BY <1>0, <2>3
  <2>5. n + 1 \in i .. (n + 1)
    BY <1>0, <2>3
  <2>6. S = {} \cup {n + 1}
    BY <1>0, <1>1, <2>4, <2>5, Zenon DEF IsData
  <2> HIDE DEF S
  <2>7. {} \in SUBSET (1 .. n) /\ \A k \in {} : gs[k] \in Frames
    BY Zenon
  <2>8. Subsequence(gs, S) = Append(<<>>, f)
    <3> HIDE DEF n
    <3>1. Subsequence(gs, {} \cup {n + 1}) = Append(Subsequence(gs, {}), gs[n + 1])
      BY <1>0, <2>7, SubsequenceFacts, Zenon
    <3> QED BY <1>0, <2>6, <3>1, SubsequenceNone, Zenon
  <2>9. [k \in DOMAIN Append(<<>>, f) |-> Append(<<>>, f)[k].piece] = <<f.piece>>
    OBVIOUS
  <2> QED BY <1>0, <2>2a, <2>3, <2>8, <2>9, Zenon
<1>2. ASSUME ~Begins(f), \E k \in 1 .. n : Begins(fs[k])
      PROVE  /\ IsData(f) => /\ Message(gs, n + 1).op = Message(fs, n).op
                             /\ Message(gs, n + 1).payload = Append(Message(fs, n).payload, f.piece)
                             /\ Message(gs, n + 1) \in Commands
             /\ ~IsData(f) => Message(gs, n + 1) = Message(fs, n)
  <2> DEFINE i == Beginning(fs, n)
             S == {k \in i .. n : IsData(fs[k])}
             d == Subsequence(fs, S)
             T == {k \in i .. (n + 1) : IsData(gs[k])}
             e == Subsequence(gs, T)
  <2>1. {k \in 1 .. (n + 1) : Begins(gs[k])} = {k \in 1 .. n : Begins(fs[k])}
    BY <1>0, <1>0a, <1>0b, <1>2, Zenon
  <2>2. Beginning(gs, n + 1) = i
    BY <2>1, Zenon DEF Beginning
  <2>3. n \in 1 .. n
    BY <1>0, <1>2
  <2>4. i \in 1 .. n
    BY <1>2, <2>3, BeginningFacts, Zenon
  <2>5. Message(fs, n) = Sent(fs[i].op, [k \in DOMAIN d |-> d[k].piece])
    BY Zenon DEF Message
  <2>6. Message(gs, n + 1) = Sent(gs[i].op, [k \in DOMAIN e |-> e[k].piece])
    BY <2>2, Zenon DEF Message
  <2> HIDE DEF i
  <2>7. S \in SUBSET (1 .. n) /\ (n + 1) \in i .. (n + 1)
        /\ (\A k \in i .. n : k \in i .. (n + 1) /\ k \in 1 .. n)
        /\ \A k \in i .. (n + 1) : k \in i .. n \/ k = n + 1
    BY <1>0, <2>4
  <2>8. \A k \in S : gs[k] = fs[k]
    BY <1>0, <2>7, Zenon
  <2>9. \A k \in S : gs[k] \in Frames
    <3>1. \A k \in 1 .. n : fs[k] \in Frames
      OBVIOUS
    <3> QED BY <2>7, <2>8, <3>1, Zenon
  <2>10. T = IF IsData(f) THEN S \cup {n + 1} ELSE S
    <3>1. \A k \in i .. n : gs[k] = fs[k]
      BY <1>0, <2>7, Zenon
    <3>2. CASE IsData(f)
      BY <1>0, <2>7, <3>1, <3>2, Zenon
    <3>3. CASE ~IsData(f)
      BY <1>0, <2>7, <3>1, <3>3, Zenon
    <3> QED BY <3>2, <3>3, Zenon
  <2> HIDE DEF S, T
  <2>11. Subsequence(gs, S) = d
    <3> HIDE DEF n
    <3> QED BY <1>0, <2>7, <2>8, SubsequenceSame, Zenon
  <2>12. d \in Seq(Frames) /\ Subsequence(gs, S \cup {n + 1}) = Append(d, f)
    <3> HIDE DEF n
    <3> QED BY <1>0, <2>7, <2>9, <2>11, SubsequenceFacts, Zenon
  <2>13. gs[i] = fs[i]
    BY <1>0, <2>4, Zenon
  <2>14. e = IF IsData(f) THEN Append(d, f) ELSE d
    BY <2>10, <2>11, <2>12, Zenon
  <2> HIDE DEF d, e
  <2>15. CASE IsData(f)
    <3> DEFINE p == [k \in DOMAIN d |-> d[k].piece]
    <3>1. p \in Seq(Piece) /\ [k \in DOMAIN e |-> e[k].piece] = Append(p, f.piece)
      BY <2>12, <2>14, <2>15, PiecesAppend, Zenon
    <3>2. Message(gs, n + 1) = Sent(fs[i].op, Append(p, f.piece))
      BY <2>6, <2>13, <3>1, Zenon
    <3>3. Message(gs, n + 1) \in Commands
      <4>1. \E k \in 1 .. (n + 1) : Begins(gs[k])
        BY <1>0, <1>0b, <1>2, Zenon
      <4> QED BY <1>0, <1>0c, <4>1, MessageFacts, Zenon
    <3> HIDE DEF p
    <3>5. Message(fs, n) = Sent(fs[i].op, p)
      BY <2>5, Zenon DEF p
    <3>6. /\ Message(gs, n + 1).op = fs[i].op /\ Message(gs, n + 1).payload = Append(p, f.piece)
          /\ Message(fs, n).op = fs[i].op /\ Message(fs, n).payload = p
      BY <3>2, <3>5 DEF Sent
    <3>7. /\ Message(gs, n + 1).op = Message(fs, n).op
          /\ Message(gs, n + 1).payload = Append(Message(fs, n).payload, f.piece)
      BY <3>6
    <3> QED BY <2>15, <3>3, <3>7, Zenon
  <2>16. CASE ~IsData(f)
    BY <2>5, <2>6, <2>13, <2>14, <2>16, Zenon
  <2> QED BY <2>15, <2>16, Zenon
<1> QED BY <1>1, <1>2, Zenon DEF gs

(* Whether a message is open after a frame more.                           *)
LEMMA NextOpen ==
  ASSUME NEW fs \in Seq(Frames), NEW f \in Frames
  PROVE  LET n == Len(fs)
             gs == Append(fs, f)
         IN  /\ Open(gs, n + 1) <=> Open(fs, n + 1)
             /\ Open(gs, n + 2) <=> ~(IsData(f) /\ f.fin) /\ (Begins(f) \/ Open(fs, n + 1))
<1> DEFINE n == Len(fs)
           gs == Append(fs, f)
           M(i) == Begins(gs[i]) /\ \A k \in i .. n + 1 : ~(IsData(gs[k]) /\ gs[k].fin)
           L(i) == Begins(fs[i]) /\ \A k \in i .. n : ~(IsData(fs[k]) /\ fs[k].fin)
<1>1. n \in Nat /\ gs \in Seq(Frames) /\ gs[n + 1] = f /\ n <= Len(gs)
      /\ (\A k \in 1 .. n : gs[k] = fs[k])
      /\ (n + 1) - 1 = n /\ (n + 2) - 1 = n + 1 /\ n + 1 \in 1 .. (n + 1)
  OBVIOUS
<1>2. \A i \in 1 .. (n + 1) : i \in 1 .. n \/ i = n + 1
  BY <1>1
<1>3. \A i \in 1 .. n : i \in 1 .. (n + 1) /\ (n + 1) \in i .. (n + 1)
        /\ (\A k \in i .. n : k \in 1 .. n /\ k \in i .. (n + 1))
        /\ (\A k \in i .. (n + 1) : k \in i .. n \/ k = n + 1)
  BY <1>1
<1>4. \A k \in (n + 1) .. (n + 1) : k = n + 1
  BY <1>1
<1>5. (n + 1) \in (n + 1) .. (n + 1)
  BY <1>1
<1> HIDE DEF n, gs
<1>6. Open(gs, n + 2) <=> \E i \in 1 .. (n + 1) : M(i)
  BY <1>1, Zenon DEF Open
<1>7. Open(fs, n + 1) <=> \E i \in 1 .. n : L(i)
  BY <1>1, Zenon DEF Open
<1>8. \A i \in 1 .. n : M(i) <=> L(i) /\ ~(IsData(f) /\ f.fin)
  BY <1>1, <1>3, Zenon
<1>9. M(n + 1) <=> Begins(f) /\ ~(IsData(f) /\ f.fin)
  BY <1>1, <1>4, <1>5, Zenon
<1> HIDE DEF M, L
<1>10. Open(gs, n + 2) <=> ~(IsData(f) /\ f.fin) /\ (Begins(f) \/ Open(fs, n + 1))
  BY <1>1, <1>2, <1>3, <1>6, <1>7, <1>8, <1>9, Zenon
<1>11. Open(gs, n + 1) <=> Open(fs, n + 1)
  BY <1>1, Earlier, Zenon DEF n
<1> QED BY <1>10, <1>11, Zenon DEF n, gs

(* The session's command is the message that is open.                      *)
Tracks(fs, m) ==
  IF Open(fs, Len(fs) + 1) THEN m = Message(fs, Len(fs)) ELSE m = Unknown

(* socket_read does with one frame what the protocol makes of it.          *)
Answers(gs, f, r) ==
  LET n == Len(gs)
  IN  /\ r.done \in BOOLEAN /\ (r.done <=> Fails(gs, n))
      /\ r.done => r.send = <<Sent("close", <<>>)>>
      /\ ~r.done /\ Completes(gs, n) =>
           r.send = <<Message(gs, n)>> /\ Message(gs, n) \in Commands
      /\ ~r.done /\ ~Completes(gs, n) => r.send \in {<<>>, <<Sent("pong", <<f.piece>>)>>}
      /\ ~r.done => Tracks(gs, r.command)

(* check_message_complete, for the message that frame f continues.         *)
LEMMA CompleteAnswers ==
  ASSUME NEW gs \in Seq(Frames), NEW f \in Frames, gs # <<>>, gs[Len(gs)] = f,
         IsData(f), (f.op = "continuation") <=> Open(gs, Len(gs)),
         Open(gs, Len(gs) + 1) <=> ~f.fin,
         Message(gs, Len(gs)) \in Commands
  PROVE  Answers(gs, f, check_message_complete(f, Message(gs, Len(gs))))
<1> DEFINE n == Len(gs)
           m == Message(gs, n)
           r == check_message_complete(f, m)
<1>1. Completes(gs, n) <=> f.fin
  BY Zenon DEF Completes
<1>2. Fails(gs, n) <=> f.fin /\ ~IsText(m)
  <2>1. f.op \notin {"bad", "close", "ping", "pong"}
    BY DEF IsData, Begins
  <2>2. (f.op = "continuation") \in BOOLEAN /\ Open(gs, n) \in BOOLEAN
    BY Zenon DEF Open
  <2>3. (f.op = "continuation") = Open(gs, n)
    BY <2>2
  <2> QED BY <1>1, <2>1, <2>3, Zenon DEF Fails
<1>3. f.fin \in BOOLEAN
  BY DEF Frames
<1>4. m \in Commands
  OBVIOUS
<1>5. Sent(m.op, m.payload) = m
  <2> HIDE DEF m
  <2> QED BY <1>4 DEF Sent, Commands
<1>6. (m.op = "text" /\ ~is_valid_utf8(m.payload)) <=> ~IsText(m)
  BY Zenon DEF IsText
<1>7. Tracks(gs, IF f.fin THEN Unknown ELSE m)
  BY <1>3, Zenon DEF Tracks
<1> HIDE DEF m
<1>8. CASE ~f.fin
  <2>1. r = Reply(<<>>, m, FALSE)
    BY <1>8, Zenon DEF check_message_complete
  <2>2. r.done = FALSE /\ r.send = <<>> /\ r.command = m
    BY <2>1 DEF Reply
  <2> HIDE DEF r
  <2>3. Answers(gs, f, r)
    BY <1>1, <1>2, <1>7, <1>8, <2>2, Zenon DEF Answers, m
  <2> QED BY <2>3 DEF r, m
<1>9. CASE f.fin /\ ~IsText(m)
  <2>1. r = Reply(<<Sent("close", <<>>)>>, m, TRUE)
    BY <1>6, <1>9, Zenon DEF check_message_complete
  <2>2. r.done = TRUE /\ r.send = <<Sent("close", <<>>)>>
    BY <2>1 DEF Reply
  <2> HIDE DEF r
  <2>3. Answers(gs, f, r)
    BY <1>1, <1>2, <1>9, <2>2, Zenon DEF Answers
  <2> QED BY <2>3 DEF r, m
<1>10. CASE f.fin /\ IsText(m)
  <2>1. r = Reply(<<m>>, Unknown, FALSE)
    BY <1>5, <1>6, <1>10, Zenon DEF check_message_complete
  <2>2. r.done = FALSE /\ r.send = <<m>> /\ r.command = Unknown
    BY <2>1 DEF Reply
  <2> HIDE DEF r
  <2>3. Answers(gs, f, r)
    BY <1>1, <1>2, <1>4, <1>7, <1>10, <2>2, Zenon DEF Answers, m
  <2> QED BY <2>3 DEF r, m
<1> QED BY <1>3, <1>8, <1>9, <1>10, Zenon

(* socket_read, for every frame.                                           *)
LEMMA ReadAnswers ==
  ASSUME NEW fs \in Seq(Frames), NEW f \in Frames, NEW m, Tracks(fs, m)
  PROVE  Answers(Append(fs, f), f, socket_read(f, m))
<1> DEFINE n == Len(fs)
           gs == Append(fs, f)
           O == Open(fs, n + 1)
           r == socket_read(f, m)
<1>1. /\ n \in Nat /\ gs \in Seq(Frames) /\ gs # <<>> /\ Len(gs) = n + 1 /\ gs[n + 1] = f
      /\ (n + 1) + 1 = n + 2 /\ n + 1 \in 1 .. (n + 1)
  OBVIOUS
<1>2. (Open(gs, n + 1) <=> O) /\
      (Open(gs, n + 2) <=> ~(IsData(f) /\ f.fin) /\ (Begins(f) \/ O))
  BY NextOpen, Zenon
<1>3. /\ Begins(f) => Message(gs, n + 1) = Sent(f.op, <<f.piece>>)
      /\ ~Begins(f) /\ (\E k \in 1 .. n : Begins(fs[k])) =>
           /\ IsData(f) => /\ Message(gs, n + 1).op = Message(fs, n).op
                           /\ Message(gs, n + 1).payload = Append(Message(fs, n).payload, f.piece)
                           /\ Message(gs, n + 1) \in Commands
           /\ ~IsData(f) => Message(gs, n + 1) = Message(fs, n)
  BY NextMessage, Zenon
<1>4. O => (\E k \in 1 .. n : Begins(fs[k])) /\ m = Message(fs, n) /\ m \in Commands
  <2>1. O => n \in 1 .. Len(fs) /\ (\E k \in 1 .. n : Begins(fs[k])) /\ m = Message(fs, n)
    BY OpenBegan, Zenon DEF Tracks
  <2> QED BY <2>1, MessageFacts, Zenon
<1>5. ~O => m = Unknown
  BY Zenon DEF Tracks
<1>6. O \in BOOLEAN /\ f.fin \in BOOLEAN
      /\ f.op \in {"text", "binary", "continuation", "ping", "pong", "close", "bad"}
  BY DEF Frames, Open
<1> HIDE DEF O, gs
<1>7. (m = Unknown <=> ~O) /\ (is_control_frame_opcode(m.op) <=> ~O)
  <2>1. CASE O
    <3>1. m.op \in {"text", "binary"}
      BY <1>4, <2>1 DEF Commands
    <3> QED BY <2>1, <3>1 DEF is_control_frame_opcode, Unknown
  <2>2. CASE ~O
    BY <1>5, <2>2 DEF is_control_frame_opcode, Unknown
  <2> QED BY <2>1, <2>2
<1>8. Refused(f, m) <=> \/ f.op = "bad"
                        \/ f.op \in {"close", "ping", "pong"} /\ ~f.fin
                        \/ f.op = "continuation" /\ ~O
                        \/ Begins(f) /\ O
  <2>1. is_control_frame_opcode(f.op) <=> f.op \in {"close", "ping", "pong"}
    BY <1>6 DEF is_control_frame_opcode
  <2> QED BY <1>7, <2>1, Zenon DEF Refused, Begins
<1>9. Fails(gs, n + 1) <=> \/ f.op \in {"bad", "close"}
                           \/ f.op \in {"ping", "pong"} /\ ~f.fin
                           \/ IsData(f) /\ ((f.op = "continuation") # O)
                           \/ Completes(gs, n + 1) /\ ~IsText(Message(gs, n + 1))
  <2>1. Open(gs, n + 1) = O
    BY <1>2 DEF O, Open
  <2> QED BY <1>1, <2>1, Zenon DEF Fails
<1>10. ~IsData(f) => ~Completes(gs, n + 1)
  BY <1>1, Zenon DEF Completes
<1>11. IsData(f) <=> f.op \in {"text", "binary", "continuation"}
  BY Zenon DEF IsData, Begins
<1>12. ~IsData(f) => Tracks(gs, m)
  <2>1. ~IsData(f) => ~Begins(f) /\ (Open(gs, n + 2) <=> O)
    BY <1>2, Zenon DEF IsData
  <2>2. ~IsData(f) /\ O => m = Message(gs, n + 1)
    BY <1>3, <1>4, <2>1, Zenon
  <2>3. ~IsData(f) => IF Open(gs, n + 2) THEN m = Message(gs, n + 1) ELSE m = Unknown
    BY <1>5, <2>1, <2>2, Zenon
  <2> QED BY <1>1, <2>3, Zenon DEF Tracks
<1>13. CASE Refused(f, m) \/ f.op = "close"
  <2>1. r = Reply(<<Sent("close", <<>>)>>, m, TRUE)
    BY <1>13, Zenon DEF socket_read
  <2>2. r.done = TRUE /\ r.send = <<Sent("close", <<>>)>>
    BY <2>1 DEF Reply
  <2>3. Fails(gs, n + 1)
    BY <1>6, <1>8, <1>9, <1>11, <1>13 DEF Begins
  <2> HIDE DEF r, n
  <2>4. Answers(gs, f, r)
    BY <1>1, <2>2, <2>3, Zenon DEF Answers
  <2> QED BY <2>4 DEF r, gs
<1>14. ASSUME ~Refused(f, m), f.op \in {"ping", "pong"} PROVE Answers(gs, f, r)
  <2>1. r = Reply(IF f.op = "ping" THEN <<Sent("pong", <<f.piece>>)>> ELSE <<>>, m, FALSE)
    BY <1>14, Zenon DEF socket_read
  <2>2. r.done = FALSE /\ r.send \in {<<>>, <<Sent("pong", <<f.piece>>)>>} /\ r.command = m
    BY <2>1 DEF Reply
  <2>3. ~IsData(f) /\ ~Fails(gs, n + 1)
    BY <1>8, <1>9, <1>10, <1>11, <1>14
  <2> HIDE DEF r, n
  <2> QED BY <1>1, <1>10, <1>12, <2>2, <2>3, Zenon DEF Answers
<1>15. ASSUME ~Refused(f, m), IsData(f) PROVE Answers(gs, f, r)
  <2>1. (f.op = "continuation") <=> O
    BY <1>8, <1>11, <1>15 DEF Begins
  <2>2. Open(gs, n + 2) <=> ~f.fin
    BY <1>2, <1>15, <2>1, Zenon DEF IsData
  <2>3. r = check_message_complete(f, Message(gs, n + 1)) /\ Message(gs, n + 1) \in Commands
    <3>1. CASE f.op = "continuation"
      <4>1. ~Begins(f)
        BY <3>1 DEF Begins
      <4>2. O /\ m = Message(fs, n) /\ m \in Commands
        BY <1>4, <2>1, <3>1, Zenon
      <4>3. /\ Message(gs, n + 1).op = m.op
            /\ Message(gs, n + 1).payload = Append(m.payload, f.piece)
            /\ Message(gs, n + 1) \in Commands
        BY <1>3, <1>4, <1>15, <4>1, <4>2, Zenon
      <4>4. [m EXCEPT !.payload = Append(@, f.piece)] = Message(gs, n + 1)
        BY <4>2, <4>3, Zenon DEF Commands
      <4>5. r = check_message_complete(f, [m EXCEPT !.payload = Append(@, f.piece)])
        BY <1>15, <3>1 DEF socket_read
      <4> QED BY <4>3, <4>4, <4>5, Zenon
    <3>2. CASE Begins(f)
      <4>1. r = check_message_complete(f, [op |-> f.op, payload |-> <<f.piece>>])
        BY <1>15, <3>2, Zenon DEF socket_read, Begins
      <4>2. Sent(f.op, <<f.piece>>) = [op |-> f.op, payload |-> <<f.piece>>]
        BY DEF Sent
      <4>3. Sent(f.op, <<f.piece>>) \in Commands
        BY <3>2 DEF Sent, Commands, Begins, Frames
      <4> QED BY <1>3, <3>2, <4>1, <4>2, <4>3, Zenon
    <3> QED BY <1>15, <3>1, <3>2, Zenon DEF IsData
  <2> HIDE DEF r, n
  <2> QED BY <1>1, <1>2, <1>15, <2>1, <2>2, <2>3, CompleteAnswers, Zenon
<1>16. f.op = "close" \/ f.op = "bad" \/ f.op \in {"ping", "pong"} \/ IsData(f)
  BY <1>6, <1>11
<1>17. f.op = "bad" => Refused(f, m)
  BY <1>8
<1> QED BY <1>13, <1>14, <1>15, <1>16, <1>17, Zenon DEF gs

----------------------------------------------------------------------------
(* The inductive invariant.                                                *)

(* Where a sequence of frames has one of some kinds.                       *)
Kinds(o, P) == {i \in DOMAIN o : o[i].op \in P}

(* The frames handled, those in the reader and those on the way are what   *)
(* the client has sent.                                                    *)
Read(t, b, q) == SubSeq(t, 1, Len(t) - Len(q) - Len(b))
Wire(t, b, q) ==
  LET R == Len(t) - Len(q) - Len(b)
  IN  /\ t \in Seq(Frames) /\ b \in Seq(Frames) /\ q \in Seq(Frames) /\ R \in Nat
      /\ \A i \in 1 .. Len(b) : b[i] = t[R + i]
      /\ \A i \in 1 .. Len(q) : q[i] = t[(R + Len(b)) + i]

(* What has been said in answer to the frames fs; over tells that the      *)
(* stream has ended.                                                       *)
Ends(fs) == {j \in DOMAIN fs : Completes(fs, j) /\ ~Fails(fs, j)}
Echoes(fs) == [n \in DOMAIN Listed(Ends(fs)) |-> Message(fs, Listed(Ends(fs))[n])]
FailsLast(fs) == fs # <<>> /\ Fails(fs, Len(fs))
Talk(fs, o, m, end, over) ==
  LET closes == Kinds(o, {"close"})
  IN  /\ o \in Seq(Outs) /\ end \in BOOLEAN
      /\ Subsequence(o, Kinds(o, {"text", "binary"})) = Echoes(fs)
      /\ \A j \in 1 .. Len(fs) - 1 : ~Fails(fs, j)
      /\ IF end THEN \E i \in DOMAIN o : closes = {i} ELSE closes = {}
      /\ FailsLast(fs) => end
      /\ end => over \/ FailsLast(fs)
      /\ \A i \in closes, k \in DOMAIN o : k > i => o[k].op = "push"
      /\ ~end => Tracks(fs, m)

(* The numbers of the messages sent and queued.                            *)
Pushed(o) ==
  LET pushed == Subsequence(o, Kinds(o, {"push"}))
  IN  [i \in DOMAIN pushed |-> pushed[i].payload]
Numbers(o, q) == Pushed(o) \o q
Counted(o, q, k) == Numbers(o, q) = [i \in 1 .. Len(Numbers(o, q)) |-> k + i]

(* Where a session can be: asked for, not yet in its loop, in its loop.    *)
Asked == {"none", "waiting"}
Early == Asked \cup {"subscribe", "refused"}
Live == {"select", "read", "reset", "pop", "loop", "end"}

(* The types that the rest does not imply.                                 *)
Types ==
  /\ backlog \in Seq(Session \cup {"page", "wake"})
  /\ uri \in [Session -> Channel \cup {NoChannel}]
  /\ DOMAIN session = Session /\ DOMAIN done = Session /\ DOMAIN command = Session
  /\ DOMAIN sent = Session /\ DOMAIN inbox = Session /\ DOMAIN buffer = Session
  /\ DOMAIN out = Session /\ avail \in [Session -> SUBSET {"socket", "cv"}]
  /\ queue \in [Session -> Seq(Nat)] /\ since \in [Session -> Nat]
  /\ subscribers \in [Channel -> SUBSET Session] /\ published \in [Channel -> Nat]

(* Between a client and its session: what was said answers the frames      *)
(* handled, and command is what they have begun.                           *)
OneTalk(t, b, q, o, m, end, h) ==
  Wire(t, b, q) /\ Talk(Read(t, b, q), o, m, end, h /\ Len(Read(t, b, q)) = Len(t))
Gone(s, h) == s \in h
TalkInv ==
  \A s \in Session :
    OneTalk(sent[s], buffer[s], inbox[s], out[s], command[s], done[s], Gone(s, hungup))

(* Between a channel and a session: the numbers sent and queued follow     *)
(* each other and, for a subscriber, reach to the last one published. Who  *)
(* is no subscriber has nothing queued.                                    *)
OneSub(s, o, q, k, u, st, subs, pub) ==
  /\ Counted(o, q, k)
  /\ \A c \in Channel : s \in subs[c] => /\ u = c /\ st \in Live
                                        /\ Len(Numbers(o, q)) + k = pub[c]
  /\ (\A c \in Channel : s \notin subs[c]) => q = <<>>
SubInv ==
  \A s \in Session :
    OneSub(s, out[s], queue[s], since[s], uri[s], session[s], subscribers, published)

(* Nothing is said before the loop, nothing read before the upgrade, and a *)
(* session that is done neither waits nor reads.                           *)
OnePhase(st, b, o, end) ==
  /\ end => st \notin Early \cup {"select", "read"}
  /\ st \in Early => o = <<>>
  /\ st \in Asked => b = <<>>
PhaseInv == \A s \in Session : OnePhase(session[s], buffer[s], out[s], done[s])

(* A session in the backlog is there once and has not begun.               *)
WaitingFor(l, st) ==
  \A i \in DOMAIN l : l[i] \in Session =>
    st[l[i]] = "waiting" /\ \A j \in DOMAIN l : l[j] = l[i] => i = j
Waiting == WaitingFor(backlog, session)

WebInv == Types /\ TalkInv /\ SubInv /\ PhaseInv /\ Waiting

----------------------------------------------------------------------------
(* What a session sends.                                                   *)

(* One frame more, of the kinds looked for or not.                         *)
LEMMA KindsAppend ==
  ASSUME NEW o \in Seq(Outs), NEW x \in Outs, NEW P
  PROVE  LET p == Append(o, x)
         IN  /\ p \in Seq(Outs) /\ Len(p) = Len(o) + 1
             /\ Kinds(o, P) \in SUBSET (1 .. Len(o))
             /\ Kinds(p, P) = IF x.op \in P THEN Kinds(o, P) \cup {Len(o) + 1} ELSE Kinds(o, P)
             /\ Subsequence(o, Kinds(o, P)) \in Seq(Outs)
             /\ Subsequence(p, Kinds(p, P)) =
                  IF x.op \in P THEN Append(Subsequence(o, Kinds(o, P)), x)
                  ELSE Subsequence(o, Kinds(o, P))
<1> DEFINE p == Append(o, x)
           N == Len(o)
           S == Kinds(o, P)
<1>1. /\ N \in Nat /\ p \in Seq(Outs) /\ Len(p) = N + 1 /\ p[N + 1] = x
      /\ DOMAIN p = 1 .. (N + 1) /\ DOMAIN o = 1 .. N
      /\ (\A k \in 1 .. N : p[k] = o[k] /\ o[k] \in Outs /\ k \in 1 .. (N + 1))
      /\ (\A k \in 1 .. (N + 1) : k \in 1 .. N \/ k = N + 1) /\ N + 1 \in 1 .. (N + 1)
  OBVIOUS
<1> HIDE DEF p, N
<1>2. S \in SUBSET (1 .. N) /\ (\A k \in S : p[k] = o[k]) /\ (\A k \in S : p[k] \in Outs)
      /\ (\A k \in S : o[k] \in Outs)
  BY <1>1, Zenon DEF Kinds
<1>3. Kinds(p, P) = IF x.op \in P THEN S \cup {N + 1} ELSE S
  <2>1. \A k : k \in Kinds(p, P) <=> k \in 1 .. (N + 1) /\ p[k].op \in P
    BY <1>1, Zenon DEF Kinds
  <2>2. \A k : k \in S <=> k \in 1 .. N /\ o[k].op \in P
    BY <1>1, Zenon DEF Kinds
  <2> HIDE DEF S
  <2>3. CASE x.op \in P
    <3>1. \A k : k \in Kinds(p, P) <=> k \in S \/ k = N + 1
      BY <1>1, <2>1, <2>2, <2>3, Zenon
    <3> QED BY <2>3, <3>1, Zenon
  <2>4. CASE x.op \notin P
    <3>1. \A k : k \in Kinds(p, P) <=> k \in S
      BY <1>1, <2>1, <2>2, <2>4, Zenon
    <3> QED BY <2>4, <3>1, Zenon
  <2> QED BY <2>3, <2>4, Zenon
<1> HIDE DEF S
<1>4. Subsequence(p, S) = Subsequence(o, S)
  BY <1>1, <1>2, SubsequenceSame, Zenon
<1>5. Subsequence(o, S) \in Seq(Outs)
  BY <1>1, <1>2, SubsequenceFacts, Zenon
<1>6. Subsequence(p, S \cup {N + 1}) = Append(Subsequence(o, S), x)
  BY <1>1, <1>2, <1>4, SubsequenceFacts, Zenon
<1>7. Subsequence(p, Kinds(p, P)) =
        IF x.op \in P THEN Append(Subsequence(o, S), x) ELSE Subsequence(o, S)
  BY <1>3, <1>4, <1>6, Zenon
<1> QED BY <1>1, <1>2, <1>3, <1>5, <1>7, Zenon DEF p, N, S

(* One frame more is handled, and it completes a message or does not.      *)
LEMMA EchoesAppend ==
  ASSUME NEW fs \in Seq(Frames), NEW f \in Frames
  PROVE  LET n == Len(fs)
             gs == Append(fs, f)
         IN  Echoes(gs) = IF Completes(gs, n + 1) /\ ~Fails(gs, n + 1)
                          THEN Append(Echoes(fs), Message(gs, n + 1)) ELSE Echoes(fs)
<1> DEFINE n == Len(fs)
           gs == Append(fs, f)
           S == Ends(fs)
           M == [j \in 1 .. n + 1 |-> Message(gs, j)]
<1>1. /\ n \in Nat /\ gs \in Seq(Frames) /\ n <= Len(gs) /\ gs[n + 1] = f
      /\ DOMAIN gs = 1 .. (n + 1) /\ DOMAIN fs = 1 .. n
      /\ (\A k \in 1 .. n : gs[k] = fs[k] /\ k \in 1 .. (n + 1))
      /\ (\A k \in 1 .. (n + 1) : k \in 1 .. n \/ k = n + 1) /\ n + 1 \in 1 .. (n + 1)
  OBVIOUS
<1>2. \A j \in 1 .. n :
        /\ Completes(gs, j) <=> Completes(fs, j)
        /\ Fails(gs, j) <=> Fails(fs, j)
        /\ (\E k \in 1 .. j : Begins(fs[k])) => Message(gs, j) = Message(fs, j)
  <2> HIDE DEF gs
  <2> QED BY <1>1, Earlier, Zenon DEF n
<1>3. ASSUME NEW j \in 1 .. n, Completes(fs, j) PROVE Message(gs, j) = Message(fs, j)
  <2>1. j \in 1 .. j /\ \A k \in 1 .. (j - 1) : k \in 1 .. j
    BY <1>1
  <2>2. \E k \in 1 .. j : Begins(fs[k])
    BY <1>3, <2>1, Zenon DEF Completes, Open, IsData
  <2> QED BY <1>2, <2>2, Zenon
<1> HIDE DEF n, gs
<1>4. S \in SUBSET (1 .. n) /\ \A j \in S : Message(gs, j) = Message(fs, j)
  BY <1>1, <1>3, Zenon DEF Ends
<1>5. Ends(gs) = IF Completes(gs, n + 1) /\ ~Fails(gs, n + 1) THEN S \cup {n + 1} ELSE S
  <2>1. CASE Completes(gs, n + 1) /\ ~Fails(gs, n + 1)
    BY <1>1, <1>2, <2>1, Zenon DEF Ends
  <2>2. CASE ~(Completes(gs, n + 1) /\ ~Fails(gs, n + 1))
    BY <1>1, <1>2, <2>2, Zenon DEF Ends
  <2> QED BY <2>1, <2>2, Zenon
<1> HIDE DEF S
<1> DEFINE L == Listed(S)
           X == {Message(gs, j) : j \in 1 .. (n + 1)}
<1>6. L \in Seq(S) /\ Listed(S \cup {n + 1}) = Append(L, n + 1)
  BY <1>1, <1>4, ListedFacts, Zenon
<1> HIDE DEF L
<1>7. Len(L) \in Nat /\ DOMAIN L = 1 .. Len(L) /\ \A k \in 1 .. Len(L) : L[k] \in S
  BY <1>6
<1>8. Echoes(fs) = [k \in 1 .. Len(L) |-> Message(gs, L[k])]
  <2>1. \A k \in 1 .. Len(L) : Message(fs, L[k]) = Message(gs, L[k])
    BY <1>4, <1>7, Zenon
  <2> QED BY <1>7, <2>1, Zenon DEF Echoes, L, S
<1>9. CASE Completes(gs, n + 1) /\ ~Fails(gs, n + 1)
  <2> DEFINE A == Append(L, n + 1)
             E == Echoes(fs)
             v == Message(gs, n + 1)
             B == Append(E, v)
  <2>1. Listed(Ends(gs)) = A
    BY <1>5, <1>6, <1>9, Zenon
  <2>2. A \in Seq(1 .. (n + 1)) /\ DOMAIN A = 1 .. (Len(L) + 1) /\ A[Len(L) + 1] = n + 1
        /\ \A k \in 1 .. Len(L) : A[k] = L[k]
    <3>1. \A k \in 1 .. Len(L) : L[k] \in 1 .. (n + 1)
      BY <1>1, <1>4, <1>7, Zenon
    <3>2. L = [k \in 1 .. Len(L) |-> L[k]]
      BY <1>6
    <3>3. L \in Seq(1 .. (n + 1))
      <4> DEFINE D == 1 .. (n + 1)
                 l == Len(L)
      <4>1. l \in Nat /\ (\A k \in 1 .. l : L[k] \in D) /\ L = [k \in 1 .. l |-> L[k]]
        BY <1>7, <3>1, <3>2, Zenon
      <4> HIDE DEF D, l
      <4>2. [k \in 1 .. l |-> L[k]] \in Seq(D)
        BY <4>1
      <4> QED BY <4>1, <4>2, Zenon DEF D
    <3> QED BY <1>1, <3>3
  <2> HIDE DEF A
  <2>3. Echoes(gs) = [k \in 1 .. (Len(L) + 1) |-> Message(gs, A[k])]
    BY <2>1, <2>2, Zenon DEF Echoes
  <2>4. \A k \in 1 .. Len(L) : L[k] \in 1 .. (n + 1)
    BY <1>1, <1>4, <1>7, Zenon
  <2>5. \A k \in 1 .. Len(L) : E[k] = Message(gs, L[k]) /\ E[k] \in X
    BY <1>8, <2>4, Zenon
  <2>6. v \in X
    BY <1>1, Zenon
  <2>7. DOMAIN E = 1 .. Len(L) /\ E = [k \in 1 .. Len(L) |-> E[k]]
    BY <1>8, Zenon
  <2> HIDE DEF E, v, X
  <2>8. E \in Seq(X) /\ Len(E) = Len(L)
    BY <1>7, <2>5, <2>7
  <2>9. B \in Seq(X) /\ Len(B) = Len(L) + 1 /\ B[Len(L) + 1] = v
        /\ \A k \in 1 .. Len(L) : B[k] = E[k]
    BY <1>7, <2>6, <2>8
  <2> HIDE DEF B
  <2>10. B = [k \in 1 .. (Len(L) + 1) |-> B[k]]
    BY <1>7, <2>9
  <2>11. \A k \in 1 .. (Len(L) + 1) : k \in 1 .. Len(L) \/ k = Len(L) + 1
    BY <1>7
  <2>12. \A k \in 1 .. (Len(L) + 1) : B[k] = Message(gs, A[k])
    BY <2>2, <2>5, <2>9, <2>11, Zenon DEF v
  <2>13. Echoes(gs) = B
    BY <2>3, <2>10, <2>12, Zenon
  <2> QED BY <1>9, <2>13, Zenon DEF B, E, v, n, gs
<1>10. CASE ~(Completes(gs, n + 1) /\ ~Fails(gs, n + 1))
  <2>1. Echoes(gs) = [k \in 1 .. Len(L) |-> Message(gs, L[k])]
    BY <1>5, <1>7, <1>10, Zenon DEF Echoes, L
  <2> QED BY <1>8, <1>10, <2>1, Zenon DEF n, gs
<1> QED BY <1>9, <1>10, Zenon

(* One frame more.                                                         *)
LEMMA AppendFacts ==
  ASSUME NEW fs \in Seq(Frames), NEW f \in Frames
  PROVE  LET n == Len(fs)
             gs == Append(fs, f)
         IN  /\ n \in Nat /\ gs \in Seq(Frames) /\ Len(fs) <= Len(gs)
             /\ Len(gs) = n + 1 /\ Len(gs) - 1 = n /\ gs # <<>>
             /\ (\A k \in 1 .. Len(fs) : gs[k] = fs[k])
             /\ (\A k \in 1 .. n : fs # <<>> /\ (k \in 1 .. Len(fs) - 1 \/ k = n))
<1> DEFINE n == Len(fs)
           gs == Append(fs, f)
<1>1. n \in Nat
  OBVIOUS
<1>2. gs \in Seq(Frames) /\ Len(gs) = n + 1 /\ (\A k \in 1 .. n : gs[k] = fs[k])
  OBVIOUS
<1>3. gs # <<>>
  BY <1>1, <1>2
<1>4. fs = <<>> => n = 0
  OBVIOUS
<1> HIDE DEF n, gs
<1>5. n <= n + 1 /\ (n + 1) - 1 = n
  BY <1>1
<1>6. \A k \in 1 .. n : n # 0 /\ (k \in 1 .. n - 1 \/ k = n)
  BY <1>1
<1> QED BY <1>1, <1>2, <1>3, <1>4, <1>5, <1>6, Zenon DEF n, gs

(* The frames before the last do not fail the connection.                  *)
LEMMA NextFails ==
  ASSUME NEW fs \in Seq(Frames), NEW f \in Frames,
         \A j \in 1 .. Len(fs) - 1 : ~Fails(fs, j), ~FailsLast(fs)
  PROVE  LET gs == Append(fs, f)
         IN  /\ \A j \in 1 .. Len(gs) - 1 : ~Fails(gs, j)
             /\ FailsLast(gs) <=> Fails(gs, Len(fs) + 1)
<1> DEFINE n == Len(fs)
           gs == Append(fs, f)
<1>1. /\ gs \in Seq(Frames) /\ Len(fs) <= Len(gs) /\ Len(gs) = n + 1 /\ Len(gs) - 1 = n
      /\ gs # <<>> /\ (\A k \in 1 .. Len(fs) : gs[k] = fs[k])
  BY AppendFacts, Zenon
<1>2. \A k \in 1 .. n : fs # <<>> /\ (k \in 1 .. Len(fs) - 1 \/ k = n)
  BY AppendFacts, Zenon
<1> HIDE DEF gs
<1>3. \A j \in 1 .. n : Fails(gs, j) <=> Fails(fs, j)
  BY <1>1, Earlier, Zenon
<1>4. fs # <<>> => ~Fails(fs, n)
  BY Zenon DEF FailsLast
<1>5. \A j \in 1 .. n : ~Fails(fs, j)
  BY <1>2, <1>4, Zenon
<1>6. \A j \in 1 .. n : ~Fails(gs, j)
  BY <1>3, <1>5, Zenon
<1>7. FailsLast(gs) <=> Fails(gs, n + 1)
  BY <1>1, Zenon DEF FailsLast
<1> QED BY <1>1, <1>6, <1>7, Zenon DEF gs

(* The answer to a frame: at most one frame, and none of the channel's.    *)
Replied(o, r) ==
  /\ r.done \in BOOLEAN
  /\ o \o r.send = o \/ \E x \in Outs : x.op # "push" /\ o \o r.send = Append(o, x)

(* socket_read of one more frame says what the protocol demands, and       *)
(* nothing more.                                                           *)
LEMMA TalkRead ==
  ASSUME NEW fs \in Seq(Frames), NEW f \in Frames, NEW o, NEW m, NEW over, NEW later,
         Talk(fs, o, m, FALSE, over)
  PROVE  LET r == socket_read(f, m)
         IN  /\ Talk(Append(fs, f), o \o r.send, r.command, r.done, later)
             /\ Replied(o, r)
<1> DEFINE n == Len(fs)
           gs == Append(fs, f)
           r == socket_read(f, m)
           close == Sent("close", <<>>)
           pong == Sent("pong", <<f.piece>>)
<1>1. /\ o \in Seq(Outs) /\ Subsequence(o, Kinds(o, {"text", "binary"})) = Echoes(fs)
      /\ (\A j \in 1 .. Len(fs) - 1 : ~Fails(fs, j)) /\ Kinds(o, {"close"}) = {}
      /\ ~FailsLast(fs) /\ Tracks(fs, m)
  BY Zenon DEF Talk
<1>2. n \in Nat /\ gs \in Seq(Frames) /\ Len(gs) = n + 1
  OBVIOUS
<1>3. (\A j \in 1 .. Len(gs) - 1 : ~Fails(gs, j)) /\ (FailsLast(gs) <=> Fails(gs, n + 1))
  BY <1>1, NextFails, Zenon
<1>4. Echoes(gs) = IF Completes(gs, n + 1) /\ ~Fails(gs, n + 1)
                   THEN Append(Echoes(fs), Message(gs, n + 1)) ELSE Echoes(fs)
  BY EchoesAppend, Zenon
<1>5. Answers(gs, f, r)
  BY <1>1, ReadAnswers, Zenon
<1>6. /\ r.done \in BOOLEAN /\ (r.done <=> Fails(gs, n + 1))
      /\ r.done => r.send = <<close>>
      /\ ~r.done /\ Completes(gs, n + 1) =>
           r.send = <<Message(gs, n + 1)>> /\ Message(gs, n + 1) \in Commands
      /\ ~r.done /\ ~Completes(gs, n + 1) => r.send \in {<<>>, <<pong>>}
      /\ ~r.done => Tracks(gs, r.command)
  <2> HIDE DEF r, gs, n, close, pong
  <2> QED BY <1>2, <1>5, Zenon DEF Answers, close, pong
<1>7. close \in Outs /\ close.op = "close" /\ pong \in Outs /\ pong.op = "pong"
  BY DEF Sent, Outs, Frames
<1>8. \A x \in Commands : x \in Outs /\ x.op \in {"text", "binary"}
  BY DEF Commands, Outs
<1>9. \A x \in Outs : o \o <<x>> = Append(o, x)
  BY <1>1
<1>10. o \o <<>> = o
  BY <1>1
<1> HIDE DEF r, gs, n, close, pong
<1>11. ASSUME NEW x \in Outs
       PROVE  /\ Append(o, x) \in Seq(Outs)
              /\ Kinds(Append(o, x), {"close"}) = IF x.op = "close" THEN {Len(o) + 1} ELSE {}
              /\ Subsequence(Append(o, x), Kinds(Append(o, x), {"text", "binary"})) =
                   IF x.op \in {"text", "binary"} THEN Append(Echoes(fs), x) ELSE Echoes(fs)
              /\ DOMAIN Append(o, x) = 1 .. (Len(o) + 1)
              /\ Len(o) + 1 \in 1 .. (Len(o) + 1)
              /\ \A k \in 1 .. (Len(o) + 1) : ~(k > Len(o) + 1)
  <2>1. /\ Append(o, x) \in Seq(Outs) /\ DOMAIN Append(o, x) = 1 .. (Len(o) + 1)
        /\ Len(o) + 1 \in 1 .. (Len(o) + 1) /\ \A k \in 1 .. (Len(o) + 1) : ~(k > Len(o) + 1)
    BY <1>1
  <2>2. Kinds(Append(o, x), {"close"}) =
          IF x.op \in {"close"} THEN Kinds(o, {"close"}) \cup {Len(o) + 1} ELSE Kinds(o, {"close"})
    BY <1>1, KindsAppend, Zenon
  <2>3. Subsequence(Append(o, x), Kinds(Append(o, x), {"text", "binary"})) =
          IF x.op \in {"text", "binary"} THEN Append(Echoes(fs), x) ELSE Echoes(fs)
    BY <1>1, KindsAppend, Zenon
  <2>4. Kinds(Append(o, x), {"close"}) = IF x.op = "close" THEN {Len(o) + 1} ELSE {}
    BY <1>1, <2>2, Zenon
  <2> QED BY <2>1, <2>3, <2>4, Zenon
<1>12. CASE r.done
  <2>1. o \o r.send = Append(o, close)
    BY <1>6, <1>7, <1>9, <1>12, Zenon
  <2>2. r.done = TRUE
    BY <1>6, <1>12
  <2> DEFINE p == Append(o, close)
  <2>3. /\ p \in Seq(Outs) /\ Kinds(p, {"close"}) = {Len(o) + 1}
        /\ Subsequence(p, Kinds(p, {"text", "binary"})) = Echoes(fs)
        /\ DOMAIN p = 1 .. (Len(o) + 1) /\ Len(o) + 1 \in 1 .. (Len(o) + 1)
        /\ \A k \in 1 .. (Len(o) + 1) : ~(k > Len(o) + 1)
    BY <1>7, <1>11
  <2>4. Echoes(gs) = Echoes(fs) /\ FailsLast(gs)
    BY <1>3, <1>4, <1>6, <1>12, Zenon
  <2> HIDE DEF p
  <2>5. \E i \in DOMAIN p : Kinds(p, {"close"}) = {i}
    BY <2>3, Zenon
  <2>6. \A i \in Kinds(p, {"close"}), k \in DOMAIN p : k > i => p[k].op = "push"
    BY <2>3, Zenon
  <2>7. Talk(gs, p, r.command, TRUE, later)
    BY <1>3, <2>3, <2>4, <2>5, <2>6, Zenon DEF Talk
  <2>8. close.op # "push"
    BY <1>7
  <2>9. \E x \in Outs : x.op # "push" /\ o \o r.send = Append(o, x)
    BY <1>7, <2>1, <2>8, Zenon
  <2> QED BY <1>6, <2>1, <2>2, <2>7, <2>9, Zenon DEF p, r, gs, Replied
<1>13. CASE ~r.done
  <2>1. r.done = FALSE
    BY <1>6, <1>13
  <2>2. ~Fails(gs, n + 1) /\ ~FailsLast(gs) /\ Tracks(gs, r.command)
    BY <1>3, <1>6, <1>13, Zenon
  <2>3. ASSUME NEW p \in Seq(Outs), Kinds(p, {"close"}) = {},
               Subsequence(p, Kinds(p, {"text", "binary"})) = Echoes(gs)
        PROVE  Talk(gs, p, r.command, FALSE, later)
    BY <1>3, <2>2, <2>3, Zenon DEF Talk
  <2>4. ASSUME NEW x \in Outs, x.op \in {"text", "binary", "pong"}, r.send = <<x>>,
               Echoes(gs) = IF x.op \in {"text", "binary"} THEN Append(Echoes(fs), x) ELSE Echoes(fs)
        PROVE  /\ Talk(gs, o \o r.send, r.command, r.done, later)
               /\ \E y \in Outs : y.op # "push" /\ o \o r.send = Append(o, y)
    <3>1. o \o r.send = Append(o, x)
      BY <1>9, <2>4, Zenon
    <3>2. x.op # "close" /\ x.op # "push"
      BY <2>4
    <3>3. /\ Append(o, x) \in Seq(Outs) /\ Kinds(Append(o, x), {"close"}) = {}
          /\ Subsequence(Append(o, x), Kinds(Append(o, x), {"text", "binary"})) = Echoes(gs)
      BY <1>11, <2>4, <3>2, Zenon
    <3>4. Talk(gs, Append(o, x), r.command, FALSE, later)
      BY <2>3, <3>3, Zenon
    <3> QED BY <2>1, <3>1, <3>2, <3>4, Zenon
  <2>5. CASE Completes(gs, n + 1)
    <3> DEFINE x == Message(gs, n + 1)
    <3>1. x \in Outs /\ x.op \in {"text", "binary"} /\ r.send = <<x>>
      BY <1>6, <1>8, <1>13, <2>5, Zenon
    <3>2. Echoes(gs) = Append(Echoes(fs), x)
      BY <1>4, <2>2, <2>5, Zenon
    <3> HIDE DEF x
    <3>3. x.op \in {"text", "binary", "pong"}
      BY <3>1
    <3> QED BY <1>6, <2>4, <3>1, <3>2, <3>3, Zenon DEF r, gs, Replied
  <2>6. CASE ~Completes(gs, n + 1)
    <3>1. Echoes(gs) = Echoes(fs)
      BY <1>4, <2>6, Zenon
    <3>2. CASE r.send = <<pong>>
      <4>1. pong.op \in {"text", "binary", "pong"} /\ pong.op \notin {"text", "binary"}
        BY <1>7
      <4> QED BY <1>6, <1>7, <2>4, <3>1, <3>2, <4>1, Zenon DEF r, gs, Replied
    <3>3. CASE r.send = <<>>
      <4>1. Talk(gs, o, r.command, FALSE, later)
        BY <1>1, <2>3, <3>1, Zenon
      <4> QED BY <1>6, <1>10, <2>1, <3>3, <4>1, Zenon DEF r, gs, Replied
    <3> QED BY <1>6, <1>13, <2>6, <3>2, <3>3, Zenon
  <2> QED BY <2>5, <2>6, Zenon
<1> QED BY <1>12, <1>13, Zenon

(* The end of the stream, and a message of the channel.                    *)
LEMMA TalkEnd ==
  ASSUME NEW fs \in Seq(Frames), NEW o, NEW m, NEW over, Talk(fs, o, m, FALSE, over)
  PROVE  Talk(fs, Append(o, Sent("close", <<>>)), m, TRUE, TRUE)
<1> DEFINE x == Sent("close", <<>>)
           p == Append(o, x)
<1>1. /\ o \in Seq(Outs) /\ Subsequence(o, Kinds(o, {"text", "binary"})) = Echoes(fs)
      /\ (\A j \in 1 .. Len(fs) - 1 : ~Fails(fs, j)) /\ Kinds(o, {"close"}) = {}
  BY Zenon DEF Talk
<1>2. x \in Outs /\ x.op = "close"
  BY DEF Sent, Outs
<1> HIDE DEF x
<1>3. /\ p \in Seq(Outs) /\ DOMAIN p = 1 .. (Len(o) + 1)
      /\ Len(o) + 1 \in 1 .. (Len(o) + 1) /\ \A k \in 1 .. (Len(o) + 1) : ~(k > Len(o) + 1)
  BY <1>1, <1>2
<1>4. /\ x.op \in {"close"} => Kinds(p, {"close"}) = Kinds(o, {"close"}) \cup {Len(o) + 1}
      /\ x.op \notin {"text", "binary"} => Subsequence(p, Kinds(p, {"text", "binary"})) = Echoes(fs)
  BY <1>1, <1>2, KindsAppend, Zenon
<1> HIDE DEF p
<1>5. Kinds(p, {"close"}) = {Len(o) + 1} /\ Subsequence(p, Kinds(p, {"text", "binary"})) = Echoes(fs)
  BY <1>1, <1>2, <1>4
<1>6. \E i \in DOMAIN p : Kinds(p, {"close"}) = {i}
  BY <1>3, <1>5, Zenon
<1>7. \A i \in Kinds(p, {"close"}), k \in DOMAIN p : k > i => p[k].op = "push"
  BY <1>3, <1>5, Zenon
<1>8. Talk(fs, p, m, TRUE, TRUE)
  BY <1>1, <1>3, <1>5, <1>6, <1>7, Zenon DEF Talk
<1> QED BY <1>8, Zenon DEF p, x

(* A message of the channel may be sent at any time, also after the close  *)
(* frame.                                                                  *)
LEMMA TalkPush ==
  ASSUME NEW fs \in Seq(Frames), NEW o, NEW m, NEW end, NEW over, NEW v \in Nat,
         Talk(fs, o, m, end, over)
  PROVE  Talk(fs, Append(o, Sent("push", v)), m, end, over)
<1> DEFINE x == Sent("push", v)
           p == Append(o, x)
           C == Kinds(o, {"close"})
<1>1. /\ o \in Seq(Outs) /\ Subsequence(o, Kinds(o, {"text", "binary"})) = Echoes(fs)
      /\ (IF end THEN \E i \in DOMAIN o : C = {i} ELSE C = {})
      /\ \A i \in C, k \in DOMAIN o : k > i => o[k].op = "push"
  BY Zenon DEF Talk
<1>2. x \in Outs /\ x.op = "push"
  BY DEF Sent, Outs
<1> HIDE DEF x
<1>3. /\ p \in Seq(Outs) /\ DOMAIN p = 1 .. (Len(o) + 1) /\ DOMAIN o = 1 .. Len(o)
      /\ (\A k \in 1 .. Len(o) : k \in 1 .. (Len(o) + 1) /\ p[k] = o[k]) /\ p[Len(o) + 1] = x
      /\ (\A k \in 1 .. (Len(o) + 1) : k \in 1 .. Len(o) \/ k = Len(o) + 1)
  BY <1>1, <1>2
<1>4. /\ x.op \notin {"close"} => Kinds(p, {"close"}) = C
      /\ x.op \notin {"text", "binary"} => Subsequence(p, Kinds(p, {"text", "binary"})) = Echoes(fs)
  BY <1>1, <1>2, KindsAppend, Zenon
<1> HIDE DEF p, C
<1>5. Kinds(p, {"close"}) = C /\ Subsequence(p, Kinds(p, {"text", "binary"})) = Echoes(fs)
  BY <1>2, <1>4
<1>6. IF end THEN \E i \in DOMAIN p : C = {i} ELSE C = {}
  BY <1>1, <1>3, Zenon
<1>7. \A i \in C, k \in DOMAIN p : k > i => p[k].op = "push"
  BY <1>1, <1>2, <1>3, Zenon
<1>8. Talk(fs, p, m, end, over)
  BY <1>1, <1>3, <1>5, <1>6, <1>7, Zenon DEF Talk
<1> QED BY <1>8, Zenon DEF p, x

(* The numbers of the messages that have been sent.                        *)
LEMMA PushedAppend ==
  ASSUME NEW o \in Seq(Outs)
  PROVE  /\ Pushed(o) \in Seq(Nat)
         /\ \A x \in Outs : Pushed(Append(o, x)) =
              IF x.op = "push" THEN Append(Pushed(o), x.payload) ELSE Pushed(o)
<1> DEFINE K == Kinds(o, {"push"})
           X == [op : {"push"}, payload : Nat]
           d == Subsequence(o, K)
           p == [i \in DOMAIN d |-> d[i].payload]
<1>1. Len(o) \in Nat /\ K \in SUBSET (1 .. Len(o)) /\ \A k \in K : o[k] \in X
  <2>1. Len(o) \in Nat /\ DOMAIN o = 1 .. Len(o) /\ \A k \in 1 .. Len(o) : o[k] \in Outs
    OBVIOUS
  <2>2. \A x \in Outs : x.op = "push" => x \in X
    BY DEF Outs
  <2> QED BY <2>1, <2>2, Zenon DEF Kinds
<1>2. d \in Seq(X)
  <2> HIDE DEF K, X
  <2> QED BY <1>1, SubsequenceFacts, Zenon
<1>3. Pushed(o) = p
  BY Zenon DEF Pushed
<1> HIDE DEF d
<1>4. Len(d) \in Nat /\ DOMAIN d = 1 .. Len(d) /\ \A n \in 1 .. Len(d) : d[n] \in X
  <2> HIDE DEF X
  <2> QED BY <1>2
<1>5. \A n \in 1 .. Len(d) : d[n].payload \in Nat
  BY <1>4
<1>6. p \in Seq(Nat) /\ Len(p) = Len(d) /\ \A n \in 1 .. Len(d) : p[n] = d[n].payload
  BY <1>4, <1>5
<1>7. ASSUME NEW x \in Outs, x.op = "push" PROVE Pushed(Append(o, x)) = Append(p, x.payload)
  <2> DEFINE e == Append(d, x)
             h == Append(p, x.payload)
  <2>1. Subsequence(Append(o, x), Kinds(Append(o, x), {"push"})) = e
    <3>1. x.op \in {"push"}
      BY <1>7
    <3> QED BY <3>1, KindsAppend, Zenon DEF d
  <2>2. Pushed(Append(o, x)) = [i \in DOMAIN e |-> e[i].payload]
    BY <2>1, Zenon DEF Pushed
  <2>3. x \in X /\ x.payload \in Nat
    BY <1>7 DEF Outs
  <2> HIDE DEF p, X
  <2>4. e \in Seq(X) /\ DOMAIN e = 1 .. (Len(d) + 1) /\ e[Len(d) + 1] = x
        /\ \A n \in 1 .. Len(d) : e[n] = d[n]
    BY <1>2, <1>4, <2>3
  <2>5. h \in Seq(Nat) /\ Len(h) = Len(d) + 1 /\ h[Len(d) + 1] = x.payload
        /\ \A n \in 1 .. Len(d) : h[n] = p[n]
    BY <1>6, <2>3
  <2> HIDE DEF e, h
  <2>6. h = [n \in 1 .. (Len(d) + 1) |-> h[n]]
    BY <2>5
  <2>7. \A n \in 1 .. (Len(d) + 1) : n = Len(d) + 1 \/ n \in 1 .. Len(d)
    BY <1>4
  <2>8. \A n \in 1 .. (Len(d) + 1) : h[n] = e[n].payload
    BY <1>6, <2>4, <2>5, <2>7, Zenon
  <2> QED BY <2>2, <2>4, <2>6, <2>8, Zenon DEF h
<1>8. ASSUME NEW x \in Outs, x.op # "push" PROVE Pushed(Append(o, x)) = p
  <2>1. x.op \notin {"push"}
    BY <1>8
  <2>2. Subsequence(Append(o, x), Kinds(Append(o, x), {"push"})) = d
    BY <2>1, KindsAppend, Zenon DEF d
  <2> QED BY <2>2, Zenon DEF Pushed
<1> QED BY <1>3, <1>6, <1>7, <1>8, Zenon

(* Sequences of numbers: the head goes over from one to the other, and one *)
(* more comes.                                                             *)
LEMMA HandOver ==
  ASSUME NEW p \in Seq(Nat), NEW q \in Seq(Nat)
  PROVE  /\ p \o q \in Seq(Nat) /\ Len(p \o q) = Len(p) + Len(q)
         /\ (\A i \in 1 .. Len(p) : (p \o q)[i] = p[i])
         /\ q # <<>> => Append(p, Head(q)) \o Tail(q) = p \o q /\ Tail(q) \in Seq(Nat) /\ Head(q) \in Nat
         /\ \A v \in Nat : p \o Append(q, v) = Append(p \o q, v)
<1>1. p \o q \in Seq(Nat) /\ Len(p \o q) = Len(p) + Len(q) /\ Len(p) \in Nat /\ Len(q) \in Nat
  OBVIOUS
<1>2. \A i \in 1 .. Len(p) : (p \o q)[i] = p[i]
  OBVIOUS
<1>3. ASSUME q # <<>>
      PROVE  Append(p, Head(q)) \o Tail(q) = p \o q /\ Tail(q) \in Seq(Nat) /\ Head(q) \in Nat
  <2>1. Tail(q) \in Seq(Nat) /\ Head(q) \in Nat /\ Len(Tail(q)) = Len(q) - 1 /\ Head(q) = q[1]
        /\ Len(q) >= 1 /\ \A i \in 1 .. Len(q) - 1 : Tail(q)[i] = q[i + 1]
    BY <1>3
  <2> DEFINE a == Append(p, Head(q))
  <2>2. a \in Seq(Nat) /\ Len(a) = Len(p) + 1 /\ a[Len(p) + 1] = Head(q)
        /\ \A i \in 1 .. Len(p) : a[i] = p[i]
    BY <2>1
  <2> HIDE DEF a
  <2> DEFINE b == a \o Tail(q)
             c == p \o q
             N == Len(p) + Len(q)
  <2>3. b \in Seq(Nat) /\ Len(b) = N
    <3>1. b \in Seq(Nat) /\ Len(b) = Len(a) + Len(Tail(q))
      <4> DEFINE z == Tail(q)
      <4>1. a \in Seq(Nat) /\ z \in Seq(Nat)
        BY <2>1, <2>2, Zenon
      <4> HIDE DEF z
      <4>2. a \o z \in Seq(Nat) /\ Len(a \o z) = Len(a) + Len(z)
        BY <4>1
      <4> QED BY <4>2, Zenon DEF z
    <3>2. Len(a) + Len(Tail(q)) = N
      BY <1>1, <2>1, <2>2
    <3> QED BY <3>1, <3>2, Zenon
  <2>4. \A i \in 1 .. N : b[i] = c[i]
    <3>1. ASSUME NEW i \in 1 .. Len(p) PROVE b[i] = c[i]
      BY <1>1, <2>1, <2>2
    <3>2. b[Len(p) + 1] = c[Len(p) + 1]
      BY <1>1, <2>1, <2>2
    <3>3. ASSUME NEW i \in (Len(p) + 2) .. N PROVE b[i] = c[i]
      <4>1. b[i] = Tail(q)[i - (Len(p) + 1)]
        <5> DEFINE z == Tail(q)
        <5>1. z \in Seq(Nat) /\ Len(z) = Len(q) - 1
          BY <2>1, Zenon
        <5>2. a \in Seq(Nat) /\ Len(a) = Len(p) + 1
          BY <2>2, Zenon
        <5> HIDE DEF z
        <5>3. i \in Len(a) + 1 .. Len(a) + Len(z)
          BY <1>1, <5>1, <5>2
        <5>4. \A j \in Len(a) + 1 .. Len(a) + Len(z) : (a \o z)[j] = z[j - Len(a)]
          <6>1. a \in Seq(Nat) /\ z \in Seq(Nat)
            BY <5>1, <5>2, Zenon
          <6> QED BY <6>1
        <5>5. (a \o z)[i] = z[i - (Len(p) + 1)]
          BY <5>2, <5>3, <5>4, Zenon
        <5> QED BY <5>5, Zenon DEF z
      <4>2. c[i] = q[i - Len(p)]
        BY <1>1
      <4>3. i - (Len(p) + 1) \in 1 .. Len(q) - 1 /\ (i - (Len(p) + 1)) + 1 = i - Len(p)
        BY <1>1
      <4> QED BY <2>1, <4>1, <4>2, <4>3, Zenon
    <3>4. \A i \in 1 .. N : i \in 1 .. Len(p) \/ i = Len(p) + 1 \/ i \in (Len(p) + 2) .. N
      BY <1>1
    <3> QED BY <3>1, <3>2, <3>3, <3>4, Zenon
  <2>5. c \in Seq(Nat) /\ Len(c) = N
    BY <1>1
  <2> HIDE DEF b, c, N
  <2>6. b = c
    BY <2>3, <2>4, <2>5
  <2> QED BY <2>1, <2>6, Zenon DEF a, b, c
<1>4. ASSUME NEW v \in Nat PROVE p \o Append(q, v) = Append(p \o q, v)
  <2> DEFINE a == Append(q, v)
             c == p \o q
  <2>1. a \in Seq(Nat) /\ Len(a) = Len(q) + 1 /\ a[Len(q) + 1] = v
        /\ \A i \in 1 .. Len(q) : a[i] = q[i]
    OBVIOUS
  <2>2. c \in Seq(Nat) /\ Len(c) = Len(p) + Len(q) /\ (\A i \in 1 .. Len(p) : c[i] = p[i])
        /\ \A i \in (Len(p) + 1) .. (Len(p) + Len(q)) : c[i] = q[i - Len(p)]
    BY <1>1
  <2> HIDE DEF a, c
  <2> DEFINE b == p \o a
             e == Append(c, v)
             N == (Len(p) + Len(q)) + 1
  <2>3. b \in Seq(Nat) /\ Len(b) = N /\ e \in Seq(Nat) /\ Len(e) = N
    BY <1>1, <2>1, <2>2
  <2>4. \A i \in 1 .. N : b[i] = e[i]
    <3>1. ASSUME NEW i \in 1 .. Len(p) PROVE b[i] = e[i]
      BY <1>1, <2>1, <2>2
    <3>2. ASSUME NEW i \in (Len(p) + 1) .. (Len(p) + Len(q)) PROVE b[i] = e[i]
      <4>1. b[i] = a[i - Len(p)]
        BY <1>1, <2>1, SMTT(20)
      <4>2. e[i] = c[i]
        BY <1>1, <2>2
      <4>3. i - Len(p) \in 1 .. Len(q)
        BY <1>1
      <4> QED BY <2>1, <2>2, <4>1, <4>2, <4>3, Zenon
    <3>3. b[N] = e[N]
      <4>1. b[N] = a[N - Len(p)] /\ N - Len(p) = Len(q) + 1
        BY <1>1, <2>1
      <4>2. e[N] = v
        <5>0. c \in Seq(Nat)
          BY <2>2, Zenon
        <5>1. e[Len(c) + 1] = v
          BY <5>0
        <5>2. Len(c) + 1 = N
          BY <1>1, <2>2
        <5> HIDE DEF e, N
        <5> QED BY <5>1, <5>2, Zenon
      <4> QED BY <2>1, <4>1, <4>2, Zenon
    <3>4. \A i \in 1 .. N :
            i \in 1 .. Len(p) \/ i \in (Len(p) + 1) .. (Len(p) + Len(q)) \/ i = N
      BY <1>1
    <3> QED BY <3>1, <3>2, <3>3, <3>4, Zenon
  <2> HIDE DEF b, e, N
  <2>5. b = e
    BY <2>3, <2>4
  <2> QED BY <2>5, Zenon DEF a, b, c, e
<1> QED BY <1>1, <1>2, <1>3, <1>4, Zenon

(* The numbers run on, whatever is said in between.                        *)
LEMMA CountedSay ==
  ASSUME NEW o \in Seq(Outs), NEW x \in Outs, x.op # "push", NEW q
  PROVE  Numbers(Append(o, x), q) = Numbers(o, q)
BY PushedAppend, Zenon DEF Numbers

(* A message goes from the queue to the client.                            *)
LEMMA CountedPop ==
  ASSUME NEW o \in Seq(Outs), NEW q \in Seq(Nat), q # <<>>
  PROVE  /\ Numbers(Append(o, Sent("push", Head(q))), Tail(q)) = Numbers(o, q)
         /\ Tail(q) \in Seq(Nat) /\ Head(q) \in Nat
<1>1. Pushed(o) \in Seq(Nat)
  BY PushedAppend, Zenon
<1>2. Append(Pushed(o), Head(q)) \o Tail(q) = Pushed(o) \o q /\ Tail(q) \in Seq(Nat) /\ Head(q) \in Nat
  BY <1>1, HandOver, Zenon
<1> DEFINE x == Sent("push", Head(q))
<1>3. x \in Outs /\ x.op = "push" /\ x.payload = Head(q)
  <2>1. Head(q) \in Nat
    BY <1>2, Zenon
  <2> QED BY <2>1 DEF Sent, Outs
<1> HIDE DEF x
<1>4. Pushed(Append(o, x)) = Append(Pushed(o), Head(q))
  BY <1>3, PushedAppend, Zenon
<1> QED BY <1>2, <1>4, Zenon DEF Numbers, x

(* A message comes to the queue, and the queue is dropped.                 *)
LEMMA CountedMore ==
  ASSUME NEW o \in Seq(Outs), NEW q \in Seq(Nat), NEW k \in Nat, Counted(o, q, k)
  PROVE  /\ Len(Numbers(o, q)) \in Nat
         /\ \A v \in Nat : v = (Len(Numbers(o, q)) + k) + 1 =>
              /\ Counted(o, Append(q, v), k)
              /\ Len(Numbers(o, Append(q, v))) = Len(Numbers(o, q)) + 1
              /\ Append(q, v) \in Seq(Nat)
         /\ Counted(o, <<>>, k)
<1> DEFINE p == Pushed(o)
           N == Numbers(o, q)
           n == Len(N)
<1>1. p \in Seq(Nat)
  BY PushedAppend, Zenon
<1>2. N \in Seq(Nat) /\ n = Len(p) + Len(q) /\ (\A i \in 1 .. Len(p) : N[i] = p[i])
      /\ \A v \in Nat : Numbers(o, Append(q, v)) = Append(N, v)
  <2> HIDE DEF p
  <2> QED BY <1>1, HandOver, Zenon DEF Numbers, p
<1>3. N = [i \in 1 .. n |-> k + i]
  BY Zenon DEF Counted
<1>4. Len(p) \in Nat /\ Len(q) \in Nat
  BY <1>1
<1> HIDE DEF p, N
<1>5. n \in Nat
  BY <1>2
<1>6. \A i \in 1 .. n : N[i] = k + i
  BY <1>3, Zenon
<1>7. ASSUME NEW v \in Nat, v = (n + k) + 1
      PROVE  /\ Counted(o, Append(q, v), k)
             /\ Len(Numbers(o, Append(q, v))) = n + 1
             /\ Append(q, v) \in Seq(Nat)
  <2> DEFINE M == Append(N, v)
  <2>1. N \in Seq(Nat)
    BY <1>2, Zenon
  <2>2. M \in Seq(Nat) /\ Len(M) = n + 1 /\ M[n + 1] = v /\ \A i \in 1 .. n : M[i] = N[i]
    BY <2>1
  <2> HIDE DEF M
  <2>3. M = [i \in 1 .. (n + 1) |-> M[i]]
    BY <2>2
  <2>4. v = k + (n + 1)
    BY <1>5, <1>7
  <2>5. \A i \in 1 .. (n + 1) : i \in 1 .. n \/ i = n + 1
    BY <1>5
  <2>6. \A i \in 1 .. (n + 1) : M[i] = k + i
    BY <1>6, <2>2, <2>4, <2>5, Zenon
  <2>7. M = [i \in 1 .. Len(M) |-> k + i]
    BY <2>2, <2>3, <2>6, Zenon
  <2>8. Numbers(o, Append(q, v)) = M
    BY <1>2, Zenon DEF M
  <2>9. Append(q, v) \in Seq(Nat)
    OBVIOUS
  <2> QED BY <2>2, <2>7, <2>8, <2>9, Zenon DEF Counted
<1>8. Counted(o, <<>>, k)
  <2>1. p \o <<>> = p
    BY <1>1
  <2>2. Numbers(o, <<>>) = p
    BY <2>1, Zenon DEF Numbers, p
  <2>3. p = [i \in 1 .. Len(p) |-> p[i]]
    BY <1>1
  <2>4. \A i \in 1 .. Len(p) : i \in 1 .. n
    BY <1>2, <1>4
  <2>5. \A i \in 1 .. Len(p) : p[i] = k + i
    BY <1>2, <1>6, <2>4, Zenon
  <2>6. p = [i \in 1 .. Len(p) |-> k + i]
    BY <2>3, <2>5, Zenon
  <2> QED BY <2>2, <2>6, Zenon DEF Counted
<1> QED BY <1>5, <1>7, <1>8, Zenon DEF N

(* Nothing has been sent or queued.                                        *)
LEMMA CountedNone == \A k : Counted(<<>>, <<>>, k) /\ Numbers(<<>>, <<>>) = <<>>
<1>1. Kinds(<<>>, {"push"}) = {}
  BY DEF Kinds
<1>2. Subsequence(<<>>, Kinds(<<>>, {"push"})) = <<>>
  BY <1>1, SubsequenceNone, Zenon
<1>3. Pushed(<<>>) = [i \in DOMAIN <<>> |-> <<>>[i].payload]
  BY <1>2, Zenon DEF Pushed
<1>4. Pushed(<<>>) = <<>>
  BY <1>3
<1>5. Numbers(<<>>, <<>>) = <<>>
  BY <1>4 DEF Numbers
<1>6. \A k : <<>> = [i \in 1 .. Len(<<>>) |-> k + i]
  OBVIOUS
<1> QED BY <1>5, <1>6, Zenon DEF Counted

----------------------------------------------------------------------------
(* The way of the frames from the client to the session.                   *)

(* The first frames, and those after them.                                 *)
LEMMA PrefixIs ==
  ASSUME NEW t \in Seq(Frames), NEW R \in Nat, R <= Len(t)
  PROVE  LET h == SubSeq(t, 1, R)
         IN  h \in Seq(Frames) /\ Len(h) = R /\ \A i \in 1 .. R : h[i] = t[i]
OBVIOUS

(* What is left after the first R frames.                                  *)
LEMMA SuffixIs ==
  ASSUME NEW t \in Seq(Frames), NEW R \in Nat, R <= Len(t)
  PROVE  LET h == SubSeq(t, R + 1, Len(t))
         IN  h \in Seq(Frames) /\ Len(h) = Len(t) - R /\ \A i \in 1 .. Len(t) - R : h[i] = t[i + R]
OBVIOUS

(* The client sends more.                                                  *)
LEMMA WireSend ==
  ASSUME NEW t, NEW b, NEW q, NEW x \in Seq(Frames), Wire(t, b, q)
  PROVE  Wire(t \o x, b, q \o x) /\ Read(t \o x, b, q \o x) = Read(t, b, q)
<1> DEFINE R == Len(t) - Len(q) - Len(b)
           u == t \o x
           p == q \o x
<1>1. t \in Seq(Frames) /\ b \in Seq(Frames) /\ q \in Seq(Frames) /\ R \in Nat
  BY Zenon DEF Wire
<1>2. (\A i \in 1 .. Len(b) : b[i] = t[R + i])
      /\ \A i \in 1 .. Len(q) : q[i] = t[(R + Len(b)) + i]
  BY Zenon DEF Wire
<1>3. Len(t) \in Nat /\ Len(b) \in Nat /\ Len(q) \in Nat /\ Len(x) \in Nat
  BY <1>1
<1>4. u \in Seq(Frames) /\ Len(u) = Len(t) + Len(x) /\ (\A i \in 1 .. Len(t) : u[i] = t[i])
      /\ \A i \in 1 .. Len(x) : u[Len(t) + i] = x[i]
  BY <1>1, <1>3
<1>5. p \in Seq(Frames) /\ Len(p) = Len(q) + Len(x) /\ (\A i \in 1 .. Len(q) : p[i] = q[i])
      /\ \A i \in (Len(q) + 1) .. (Len(q) + Len(x)) : p[i] = x[i - Len(q)]
  BY <1>1, <1>3
<1> HIDE DEF u, p
<1>6. Len(u) - Len(p) - Len(b) = R
  BY <1>3, <1>4, <1>5
<1>7. R + Len(b) + Len(q) = Len(t)
  BY <1>3
<1> HIDE DEF R
<1>8. \A i \in 1 .. Len(b) : b[i] = u[R + i]
  <2>1. \A i \in 1 .. Len(b) : R + i \in 1 .. Len(t)
    BY <1>1, <1>3, <1>7
  <2> QED BY <1>2, <1>4, <2>1, Zenon
<1>9. \A i \in 1 .. Len(q) : p[i] = u[(R + Len(b)) + i]
  <2>1. \A i \in 1 .. Len(q) : (R + Len(b)) + i \in 1 .. Len(t)
    BY <1>1, <1>3, <1>7
  <2> QED BY <1>2, <1>4, <1>5, <2>1, Zenon
<1>10. \A i \in (Len(q) + 1) .. (Len(q) + Len(x)) : p[i] = u[(R + Len(b)) + i]
  <2> DEFINE lt == Len(t)
             lb == Len(b)
             lq == Len(q)
             lx == Len(x)
  <2>1. R \in Nat /\ lt \in Nat /\ lb \in Nat /\ lq \in Nat /\ lx \in Nat /\ R + lb + lq = lt
    BY <1>1, <1>3, <1>7, Zenon
  <2> HIDE DEF lt, lb, lq, lx
  <2>2. \A i \in (lq + 1) .. (lq + lx) : i - lq \in 1 .. lx /\ lt + (i - lq) = (R + lb) + i
    BY <2>1
  <2> QED BY <1>4, <1>5, <2>2, Zenon DEF lt, lb, lq, lx
<1>11. \A i \in 1 .. Len(p) : i \in 1 .. Len(q) \/ i \in (Len(q) + 1) .. (Len(q) + Len(x))
  BY <1>3, <1>5
<1>12. \A i \in 1 .. Len(p) : p[i] = u[(R + Len(b)) + i]
  BY <1>9, <1>10, <1>11, Zenon
<1>13. Wire(u, b, p)
  BY <1>1, <1>4, <1>5, <1>6, <1>8, <1>12, Zenon DEF Wire
<1>14. SubSeq(u, 1, R) = SubSeq(t, 1, R)
  <2>1. \A i \in 1 .. R : i \in 1 .. Len(t)
    BY <1>1, <1>3, <1>7
  <2>2. \A i \in 1 .. R : u[i] = t[i]
    BY <1>4, <2>1, Zenon
  <2> DEFINE g == SubSeq(u, 1, R)
             h == SubSeq(t, 1, R)
  <2>3. R <= Len(t) /\ R <= Len(u)
    BY <1>1, <1>3, <1>4, <1>7
  <2>4. g \in Seq(Frames) /\ Len(g) = R /\ \A i \in 1 .. R : g[i] = u[i]
    BY <1>1, <1>4, <2>3, PrefixIs
  <2>5. h \in Seq(Frames) /\ Len(h) = R /\ \A i \in 1 .. R : h[i] = t[i]
    BY <1>1, <2>3, PrefixIs
  <2> HIDE DEF g, h
  <2>6. g = [i \in 1 .. R |-> g[i]] /\ h = [i \in 1 .. R |-> h[i]]
    BY <2>4, <2>5
  <2>7. \A i \in 1 .. R : g[i] = h[i]
    BY <2>2, <2>4, <2>5, Zenon
  <2>8. g = h
    BY <2>6, <2>7, Zenon
  <2> QED BY <2>8, Zenon DEF g, h
<1>15. Read(u, b, p) = Read(t, b, q)
  BY <1>6, <1>14, Zenon DEF Read, R
<1> QED BY <1>13, <1>15, Zenon DEF u, p

(* The reader is filled, when it is empty, with what has arrived.          *)
Fills(t, b, q, n) ==
  LET c == b \o SubSeq(q, 1, n)
      p == SubSeq(q, n + 1, Len(q))
  IN  /\ Wire(t, c, p) /\ Read(t, c, p) = Read(t, b, q)
      /\ b = <<>> => c = SubSeq(q, 1, n)
      /\ n > 0 => c # <<>>
      /\ n = 0 => c = b

(* The reader takes n frames off the socket; none is handled by that.      *)
LEMMA WireFill ==
  ASSUME NEW t, NEW b, NEW q, NEW n \in 0 .. Len(q), Wire(t, b, q), b = <<>> \/ n = 0
  PROVE  Fills(t, b, q, n)
<1> DEFINE R == Len(t) - Len(q) - Len(b)
           h == SubSeq(q, 1, n)
           c == b \o h
           p == SubSeq(q, n + 1, Len(q))
<1>1. t \in Seq(Frames) /\ b \in Seq(Frames) /\ q \in Seq(Frames) /\ R \in Nat
  BY Zenon DEF Wire
<1>2. (\A i \in 1 .. Len(b) : b[i] = t[R + i])
      /\ \A i \in 1 .. Len(q) : q[i] = t[(R + Len(b)) + i]
  BY Zenon DEF Wire
<1>3. Len(t) \in Nat /\ Len(b) \in Nat /\ Len(q) \in Nat /\ n \in Nat /\ n <= Len(q)
  BY <1>1
<1>4. h \in Seq(Frames) /\ Len(h) = n /\ \A i \in 1 .. n : h[i] = q[i]
  BY <1>1, <1>3, PrefixIs
<1>5. p \in Seq(Frames) /\ Len(p) = Len(q) - n /\ \A i \in 1 .. Len(q) - n : p[i] = q[i + n]
  BY <1>1, <1>3, SuffixIs
<1> HIDE DEF h, p
<1>6. c \in Seq(Frames) /\ Len(c) = Len(b) + n
  BY <1>1, <1>4
<1>7. b = <<>> => c = h
  BY <1>4
<1>8. n = 0 => c = b
  <2>1. n = 0 => h = <<>>
    BY <1>4
  <2> QED BY <1>1, <2>1
<1>9. n > 0 => c # <<>>
  BY <1>3, <1>6
<1>10. Len(t) - Len(p) - Len(c) = R
  BY <1>3, <1>5, <1>6
<1>11. b = <<>> => Len(b) = 0
  OBVIOUS
<1> HIDE DEF c, R
<1>12. \A i \in 1 .. Len(c) : c[i] = t[R + i]
  <2>1. CASE n = 0
    BY <1>2, <1>8, <2>1, Zenon
  <2>2. CASE b = <<>>
    <3>1. \A i \in 1 .. n : i \in 1 .. Len(q) /\ (R + Len(b)) + i = R + i
      BY <1>1, <1>3, <1>11, <2>2
    <3>2. Len(c) = n
      BY <1>4, <1>7, <2>2, Zenon
    <3> QED BY <1>2, <1>4, <1>7, <2>2, <3>1, <3>2, Zenon
  <2> QED BY <2>1, <2>2, Zenon
<1>13. \A i \in 1 .. Len(p) : p[i] = t[(R + Len(c)) + i]
  <2>1. \A i \in 1 .. Len(p) : i \in 1 .. Len(q) - n /\ i + n \in 1 .. Len(q)
                               /\ (R + Len(b)) + (i + n) = (R + Len(c)) + i
    BY <1>1, <1>3, <1>5, <1>6
  <2> QED BY <1>2, <1>5, <2>1, Zenon
<1>14. Wire(t, c, p)
  BY <1>1, <1>5, <1>6, <1>10, <1>12, <1>13, Zenon DEF Wire
<1>15. Read(t, c, p) = Read(t, b, q)
  BY <1>10, Zenon DEF Read, R
<1> QED BY <1>7, <1>8, <1>9, <1>14, <1>15, Zenon DEF c, p, h, Fills

(* A frame is taken from the reader.                                       *)
LEMMA WireTake ==
  ASSUME NEW t, NEW b, NEW q, Wire(t, b, q), b # <<>>
  PROVE  /\ Wire(t, Tail(b), q) /\ Read(t, b, q) \in Seq(Frames) /\ Head(b) \in Frames
         /\ Read(t, Tail(b), q) = Append(Read(t, b, q), Head(b))
<1> DEFINE R == Len(t) - Len(q) - Len(b)
           c == Tail(b)
           f == Head(b)
<1>1. t \in Seq(Frames) /\ b \in Seq(Frames) /\ q \in Seq(Frames) /\ R \in Nat
  BY Zenon DEF Wire
<1>2. (\A i \in 1 .. Len(b) : b[i] = t[R + i])
      /\ \A i \in 1 .. Len(q) : q[i] = t[(R + Len(b)) + i]
  BY Zenon DEF Wire
<1>3. Len(t) \in Nat /\ Len(b) \in Nat /\ Len(q) \in Nat
  BY <1>1
<1>4. Len(b) >= 1 /\ c \in Seq(Frames) /\ Len(c) = Len(b) - 1 /\ f = b[1] /\ f \in Frames
      /\ \A i \in 1 .. Len(b) - 1 : c[i] = b[i + 1]
  BY <1>1, <1>3
<1> HIDE DEF c, f
<1>5. Len(t) - Len(q) - Len(c) = R + 1 /\ R + 1 \in Nat /\ R + 1 <= Len(t)
  BY <1>1, <1>3, <1>4
<1>6. R <= Len(t) /\ R + 1 \in 1 .. Len(t)
  BY <1>1, <1>3, <1>4
<1> HIDE DEF R
<1>7. \A i \in 1 .. Len(c) : c[i] = t[(R + 1) + i]
  <2>1. \A i \in 1 .. Len(c) : i \in 1 .. Len(b) - 1 /\ i + 1 \in 1 .. Len(b)
                               /\ R + (i + 1) = (R + 1) + i
    BY <1>1, <1>3, <1>4
  <2> QED BY <1>2, <1>4, <2>1, Zenon
<1>8. \A i \in 1 .. Len(q) : q[i] = t[((R + 1) + Len(c)) + i]
  <2>1. (R + 1) + Len(c) = R + Len(b)
    BY <1>1, <1>3, <1>4
  <2> QED BY <1>2, <2>1, Zenon
<1>9. Wire(t, c, q)
  BY <1>1, <1>4, <1>5, <1>7, <1>8, Zenon DEF Wire
<1>10. f = t[R + 1]
  <2>1. 1 \in 1 .. Len(b)
    BY <1>3, <1>4
  <2> QED BY <1>2, <1>4, <2>1, Zenon
<1> DEFINE h == SubSeq(t, 1, R)
           g == SubSeq(t, 1, R + 1)
           a == Append(h, f)
<1>11. h \in Seq(Frames) /\ Len(h) = R /\ \A i \in 1 .. R : h[i] = t[i]
  BY <1>1, <1>6, PrefixIs
<1>12. g \in Seq(Frames) /\ Len(g) = R + 1 /\ \A i \in 1 .. (R + 1) : g[i] = t[i]
  BY <1>1, <1>5, PrefixIs, Zenon
<1> HIDE DEF h, g
<1>13. a \in Seq(Frames) /\ Len(a) = R + 1 /\ a[R + 1] = f /\ \A i \in 1 .. R : a[i] = h[i]
  <2>1. h \in Seq(Frames) /\ Len(h) = R /\ f \in Frames
    BY <1>4, <1>11, Zenon
  <2> QED BY <2>1
<1> HIDE DEF a
<1>14. \A i \in 1 .. (R + 1) : i \in 1 .. R \/ i = R + 1
  BY <1>1
<1>15. \A i \in 1 .. (R + 1) : g[i] = a[i]
  BY <1>10, <1>11, <1>12, <1>13, <1>14, Zenon
<1>16. g = a
  <2>1. g = [i \in 1 .. (R + 1) |-> g[i]] /\ a = [i \in 1 .. (R + 1) |-> a[i]]
    BY <1>12, <1>13
  <2> QED BY <1>15, <2>1, Zenon
<1>17. Read(t, b, q) = h /\ Read(t, c, q) = g
  BY <1>5, Zenon DEF Read, R, h, g
<1> QED BY <1>4, <1>9, <1>11, <1>16, <1>17, Zenon DEF a, c, f

----------------------------------------------------------------------------
(* One session.                                                            *)

(* The end of the stream stays, and nothing is sent after it.              *)
LEMMA TalkOver ==
  ASSUME NEW fs, NEW o, NEW m, NEW end, NEW over, NEW later, Talk(fs, o, m, end, over),
         over => later
  PROVE  Talk(fs, o, m, end, later)
BY Zenon DEF Talk

(* A client that has not hung up sends more frames.                        *)
LEMMA SessionSends ==
  ASSUME NEW t, NEW b, NEW q, NEW o, NEW m, NEW end, NEW x \in Seq(Frames),
         OneTalk(t, b, q, o, m, end, FALSE)
  PROVE  OneTalk(t \o x, b, q \o x, o, m, end, FALSE)
<1>1. Wire(t \o x, b, q \o x) /\ Read(t \o x, b, q \o x) = Read(t, b, q)
  BY WireSend, Zenon DEF OneTalk
<1>2. Talk(Read(t, b, q), o, m, end, FALSE /\ Len(Read(t, b, q)) = Len(t))
  BY Zenon DEF OneTalk
<1>3. Talk(Read(t, b, q), o, m, end, FALSE /\ Len(Read(t, b, q)) = Len(t \o x))
  BY <1>2, TalkOver, Zenon
<1> QED BY <1>1, <1>3, Zenon DEF OneTalk

(* A client that hangs up takes nothing back.                              *)
LEMMA SessionHangs ==
  ASSUME NEW t, NEW b, NEW q, NEW o, NEW m, NEW end, NEW h, OneTalk(t, b, q, o, m, end, h)
  PROVE  OneTalk(t, b, q, o, m, end, TRUE)
<1>1. Talk(Read(t, b, q), o, m, end, h /\ Len(Read(t, b, q)) = Len(t))
  BY Zenon DEF OneTalk
<1>2. Talk(Read(t, b, q), o, m, end, TRUE /\ Len(Read(t, b, q)) = Len(t))
  BY <1>1, TalkOver, Zenon
<1> QED BY <1>2, Zenon DEF OneTalk

(* The reader goes over to the session.                                    *)
LEMMA SessionStarts ==
  ASSUME NEW t, NEW q, NEW o, NEW m, NEW end, NEW h, NEW n \in 0 .. Len(q),
         OneTalk(t, <<>>, q, o, m, end, h)
  PROVE  OneTalk(t, SubSeq(q, 1, n), SubSeq(q, n + 1, Len(q)), o, m, end, h)
<1> DEFINE c == <<>> \o SubSeq(q, 1, n)
           p == SubSeq(q, n + 1, Len(q))
<1>1. Wire(t, <<>>, q)
  BY Zenon DEF OneTalk
<1>2. Fills(t, <<>>, q, n)
  BY <1>1, WireFill, Zenon
<1>3. Wire(t, c, p) /\ Read(t, c, p) = Read(t, <<>>, q) /\ c = SubSeq(q, 1, n)
  BY <1>2, Zenon DEF Fills
<1> HIDE DEF c, p
<1>4. OneTalk(t, c, p, o, m, end, h)
  BY <1>3, Zenon DEF OneTalk
<1> QED BY <1>3, <1>4, Zenon DEF p

(* socket_read.                                                            *)
LEMMA SessionReads ==
  ASSUME NEW t, NEW b, NEW q, NEW o, NEW m, NEW h, NEW n \in 0 .. Len(q),
         OneTalk(t, b, q, o, m, FALSE, h), IF b = <<>> THEN n > 0 ELSE n = 0
  PROVE  LET held == b \o SubSeq(q, 1, n)
             r == socket_read(Head(held), m)
         IN  /\ OneTalk(t, Tail(held), SubSeq(q, n + 1, Len(q)), o \o r.send, r.command, r.done, h)
             /\ Replied(o, r) /\ o \in Seq(Outs)
<1> DEFINE held == b \o SubSeq(q, 1, n)
           p == SubSeq(q, n + 1, Len(q))
           fs == Read(t, b, q)
           f == Head(held)
           r == socket_read(f, m)
           gs == Append(fs, f)
<1>1. Wire(t, b, q) /\ Talk(fs, o, m, FALSE, h /\ Len(fs) = Len(t))
  BY Zenon DEF OneTalk
<1>2. Wire(t, held, p) /\ Read(t, held, p) = fs /\ (n > 0 => held # <<>>) /\ (n = 0 => held = b)
  <2>1. b = <<>> \/ n = 0
    BY Zenon
  <2>2. Fills(t, b, q, n)
    BY <1>1, <2>1, WireFill, Zenon
  <2> QED BY <2>2, Zenon DEF Fills
<1> HIDE DEF held, p, fs
<1>3. held # <<>>
  BY <1>2, Zenon
<1>4. Wire(t, Tail(held), p) /\ fs \in Seq(Frames) /\ f \in Frames /\ Read(t, Tail(held), p) = gs
  BY <1>2, <1>3, WireTake, Zenon
<1> HIDE DEF f
<1>5. /\ Talk(gs, o \o r.send, r.command, r.done, h /\ Len(gs) = Len(t))
      /\ Replied(o, r)
  <2> DEFINE over == h /\ Len(fs) = Len(t)
             later == h /\ Len(gs) = Len(t)
  <2>1. Talk(fs, o, m, FALSE, over)
    BY <1>1, Zenon
  <2> HIDE DEF over, later
  <2>2. Talk(gs, o \o r.send, r.command, r.done, later) /\ Replied(o, r)
    BY <1>4, <2>1, TalkRead, Zenon
  <2> QED BY <2>2, Zenon DEF later
<1>6. o \in Seq(Outs)
  BY <1>1, Zenon DEF Talk
<1> HIDE DEF r, gs
<1>7. OneTalk(t, Tail(held), p, o \o r.send, r.command, r.done, h)
  BY <1>4, <1>5, Zenon DEF OneTalk
<1> QED BY <1>5, <1>6, <1>7, Zenon DEF held, p, f, r

(* The end of the stream is noticed.                                       *)
LEMMA SessionEnds ==
  ASSUME NEW t, NEW o, NEW m, OneTalk(t, <<>>, <<>>, o, m, FALSE, TRUE)
  PROVE  /\ OneTalk(t, <<>>, <<>>, Append(o, Sent("close", <<>>)), m, TRUE, TRUE)
         /\ o \in Seq(Outs)
<1> DEFINE fs == Read(t, <<>>, <<>>)
           p == Append(o, Sent("close", <<>>))
<1>1. Wire(t, <<>>, <<>>) /\ Talk(fs, o, m, FALSE, TRUE /\ Len(fs) = Len(t))
  BY Zenon DEF OneTalk
<1>2. t \in Seq(Frames)
  BY <1>1, Zenon DEF Wire
<1>3. Len(t) - Len(<<>>) - Len(<<>>) = Len(t) /\ Len(t) \in Nat
  BY <1>2
<1>4. fs \in Seq(Frames) /\ Len(fs) = Len(t)
  <2>1. fs = SubSeq(t, 1, Len(t))
    BY <1>3, Zenon DEF Read
  <2>2. Len(t) <= Len(t)
    BY <1>3
  <2>3. SubSeq(t, 1, Len(t)) \in Seq(Frames) /\ Len(SubSeq(t, 1, Len(t))) = Len(t)
    BY <1>2, <1>3, <2>2, PrefixIs
  <2> QED BY <2>1, <2>3, Zenon
<1> HIDE DEF fs
<1>5. Talk(fs, p, m, TRUE, TRUE)
  BY <1>1, <1>4, TalkEnd, Zenon
<1>6. o \in Seq(Outs)
  BY <1>1, Zenon DEF Talk
<1> HIDE DEF p
<1>7. Talk(fs, p, m, TRUE, TRUE /\ Len(fs) = Len(t))
  BY <1>4, <1>5, TalkOver, Zenon
<1> QED BY <1>1, <1>6, <1>7, Zenon DEF OneTalk, fs, p

(* A message of the channel is passed on.                                  *)
LEMMA SessionPushes ==
  ASSUME NEW t, NEW b, NEW q, NEW o, NEW m, NEW end, NEW h, NEW v \in Nat,
         OneTalk(t, b, q, o, m, end, h)
  PROVE  OneTalk(t, b, q, Append(o, Sent("push", v)), m, end, h) /\ o \in Seq(Outs)
<1>1. Talk(Read(t, b, q), o, m, end, h /\ Len(Read(t, b, q)) = Len(t)) /\ Wire(t, b, q)
  BY Zenon DEF OneTalk
<1>2. Read(t, b, q) \in Seq(Frames)
  <2> DEFINE R == Len(t) - Len(q) - Len(b)
  <2>1. t \in Seq(Frames) /\ R \in Nat /\ q \in Seq(Frames) /\ b \in Seq(Frames)
    BY <1>1, Zenon DEF Wire
  <2>2. R <= Len(t)
    BY <2>1
  <2> HIDE DEF R
  <2>3. SubSeq(t, 1, R) \in Seq(Frames)
    BY <2>1, <2>2, PrefixIs
  <2> QED BY <2>3, Zenon DEF Read, R
<1>3. Talk(Read(t, b, q), Append(o, Sent("push", v)), m, end, h /\ Len(Read(t, b, q)) = Len(t))
  BY <1>1, <1>2, TalkPush, Zenon
<1>4. o \in Seq(Outs)
  BY <1>1, Zenon DEF Talk
<1> QED BY <1>1, <1>3, <1>4, Zenon DEF OneTalk

(* Before anything is sent.                                                *)
LEMMA SessionInit == OneTalk(<<>>, <<>>, <<>>, <<>>, Unknown, FALSE, FALSE)
<1>1. Wire(<<>>, <<>>, <<>>) /\ Read(<<>>, <<>>, <<>>) = <<>>
  BY DEF Wire, Read
<1>2. \A P : Kinds(<<>>, P) = {}
  BY DEF Kinds
<1>3. Echoes(<<>>) = <<>>
  <2>1. Ends(<<>>) = {}
    BY DEF Ends
  <2>2. Subsequence(<<>>, {}) = <<>>
    BY SubsequenceNone, Zenon
  <2>3. DOMAIN Subsequence(<<>>, {}) = DOMAIN Listed({})
    BY Zenon DEF Subsequence
  <2>4. DOMAIN Listed({}) = {}
    BY <2>2, <2>3
  <2> QED BY <2>1, <2>4 DEF Echoes
<1>4. Subsequence(<<>>, Kinds(<<>>, {"text", "binary"})) = <<>>
  BY <1>2, SubsequenceNone, Zenon
<1>5. ~Open(<<>>, Len(<<>>) + 1)
  BY DEF Open
<1>6. Tracks(<<>>, Unknown) /\ ~FailsLast(<<>>)
  BY <1>5, Zenon DEF Tracks, FailsLast
<1>7. <<>> \in Seq(Outs) /\ \A j \in 1 .. Len(<<>>) - 1 : FALSE
  OBVIOUS
<1>8. Talk(<<>>, <<>>, Unknown, FALSE, FALSE)
  BY <1>2, <1>3, <1>4, <1>6, <1>7, Zenon DEF Talk
<1>9. Talk(<<>>, <<>>, Unknown, FALSE, FALSE /\ Len(<<>>) = Len(<<>>))
  BY <1>8, TalkOver, Zenon
<1> QED BY <1>1, <1>9, Zenon DEF OneTalk

----------------------------------------------------------------------------
(* The connections that wait to be accepted.                               *)

(* The first in the backlog leaves it.                                     *)
LEMMA WaitingTail ==
  ASSUME NEW l \in Seq(Session \cup {"page", "wake"}), NEW st, WaitingFor(l, st), l # <<>>
  PROVE  /\ Tail(l) \in Seq(Session \cup {"page", "wake"}) /\ WaitingFor(Tail(l), st)
         /\ Head(l) \in Session =>
              st[Head(l)] = "waiting" /\ \A i \in DOMAIN Tail(l) : Tail(l)[i] # Head(l)
<1> DEFINE Y == Session \cup {"page", "wake"}
           z == Tail(l)
           N == Len(l) - 1
<1>1. l \in Seq(Y)
  OBVIOUS
<1> HIDE DEF Y
<1>2. z \in Seq(Y) /\ Len(z) = N /\ N \in Nat /\ Head(l) = l[1]
      /\ DOMAIN z = 1 .. N /\ DOMAIN l = 1 .. (N + 1) /\ \A i \in 1 .. N : z[i] = l[i + 1]
  <2> HIDE DEF WaitingFor
  <2> QED BY <1>1
<1> HIDE DEF z, N
<1>3. 1 \in 1 .. (N + 1) /\ \A i \in 1 .. N : i + 1 \in 1 .. (N + 1) /\ i + 1 # 1
  BY <1>2
<1>4. \A i, j \in 1 .. N : i + 1 = j + 1 => i = j
  BY <1>2
<1>5. WaitingFor(z, st)
  <2>1. SUFFICES ASSUME NEW i \in 1 .. N, z[i] \in Session
                 PROVE  st[z[i]] = "waiting" /\ \A j \in 1 .. N : z[j] = z[i] => i = j
    BY <1>2, <2>1, Zenon DEF WaitingFor
  <2>2. st[l[i + 1]] = "waiting" /\ \A j \in 1 .. (N + 1) : l[j] = l[i + 1] => i + 1 = j
    BY <1>2, <1>3, <2>1, Zenon DEF WaitingFor
  <2>3. \A j \in 1 .. N : z[j] = z[i] => i + 1 = j + 1
    BY <1>2, <1>3, <2>2, Zenon
  <2> QED BY <1>2, <1>4, <2>2, <2>3, Zenon
<1>6. Head(l) \in Session => st[Head(l)] = "waiting" /\ \A i \in 1 .. N : z[i] # Head(l)
  <2>1. l[1] \in Session => st[l[1]] = "waiting" /\ \A j \in 1 .. (N + 1) : l[j] = l[1] => 1 = j
    BY <1>2, <1>3, Zenon DEF WaitingFor
  <2>2. l[1] \in Session => \A i \in 1 .. N : l[i + 1] # l[1]
    BY <1>3, <2>1, Zenon
  <2> QED BY <1>2, <2>1, <2>2, Zenon
<1> QED BY <1>2, <1>5, <1>6, Zenon DEF z, Y

(* A connection that was not waiting goes to the end of the backlog.       *)
LEMMA WaitingAppend ==
  ASSUME NEW l \in Seq(Session \cup {"page", "wake"}), NEW st, WaitingFor(l, st),
         NEW x \in Session \cup {"page", "wake"}, NEW su,
         \A s \in Session : st[s] = "waiting" => su[s] = "waiting",
         x \in Session => su[x] = "waiting" /\ st[x] # "waiting"
  PROVE  Append(l, x) \in Seq(Session \cup {"page", "wake"}) /\ WaitingFor(Append(l, x), su)
<1> DEFINE Y == Session \cup {"page", "wake"}
           z == Append(l, x)
           N == Len(l)
<1>1. l \in Seq(Y) /\ x \in Y
  OBVIOUS
<1> HIDE DEF Y
<1>2. z \in Seq(Y) /\ N \in Nat /\ DOMAIN z = 1 .. (N + 1) /\ DOMAIN l = 1 .. N
      /\ z[N + 1] = x /\ (\A i \in 1 .. N : z[i] = l[i])
  BY <1>1
<1> HIDE DEF z, N
<1>3. \A i \in 1 .. (N + 1) : i \in 1 .. N \/ i = N + 1
  BY <1>2
<1>4. \A i \in 1 .. N : l[i] \in Session =>
        st[l[i]] = "waiting" /\ \A j \in 1 .. N : l[j] = l[i] => i = j
  BY <1>2, Zenon DEF WaitingFor
<1>5. \A i \in 1 .. N : x \in Session => l[i] # x
  BY <1>4, Zenon
<1>6. ASSUME NEW i \in 1 .. (N + 1), z[i] \in Session
      PROVE  su[z[i]] = "waiting" /\ \A j \in 1 .. (N + 1) : z[j] = z[i] => i = j
  <2>1. CASE i \in 1 .. N
    BY <1>2, <1>3, <1>4, <1>5, <1>6, <2>1, Zenon
  <2>2. CASE i = N + 1
    BY <1>2, <1>3, <1>4, <1>5, <1>6, <2>2, Zenon
  <2> QED BY <1>3, <2>1, <2>2, Zenon
<1>7. WaitingFor(z, su)
  BY <1>2, <1>6, Zenon DEF WaitingFor
<1> QED BY <1>2, <1>7, Zenon DEF z, Y

----------------------------------------------------------------------------
(* The steps.                                                              *)

(* What the server, and whoever publishes, may change without a session.   *)
LEMMA Undisturbed ==
  ASSUME WebInv,
         UNCHANGED <<sent, inbox, buffer, out, command, done, hungup, queue, since, uri, session,
                     subscribers, published, avail>>,
         backlog' \in Seq(Session \cup {"page", "wake"}), WaitingFor(backlog', session)
  PROVE  WebInv'
<1>1. Types'
  BY DEF WebInv, Types
<1>2. TalkInv'
  BY Zenon DEF WebInv, TalkInv
<1>3. SubInv'
  BY DEF WebInv, SubInv
<1>4. PhaseInv'
  BY DEF WebInv, PhaseInv
<1>5. Waiting'
  BY DEF Waiting
<1> QED BY <1>1, <1>2, <1>3, <1>4, <1>5, Zenon DEF WebInv

(* A step of one session, or of its client.                                *)
Only(s) ==
  /\ published' = published
  /\ \A t \in Session : t # s =>
       /\ Gone(t, hungup') = Gone(t, hungup)
       /\ sent'[t] = sent[t] /\ buffer'[t] = buffer[t] /\ inbox'[t] = inbox[t]
       /\ out'[t] = out[t] /\ command'[t] = command[t] /\ done'[t] = done[t]
       /\ queue'[t] = queue[t] /\ since'[t] = since[t] /\ uri'[t] = uri[t]
       /\ session'[t] = session[t]
       /\ \A c \in Channel : t \in subscribers'[c] <=> t \in subscribers[c]

(* A step that concerns one session keeps the invariant if it keeps it for *)
(* that session.                                                           *)
LEMMA OneSession ==
  ASSUME WebInv, NEW s \in Session, Types', Only(s), Waiting',
         OneTalk(sent[s], buffer[s], inbox[s], out[s], command[s], done[s], Gone(s, hungup))',
         OneSub(s, out[s], queue[s], since[s], uri[s], session[s], subscribers, published)',
         OnePhase(session[s], buffer[s], out[s], done[s])'
  PROVE  WebInv'
<1>1. TalkInv'
  <2>1. ASSUME NEW t \in Session, t # s
        PROVE  OneTalk(sent[t], buffer[t], inbox[t], out[t], command[t], done[t], Gone(t, hungup))'
    <3>1. OneTalk(sent[t], buffer[t], inbox[t], out[t], command[t], done[t], Gone(t, hungup))
      BY Zenon DEF WebInv, TalkInv
    <3>2. /\ Gone(t, hungup') = Gone(t, hungup)
          /\ sent'[t] = sent[t] /\ buffer'[t] = buffer[t] /\ inbox'[t] = inbox[t]
          /\ out'[t] = out[t] /\ command'[t] = command[t] /\ done'[t] = done[t]
      BY <2>1, Zenon DEF Only
    <3> QED BY <3>1, <3>2, Zenon
  <2> QED BY <2>1, Zenon DEF TalkInv
<1>2. SubInv'
  <2>1. ASSUME NEW t \in Session, t # s
        PROVE  OneSub(t, out[t], queue[t], since[t], uri[t], session[t], subscribers, published)'
    <3>1. OneSub(t, out[t], queue[t], since[t], uri[t], session[t], subscribers, published)
      BY Zenon DEF WebInv, SubInv
    <3>2. /\ out'[t] = out[t] /\ queue'[t] = queue[t] /\ since'[t] = since[t]
          /\ uri'[t] = uri[t] /\ session'[t] = session[t] /\ published' = published
      BY <2>1, Zenon DEF Only
    <3>3. \A c \in Channel : t \in subscribers'[c] <=> t \in subscribers[c]
      BY <2>1, Zenon DEF Only
    <3>4. OneSub(t, out[t], queue[t], since[t], uri[t], session[t], subscribers', published)
      BY <3>1, <3>3, Zenon DEF OneSub
    <3> QED BY <3>2, <3>4, Zenon
  <2> QED BY <2>1, Zenon DEF SubInv
<1>3. PhaseInv'
  <2>1. ASSUME NEW t \in Session, t # s
        PROVE  OnePhase(session[t], buffer[t], out[t], done[t])'
    <3>1. OnePhase(session[t], buffer[t], out[t], done[t])
      BY Zenon DEF WebInv, PhaseInv
    <3>2. /\ session'[t] = session[t] /\ buffer'[t] = buffer[t]
          /\ out'[t] = out[t] /\ done'[t] = done[t]
      BY <2>1, Zenon DEF Only
    <3> QED BY <3>1, <3>2, Zenon
  <2> QED BY <2>1, Zenon DEF PhaseInv
<1> QED BY <1>1, <1>2, <1>3, Zenon DEF WebInv

(* What holds of one session.                                              *)
LEMMA Session1 ==
  ASSUME WebInv, NEW s \in Session
  PROVE  /\ OneTalk(sent[s], buffer[s], inbox[s], out[s], command[s], done[s], Gone(s, hungup))
         /\ OneSub(s, out[s], queue[s], since[s], uri[s], session[s], subscribers, published)
         /\ OnePhase(session[s], buffer[s], out[s], done[s])
         /\ out[s] \in Seq(Outs) /\ done[s] \in BOOLEAN
<1>1. OneTalk(sent[s], buffer[s], inbox[s], out[s], command[s], done[s], Gone(s, hungup))
  BY Zenon DEF WebInv, TalkInv
<1>2. out[s] \in Seq(Outs) /\ done[s] \in BOOLEAN
  BY <1>1, Zenon DEF OneTalk, Talk
<1> QED BY <1>1, <1>2, Zenon DEF WebInv, SubInv, PhaseInv

(* A session that was not waiting goes on.                                 *)
LEMMA WaitingStays ==
  ASSUME WebInv, backlog' = backlog,
         \A t \in Session : session[t] = "waiting" => session'[t] = "waiting"
  PROVE  Waiting'
BY Zenon DEF WebInv, Waiting, WaitingFor

----------------------------------------------------------------------------
(* The server.                                                             *)

(* The accepting thread, quit, the requests for pages and the publisher    *)
(* that formats a message do not touch the sessions.                       *)
LEMMA ServerKeeps ==
  ASSUME WebInv, Listening \/ Join \/ Shutdown \/ ServePage \/ Connect \/ AskForPage
                 \/ \E c \in Channel : Render(c)
  PROVE  WebInv'
<1>1. backlog \in Seq(Session \cup {"page", "wake"}) /\ WaitingFor(backlog, session)
  BY Zenon DEF WebInv, Types, Waiting
<1>2. UNCHANGED <<sent, inbox, buffer, out, command, done, hungup, queue, since, uri, session,
                  subscribers, published, avail>>
  BY DEF Listening, Join, Shutdown, ServePage, Connect, AskForPage, Render, clientVars,
         sessionVars, channelVars
<1>3. \/ backlog' = backlog
      \/ backlog # <<>> /\ backlog' = Tail(backlog)
      \/ \E x \in {"page", "wake"} : backlog' = Append(backlog, x)
  BY Zenon DEF Listening, Join, Shutdown, ServePage, Connect, AskForPage, Render
<1>4. CASE backlog' = backlog
  BY <1>1, <1>2, <1>4, Undisturbed, Zenon
<1>5. CASE backlog # <<>> /\ backlog' = Tail(backlog)
  <2>1. backlog' \in Seq(Session \cup {"page", "wake"}) /\ WaitingFor(backlog', session)
    BY <1>1, <1>5, WaitingTail, Zenon
  <2> QED BY <1>2, <2>1, Undisturbed
<1>6. ASSUME NEW x \in {"page", "wake"}, backlog' = Append(backlog, x) PROVE WebInv'
  <2>1. x \notin Session /\ x \in Session \cup {"page", "wake"}
    BY WebAssumption
  <2>2. backlog' \in Seq(Session \cup {"page", "wake"}) /\ WaitingFor(backlog', session)
    BY <1>1, <1>6, <2>1, WaitingAppend, Zenon
  <2> QED BY <1>2, <2>2, Undisturbed, Zenon
<1> QED BY <1>3, <1>4, <1>5, <1>6, Zenon

----------------------------------------------------------------------------
(* The sessions.                                                           *)

(* A session goes on from one place in its loop to another.                *)
LEMMA MovesOn ==
  ASSUME WebInv, NEW s \in Session, NEW there \in Live,
         session[s] \in Live, session' = [session EXCEPT ![s] = there],
         done[s] => there \notin {"select", "read"}, avail' \in [Session -> SUBSET {"socket", "cv"}],
         UNCHANGED <<backlog, sent, inbox, buffer, out, command, done, hungup, queue, since, uri,
                     subscribers, published>>
  PROVE  WebInv'
<1>1. Types /\ DOMAIN session = Session
  BY Zenon DEF WebInv, Types
<1>2. session'[s] = there /\ DOMAIN session' = Session
      /\ \A t \in Session : t # s => session'[t] = session[t]
  BY <1>1, Zenon
<1>3. Types'
  BY <1>1, <1>2, Zenon DEF Types
<1>4. Only(s)
  BY <1>2, Zenon DEF Only
<1>5. Waiting'
  <2>1. session[s] # "waiting"
    BY Zenon DEF Live
  <2>2. \A t \in Session : session[t] = "waiting" => session'[t] = "waiting"
    BY <1>2, <2>1, Zenon
  <2> QED BY <2>2, WaitingStays, Zenon
<1>6. OneTalk(sent[s], buffer[s], inbox[s], out[s], command[s], done[s], Gone(s, hungup))'
  BY Session1, Zenon
<1>7. OneSub(s, out[s], queue[s], since[s], uri[s], session[s], subscribers, published)'
  <2>1. OneSub(s, out[s], queue[s], since[s], uri[s], there, subscribers, published)
    BY Session1, Zenon DEF OneSub
  <2> QED BY <1>2, <2>1, Zenon
<1>8. OnePhase(session[s], buffer[s], out[s], done[s])'
  <2>1. OnePhase(there, buffer[s], out[s], done[s])
    BY DEF OnePhase, Live, Early, Asked
  <2> QED BY <1>2, <2>1, Zenon
<1> QED BY <1>3, <1>4, <1>5, <1>6, <1>7, <1>8, OneSession, Zenon

(* block_for_input, the pipe that is reset, the queue that is empty, and   *)
(* the end of a turn.                                                      *)
LEMMA TurnsKeep ==
  ASSUME WebInv, NEW s \in Session, BlockForInput(s) \/ Reset(s) \/ Popped(s) \/ Loop(s)
  PROVE  WebInv'
<1>0. avail \in [Session -> SUBSET {"socket", "cv"}] /\ done[s] \in BOOLEAN
      /\ OnePhase(session[s], buffer[s], out[s], done[s])
  BY Session1, Zenon DEF WebInv, Types
<1>1. UNCHANGED <<backlog, sent, inbox, buffer, out, command, done, hungup, queue, since, uri,
                  subscribers, published>>
  BY Zenon DEF BlockForInput, Reset, Popped, Loop, serverVars, clientVars, channelVars
<1>2. ASSUME NEW there, session[s] \in Live, there \in Live,
             session' = [session EXCEPT ![s] = there],
             done[s] => there \notin {"select", "read"},
             avail' \in [Session -> SUBSET {"socket", "cv"}]
      PROVE  WebInv'
  BY <1>1, <1>2, MovesOn, Zenon
<1>3. CASE BlockForInput(s)
  <2> DEFINE there == IF "socket" \in avail'[s] THEN "read" ELSE "reset"
  <2>1. session[s] = "select" /\ session' = [session EXCEPT ![s] = there]
    BY <1>3, Zenon DEF BlockForInput
  <2>2. session[s] \in Live /\ there \in Live
    BY <2>1 DEF Live
  <2>3. ~done[s]
    BY <1>0, <2>1, Zenon DEF OnePhase
  <2>4. avail' = [avail EXCEPT ![s] = {"socket"}] \/ avail' = [avail EXCEPT ![s] = Readable(s)]
    BY <1>3, Zenon DEF BlockForInput
  <2>5. Readable(s) \in SUBSET {"socket", "cv"}
    BY Zenon DEF Readable
  <2>6. avail' \in [Session -> SUBSET {"socket", "cv"}]
    BY <1>0, <2>4, <2>5, Zenon
  <2> HIDE DEF there
  <2> QED BY <1>2, <2>1, <2>2, <2>3, <2>6, Zenon
<1>4. CASE Reset(s)
  <2>1. session[s] = "reset" /\ session' = [session EXCEPT ![s] = "pop"] /\ avail' = avail
    BY <1>4, Zenon DEF Reset, At
  <2>2. session[s] \in Live /\ "pop" \in Live /\ "pop" \notin {"select", "read"}
    BY <2>1 DEF Live
  <2> QED BY <1>0, <1>2, <2>1, <2>2, Zenon
<1>5. CASE Popped(s)
  <2>1. session[s] = "pop" /\ session' = [session EXCEPT ![s] = "loop"] /\ avail' = avail
    BY <1>5, Zenon DEF Popped, At
  <2>2. session[s] \in Live /\ "loop" \in Live /\ "loop" \notin {"select", "read"}
    BY <2>1 DEF Live
  <2> QED BY <1>0, <1>2, <2>1, <2>2, Zenon
<1>6. CASE Loop(s)
  <2> DEFINE there == IF done[s] THEN "end" ELSE "select"
  <2>1. session[s] = "loop" /\ session' = [session EXCEPT ![s] = there] /\ avail' = avail
    BY <1>6, Zenon DEF Loop, At
  <2>2. session[s] \in Live /\ there \in Live /\ (done[s] => there \notin {"select", "read"})
    BY <1>0, <2>1, Zenon DEF Live
  <2> HIDE DEF there
  <2> QED BY <1>0, <1>2, <2>1, <2>2, Zenon
<1> QED BY <1>3, <1>4, <1>5, <1>6, Zenon

(* new_subscriber.                                                         *)
LEMMA SubscribeKeeps ==
  ASSUME WebInv, NEW s \in Session, Subscribe(s)
  PROVE  WebInv'
<1> DEFINE c == uri[s]
<1>1. Types /\ DOMAIN session = Session /\ since \in [Session -> Nat]
      /\ subscribers \in [Channel -> SUBSET Session] /\ published \in [Channel -> Nat]
      /\ c \in Channel \cup {NoChannel}
  BY Zenon DEF WebInv, Types
<1>2. session[s] = "subscribe" /\ session' = [session EXCEPT ![s] = "select"]
  BY Zenon DEF Subscribe, At
<1>3. UNCHANGED <<backlog, sent, inbox, buffer, out, command, done, hungup, queue, uri, avail,
                  published>>
  BY DEF Subscribe, serverVars, clientVars
<1>4. IF c = NoChannel THEN subscribers' = subscribers /\ since' = since
      ELSE /\ subscribers' = [subscribers EXCEPT ![c] = @ \cup {s}]
           /\ since' = [since EXCEPT ![s] = published[c]]
  BY DEF Subscribe
<1>5. session'[s] = "select" /\ DOMAIN session' = Session
      /\ \A t \in Session : t # s => session'[t] = session[t]
  BY <1>1, <1>2
<1>6. since' \in [Session -> Nat] /\ (\A t \in Session : t # s => since'[t] = since[t])
      /\ (c # NoChannel => since'[s] = published[c])
  BY <1>1, <1>4
<1>7. subscribers' \in [Channel -> SUBSET Session]
      /\ \A d \in Channel : /\ \A t \in Session : t # s => (t \in subscribers'[d] <=> t \in subscribers[d])
                            /\ s \in subscribers'[d] => s \in subscribers[d] \/ d = c
  BY <1>1, <1>4
<1>8. Types'
  BY <1>1, <1>3, <1>5, <1>6, <1>7, Zenon DEF Types
<1>9. Only(s)
  BY <1>3, <1>5, <1>6, <1>7, Zenon DEF Only
<1>10. Waiting'
  <2>1. session[s] # "waiting"
    BY <1>2
  <2>2. \A t \in Session : session[t] = "waiting" => session'[t] = "waiting"
    BY <1>5, <2>1, Zenon
  <2> QED BY <1>3, <2>2, WaitingStays, Zenon
<1>11. OneTalk(sent[s], buffer[s], inbox[s], out[s], command[s], done[s], Gone(s, hungup))'
  BY <1>3, Session1, Zenon
<1>12. out[s] = <<>> /\ ~done[s]
  BY <1>2, Session1, Zenon DEF OnePhase, Early, Asked
<1>13. (\A d \in Channel : s \notin subscribers[d]) /\ queue[s] = <<>>
  <2>1. session[s] \notin Live
    BY <1>2 DEF Live
  <2> QED BY <2>1, Session1, Zenon DEF OneSub
<1>14. OneSub(s, out[s], queue[s], since[s], uri[s], session[s], subscribers, published)'
  <2>1. Counted(<<>>, <<>>, since'[s]) /\ Numbers(<<>>, <<>>) = <<>>
    BY CountedNone, Zenon
  <2>2. "select" \in Live
    BY DEF Live
  <2>3. ASSUME NEW d \in Channel, s \in subscribers'[d]
        PROVE  uri[s] = d /\ Len(<<>>) + since'[s] = published[d]
    <3>1. d = c
      BY <1>7, <1>13, <2>3, Zenon
    <3>2. c # NoChannel
      BY <3>1, WebAssumption
    <3>3. published[c] \in Nat
      BY <1>1, <3>1
    <3> QED BY <1>6, <3>1, <3>2, <3>3
  <2>4. OneSub(s, <<>>, <<>>, since'[s], uri[s], "select", subscribers', published)
    BY <2>1, <2>2, <2>3, Zenon DEF OneSub
  <2> QED BY <1>3, <1>5, <1>12, <1>13, <2>4, Zenon
<1>15. OnePhase(session[s], buffer[s], out[s], done[s])'
  <2>1. OnePhase("select", buffer[s], out[s], done[s])
    BY <1>12 DEF OnePhase, Early, Asked
  <2> QED BY <1>3, <1>5, <2>1, Zenon
<1> QED BY <1>8, <1>9, <1>10, <1>11, <1>14, <1>15, OneSession, Zenon

(* A session whose thread has not started is subscribed to nothing.        *)
LEMMA NotSubscribed ==
  ASSUME WebInv, NEW s \in Session, session[s] \notin Live
  PROVE  (\A c \in Channel : s \notin subscribers[c]) /\ queue[s] = <<>>
BY Session1, Zenon DEF OneSub

(* A request is accepted, or its answer cannot be sent.                    *)
LEMMA UpgradeKeeps ==
  ASSUME WebInv, NEW s \in Session,
         UpgradeFails(s) \/ \E n \in 0 .. Len(inbox[s]) : Upgrade(s, n)
  PROVE  WebInv'
<1>1. Types /\ DOMAIN session = Session /\ DOMAIN buffer = Session /\ DOMAIN inbox = Session
      /\ backlog \in Seq(Session \cup {"page", "wake"}) /\ WaitingFor(backlog, session)
  BY Zenon DEF WebInv, Types, Waiting
<1>2. backlog # <<>> /\ Head(backlog) = s /\ backlog' = Tail(backlog)
  BY Zenon DEF UpgradeFails, Upgrade
<1>3. UNCHANGED <<sent, out, command, done, hungup, queue, uri, avail, published, since,
                  subscribers>>
  BY DEF UpgradeFails, Upgrade, clientVars, channelVars
<1>4. PICK there \in {"subscribe", "refused"} : session' = [session EXCEPT ![s] = there]
  BY Zenon DEF UpgradeFails, Upgrade
<1>5. session'[s] = there /\ DOMAIN session' = Session
      /\ \A t \in Session : t # s => session'[t] = session[t]
  BY <1>1, <1>4
<1>6. /\ backlog' \in Seq(Session \cup {"page", "wake"}) /\ WaitingFor(backlog', session)
      /\ session[s] = "waiting" /\ \A i \in DOMAIN backlog' : backlog'[i] # s
  BY <1>1, <1>2, WaitingTail, Zenon
<1>7. Waiting'
  BY <1>5, <1>6, Zenon DEF Waiting, WaitingFor
<1>8. OnePhase(session[s], buffer[s], out[s], done[s])
  BY Session1, Zenon
<1>9. buffer[s] = <<>> /\ out[s] = <<>> /\ ~done[s]
  BY <1>6, <1>8, Zenon DEF OnePhase, Early, Asked
<1>10. (\A c \in Channel : s \notin subscribers[c]) /\ queue[s] = <<>>
  <2>1. session[s] \notin Live
    BY <1>6 DEF Live
  <2> QED BY <2>1, NotSubscribed, Zenon
<1>11. OneSub(s, out[s], queue[s], since[s], uri[s], session[s], subscribers, published)'
  <2>1. OneSub(s, out[s], queue[s], since[s], uri[s], there, subscribers, published)
    BY <1>10, Session1, Zenon DEF OneSub
  <2> QED BY <1>3, <1>5, <2>1, Zenon
<1>12. ASSUME DOMAIN buffer' = Session, DOMAIN inbox' = Session,
              \A t \in Session : t # s => buffer'[t] = buffer[t] /\ inbox'[t] = inbox[t],
              OneTalk(sent[s], buffer'[s], inbox'[s], out[s], command[s], done[s], Gone(s, hungup))
       PROVE  WebInv'
  <2>1. Types'
    BY <1>1, <1>3, <1>5, <1>6, <1>12, Zenon DEF Types
  <2>2. Only(s)
    BY <1>3, <1>5, <1>12, Zenon DEF Only
  <2>3. OneTalk(sent[s], buffer[s], inbox[s], out[s], command[s], done[s], Gone(s, hungup))'
    BY <1>3, <1>12, Zenon
  <2>4. OnePhase(session[s], buffer[s], out[s], done[s])'
    <3>1. OnePhase(there, buffer'[s], out[s], done[s])
      BY <1>9, Zenon DEF OnePhase, Early, Asked
    <3> QED BY <1>3, <1>5, <3>1, Zenon
  <2> QED BY <1>7, <1>11, <2>1, <2>2, <2>3, <2>4, OneSession, Zenon
<1>13. CASE UpgradeFails(s)
  <2>1. buffer' = buffer /\ inbox' = inbox
    BY <1>13 DEF UpgradeFails
  <2> QED BY <1>1, <1>12, <2>1, Session1, Zenon
<1>14. ASSUME NEW n \in 0 .. Len(inbox[s]), Upgrade(s, n) PROVE WebInv'
  <2>1. buffer' = [buffer EXCEPT ![s] = SubSeq(inbox[s], 1, n)]
        /\ inbox' = [inbox EXCEPT ![s] = SubSeq(@, n + 1, Len(@))]
    BY <1>14 DEF Upgrade
  <2>2. /\ buffer'[s] = SubSeq(inbox[s], 1, n) /\ DOMAIN buffer' = Session
        /\ inbox'[s] = SubSeq(inbox[s], n + 1, Len(inbox[s])) /\ DOMAIN inbox' = Session
        /\ \A t \in Session : t # s => buffer'[t] = buffer[t] /\ inbox'[t] = inbox[t]
    BY <1>1, <2>1
  <2>3. OneTalk(sent[s], <<>>, inbox[s], out[s], command[s], done[s], Gone(s, hungup))
    BY <1>9, Session1, Zenon
  <2>4. OneTalk(sent[s], SubSeq(inbox[s], 1, n), SubSeq(inbox[s], n + 1, Len(inbox[s])),
                out[s], command[s], done[s], Gone(s, hungup))
    BY <2>3, SessionStarts, Zenon
  <2> QED BY <1>12, <2>2, <2>4, Zenon
<1> QED BY <1>13, <1>14, Zenon

(* A client asks for a session.                                            *)
LEMMA AskKeeps ==
  ASSUME WebInv, NEW c \in Channel \cup {NoChannel}, AskForSession(c)
  PROVE  WebInv'
<1>1. Types /\ DOMAIN session = Session /\ uri \in [Session -> Channel \cup {NoChannel}]
      /\ backlog \in Seq(Session \cup {"page", "wake"}) /\ WaitingFor(backlog, session)
  BY Zenon DEF WebInv, Types, Waiting
<1>2. PICK s \in Session : /\ session[s] = "none" /\ uri' = [uri EXCEPT ![s] = c]
                           /\ session' = [session EXCEPT ![s] = "waiting"]
                           /\ backlog' = Append(backlog, s)
  <2> DEFINE s == CHOOSE t \in Session : session[t] = "none"
  <2>1. s \in Session /\ session[s] = "none"
    BY Zenon DEF AskForSession
  <2>2. /\ uri' = [uri EXCEPT ![s] = c]
        /\ session' = [session EXCEPT ![s] = "waiting"]
        /\ backlog' = Append(backlog, s)
    BY Zenon DEF AskForSession
  <2> HIDE DEF s
  <2> QED BY <2>1, <2>2, Zenon
<1>3. UNCHANGED <<sent, inbox, buffer, out, command, done, hungup, queue, avail, published, since,
                  subscribers>>
  BY DEF AskForSession, channelVars
<1>4. session'[s] = "waiting" /\ DOMAIN session' = Session
      /\ \A t \in Session : t # s => session'[t] = session[t]
  BY <1>1, <1>2
<1>5. uri' \in [Session -> Channel \cup {NoChannel}]
      /\ \A t \in Session : t # s => uri'[t] = uri[t]
  BY <1>1, <1>2
<1>6. backlog' \in Seq(Session \cup {"page", "wake"}) /\ Waiting'
  <2>1. s \in Session \cup {"page", "wake"} /\ session[s] # "waiting"
    BY <1>2
  <2>2. \A t \in Session : session[t] = "waiting" => session'[t] = "waiting"
    BY <1>4, Zenon
  <2>3. backlog' \in Seq(Session \cup {"page", "wake"}) /\ WaitingFor(backlog', session')
    BY <1>1, <1>2, <1>4, <2>1, <2>2, WaitingAppend, Zenon
  <2> QED BY <2>3, Zenon DEF Waiting
<1>7. Types'
  BY <1>1, <1>3, <1>4, <1>5, <1>6, Zenon DEF Types
<1>8. Only(s)
  BY <1>3, <1>4, <1>5, Zenon DEF Only
<1>9. OneTalk(sent[s], buffer[s], inbox[s], out[s], command[s], done[s], Gone(s, hungup))'
  BY <1>3, Session1, Zenon
<1>10. (\A d \in Channel : s \notin subscribers[d]) /\ queue[s] = <<>>
  <2>1. session[s] \notin Live
    BY <1>2 DEF Live
  <2> QED BY <2>1, NotSubscribed, Zenon
<1>11. OneSub(s, out[s], queue[s], since[s], uri[s], session[s], subscribers, published)'
  <2>1. OneSub(s, out[s], queue[s], since[s], uri'[s], session'[s], subscribers, published)
    BY <1>10, Session1, Zenon DEF OneSub
  <2> QED BY <1>3, <2>1, Zenon
<1>12. OnePhase(session[s], buffer[s], out[s], done[s])'
  <2>1. OnePhase("none", buffer[s], out[s], done[s])
    BY <1>2, Session1, Zenon
  <2>2. OnePhase("waiting", buffer[s], out[s], done[s])
    BY <2>1, Zenon DEF OnePhase, Early, Asked
  <2> QED BY <1>3, <1>4, <2>2, Zenon
<1> QED BY <1>6, <1>7, <1>8, <1>9, <1>11, <1>12, OneSession, Zenon

(* A client sends frames or hangs up.                                      *)
LEMMA ClientKeeps ==
  ASSUME WebInv, NEW s \in Session, HangUp(s) \/ \E b \in Bursts : SendFrames(s, b)
  PROVE  WebInv'
<1>1. Types /\ DOMAIN sent = Session /\ DOMAIN inbox = Session
  BY Zenon DEF WebInv, Types
<1>2. UNCHANGED <<backlog, session, buffer, out, command, done, queue, uri, avail, published, since,
                  subscribers>> /\ s \notin hungup
  BY DEF HangUp, SendFrames, channelVars, sessionVars, serverVars, Connected
<1>3. Waiting'
  <2>1. \A t \in Session : session[t] = "waiting" => session'[t] = "waiting"
    BY <1>2
  <2> QED BY <1>2, <2>1, WaitingStays
<1>4. OneSub(s, out[s], queue[s], since[s], uri[s], session[s], subscribers, published)'
      /\ OnePhase(session[s], buffer[s], out[s], done[s])'
  BY <1>2, Session1, Zenon
<1>5. CASE HangUp(s)
  <2>1. hungup' = hungup \cup {s} /\ sent' = sent /\ inbox' = inbox
    BY <1>5 DEF HangUp, sessionVars
  <2>2. Types'
    BY <1>1, <1>2, <2>1, Zenon DEF Types
  <2>3. \A t \in Session : t # s => Gone(t, hungup') = Gone(t, hungup)
    BY <2>1 DEF Gone
  <2>4. Only(s)
    BY <1>2, <2>1, <2>3, Zenon DEF Only
  <2>5. Gone(s, hungup') = TRUE
    BY <2>1 DEF Gone
  <2>6. OneTalk(sent[s], buffer[s], inbox[s], out[s], command[s], done[s], TRUE)
    BY Session1, SessionHangs, Zenon
  <2>7. OneTalk(sent[s], buffer[s], inbox[s], out[s], command[s], done[s], Gone(s, hungup))'
    BY <1>2, <2>1, <2>5, <2>6, Zenon
  <2> QED BY <1>3, <1>4, <2>2, <2>4, <2>7, OneSession, Zenon
<1>6. ASSUME NEW b \in Bursts, SendFrames(s, b) PROVE WebInv'
  <2>1. sent' = [sent EXCEPT ![s] = @ \o b] /\ inbox' = [inbox EXCEPT ![s] = @ \o b]
        /\ hungup' = hungup
    BY <1>6, Zenon DEF SendFrames
  <2>2. /\ sent'[s] = sent[s] \o b /\ inbox'[s] = inbox[s] \o b
        /\ DOMAIN sent' = Session /\ DOMAIN inbox' = Session
        /\ \A t \in Session : t # s => sent'[t] = sent[t] /\ inbox'[t] = inbox[t]
    BY <1>1, <2>1, Zenon
  <2>3. Types'
    BY <1>1, <1>2, <2>2, Zenon DEF Types
  <2>4. Only(s)
    BY <1>2, <2>1, <2>2, Zenon DEF Only
  <2>5. Gone(s, hungup) = FALSE
    BY <1>2 DEF Gone
  <2>6. b \in Seq(Frames)
    BY WebAssumption, Zenon
  <2>7. OneTalk(sent[s], buffer[s], inbox[s], out[s], command[s], done[s], FALSE)
    BY <2>5, Session1, Zenon
  <2>8. OneTalk(sent[s] \o b, buffer[s], inbox[s] \o b, out[s], command[s], done[s], FALSE)
    BY <2>6, <2>7, SessionSends, Zenon
  <2>9. OneTalk(sent[s], buffer[s], inbox[s], out[s], command[s], done[s], Gone(s, hungup))'
    BY <1>2, <2>1, <2>2, <2>5, <2>8, Zenon
  <2> QED BY <1>3, <1>4, <2>3, <2>4, <2>9, OneSession, Zenon
<1> QED BY <1>5, <1>6, Zenon

(* What socket_read leaves behind, for a frame or for the end.             *)
LEMMA ReadLeaves ==
  ASSUME WebInv, NEW s \in Session, NEW end \in BOOLEAN, session[s] = "read",
         session' = [session EXCEPT ![s] = AfterRead(s, end)], done' = [done EXCEPT ![s] = end],
         DOMAIN out' = Session, DOMAIN command' = Session, DOMAIN buffer' = Session,
         DOMAIN inbox' = Session,
         \A t \in Session : t # s => /\ out'[t] = out[t] /\ command'[t] = command[t]
                                     /\ buffer'[t] = buffer[t] /\ inbox'[t] = inbox[t],
         UNCHANGED <<backlog, sent, hungup, queue, since, uri, subscribers, published, avail>>,
         OneTalk(sent[s], buffer'[s], inbox'[s], out'[s], command'[s], end, Gone(s, hungup)),
         out'[s] = out[s] \/ \E x \in Outs : x.op # "push" /\ out'[s] = Append(out[s], x)
  PROVE  WebInv'
<1>1. Types /\ DOMAIN session = Session /\ DOMAIN done = Session
  BY Zenon DEF WebInv, Types
<1> DEFINE there == AfterRead(s, end)
<1>2. there \in {"reset", "end", "select"} /\ (end => there # "select")
  BY Zenon DEF AfterRead
<1> HIDE DEF there
<1>3. session'[s] = there /\ DOMAIN session' = Session
      /\ \A t \in Session : t # s => session'[t] = session[t]
  BY <1>1, Zenon DEF there
<1>4. done'[s] = end /\ DOMAIN done' = Session /\ \A t \in Session : t # s => done'[t] = done[t]
  BY <1>1, Zenon
<1>5. Types'
  BY <1>1, <1>3, <1>4, Zenon DEF Types
<1>6. Only(s)
  BY <1>3, <1>4, Zenon DEF Only
<1>7. Waiting'
  <2>1. session[s] # "waiting"
    BY Zenon
  <2>2. \A t \in Session : session[t] = "waiting" => session'[t] = "waiting"
    BY <1>3, <2>1, Zenon
  <2> QED BY <2>2, WaitingStays, Zenon
<1>8. OneTalk(sent[s], buffer[s], inbox[s], out[s], command[s], done[s], Gone(s, hungup))'
  BY <1>4, Zenon
<1>9. Numbers(out'[s], queue[s]) = Numbers(out[s], queue[s])
  <2>1. out[s] \in Seq(Outs)
    BY Session1, Zenon
  <2> QED BY <2>1, CountedSay, Zenon
<1>10. OneSub(s, out[s], queue[s], since[s], uri[s], session[s], subscribers, published)'
  <2>1. OneSub(s, out[s], queue[s], since[s], uri[s], session[s], subscribers, published)
    BY Session1, Zenon
  <2>2. there \in Live
    BY <1>2, Zenon DEF Live
  <2>3. OneSub(s, out'[s], queue[s], since[s], uri[s], there, subscribers, published)
    BY <1>9, <2>1, <2>2, Zenon DEF OneSub, Counted
  <2> QED BY <1>3, <2>3, Zenon
<1>11. OnePhase(session[s], buffer[s], out[s], done[s])'
  <2>1. OnePhase(there, buffer'[s], out'[s], end)
    BY <1>2, Zenon DEF OnePhase, Early, Asked
  <2> QED BY <1>3, <1>4, <2>1, Zenon
<1> QED BY <1>5, <1>6, <1>7, <1>8, <1>10, <1>11, OneSession, Zenon

(* A session that reads: it finds the end of the stream, or takes frames   *)
(* into its buffer and handles the first.                                  *)
LEMMA ReadKeeps ==
  ASSUME WebInv, NEW s \in Session,
         EndOfStream(s) \/ \E n \in 0 .. Len(inbox[s]) : SocketRead(s, n)
  PROVE  WebInv'
<1>1. DOMAIN out = Session /\ DOMAIN command = Session /\ DOMAIN buffer = Session
      /\ DOMAIN inbox = Session
  BY Zenon DEF WebInv, Types
<1>2. session[s] = "read"
  BY Zenon DEF EndOfStream, SocketRead, At
<1>3. UNCHANGED <<backlog, sent, hungup, queue, since, uri, subscribers, published, avail>>
  BY Zenon DEF EndOfStream, SocketRead, serverVars, clientVars, channelVars
<1>4. done[s] = FALSE
  BY <1>2, Session1, Zenon DEF OnePhase
<1>5. OneTalk(sent[s], buffer[s], inbox[s], out[s], command[s], FALSE, Gone(s, hungup))
  BY <1>4, Session1, Zenon
<1>6. CASE EndOfStream(s)
  <2>1. /\ buffer[s] = <<>> /\ inbox[s] = <<>> /\ Gone(s, hungup) = TRUE
        /\ session' = [session EXCEPT ![s] = AfterRead(s, TRUE)]
        /\ out' = [out EXCEPT ![s] = Append(@, Sent("close", <<>>))]
        /\ done' = [done EXCEPT ![s] = TRUE]
        /\ UNCHANGED <<inbox, buffer, command>>
    BY <1>6, Zenon DEF EndOfStream, At, Gone
  <2>2. DOMAIN out' = Session /\ out'[s] = Append(out[s], Sent("close", <<>>))
        /\ \A t \in Session : t # s => out'[t] = out[t]
    BY <1>1, <2>1, Zenon
  <2>3. OneTalk(sent[s], <<>>, <<>>, out[s], command[s], FALSE, TRUE)
    BY <1>5, <2>1, Zenon
  <2>4. OneTalk(sent[s], <<>>, <<>>, out'[s], command[s], TRUE, TRUE)
    BY <2>2, <2>3, SessionEnds, Zenon
  <2>5. OneTalk(sent[s], buffer'[s], inbox'[s], out'[s], command'[s], TRUE, Gone(s, hungup))
    BY <2>1, <2>4, Zenon
  <2>6. Sent("close", <<>>) \in Outs /\ Sent("close", <<>>).op # "push"
    BY DEF Sent, Outs
  <2>7. \E x \in Outs : x.op # "push" /\ out'[s] = Append(out[s], x)
    BY <2>2, <2>6, Zenon
  <2> QED BY <1>1, <1>2, <1>3, <2>1, <2>2, <2>5, <2>7, ReadLeaves, Zenon
<1>7. ASSUME NEW n \in 0 .. Len(inbox[s]), SocketRead(s, n) PROVE WebInv'
  <2> DEFINE held == buffer[s] \o SubSeq(inbox[s], 1, n)
             r == socket_read(Head(held), command[s])
             p == SubSeq(inbox[s], n + 1, Len(inbox[s]))
  <2>1. /\ IF buffer[s] = <<>> THEN n > 0 ELSE n = 0
        /\ session' = [session EXCEPT ![s] = AfterRead(s, r.done)]
        /\ out' = [out EXCEPT ![s] = @ \o r.send]
        /\ command' = [command EXCEPT ![s] = r.command]
        /\ done' = [done EXCEPT ![s] = r.done]
        /\ buffer' = [buffer EXCEPT ![s] = Tail(held)]
        /\ inbox' = [inbox EXCEPT ![s] = SubSeq(@, n + 1, Len(@))]
    BY <1>7, Zenon DEF SocketRead
  <2>2. /\ OneTalk(sent[s], Tail(held), p, out[s] \o r.send, r.command, r.done, Gone(s, hungup))
        /\ Replied(out[s], r) /\ out[s] \in Seq(Outs)
    BY <1>5, <2>1, SessionReads, Zenon
  <2> HIDE DEF held, r
  <2>3. /\ r.done \in BOOLEAN
        /\ \/ out[s] \o r.send = out[s]
           \/ \E x \in Outs : x.op # "push" /\ out[s] \o r.send = Append(out[s], x)
    BY <2>2, Zenon DEF Replied
  <2>4. /\ DOMAIN out' = Session /\ out'[s] = out[s] \o r.send
        /\ DOMAIN command' = Session /\ command'[s] = r.command
        /\ DOMAIN buffer' = Session /\ buffer'[s] = Tail(held)
        /\ DOMAIN inbox' = Session /\ inbox'[s] = p
        /\ \A t \in Session : t # s => /\ out'[t] = out[t] /\ command'[t] = command[t]
                                       /\ buffer'[t] = buffer[t] /\ inbox'[t] = inbox[t]
    BY <1>1, <2>1, Zenon
  <2>5. OneTalk(sent[s], buffer'[s], inbox'[s], out'[s], command'[s], r.done, Gone(s, hungup))
    BY <2>2, <2>4, Zenon
  <2>6. out'[s] = out[s] \/ \E x \in Outs : x.op # "push" /\ out'[s] = Append(out[s], x)
    BY <2>3, <2>4, Zenon
  <2> DEFINE e == r.done
  <2>7. e \in BOOLEAN /\ session' = [session EXCEPT ![s] = AfterRead(s, e)]
        /\ done' = [done EXCEPT ![s] = e]
    BY <2>1, <2>3, Zenon
  <2>8. OneTalk(sent[s], buffer'[s], inbox'[s], out'[s], command'[s], e, Gone(s, hungup))
    BY <2>5, Zenon
  <2> HIDE DEF e
  <2> QED BY <1>2, <1>3, <2>4, <2>6, <2>7, <2>8, ReadLeaves, Zenon
<1> QED BY <1>6, <1>7, Zenon

(* The session ends, and its subscription with it.                         *)
LEMMA EndKeeps ==
  ASSUME WebInv, NEW s \in Session, ResetRaises(s) \/ End(s)
  PROVE  WebInv'
<1>1. Types /\ DOMAIN session = Session /\ queue \in [Session -> Seq(Nat)]
      /\ subscribers \in [Channel -> SUBSET Session] /\ since \in [Session -> Nat]
  BY Zenon DEF WebInv, Types
<1>2. session[s] \in {"reset", "end"} /\ session' = [session EXCEPT ![s] = "ended"]
  BY Zenon DEF ResetRaises, End, At
<1>3. UNCHANGED <<backlog, sent, inbox, buffer, out, command, done, hungup, since, uri, published,
                  avail>> /\ queue' = [queue EXCEPT ![s] = <<>>]
  BY Zenon DEF ResetRaises, End, serverVars, clientVars
<1>4. session'[s] = "ended" /\ DOMAIN session' = Session
      /\ \A t \in Session : t # s => session'[t] = session[t]
  BY <1>1, <1>2
<1>5. queue' \in [Session -> Seq(Nat)] /\ queue'[s] = <<>>
      /\ \A t \in Session : t # s => queue'[t] = queue[t]
  BY <1>1, <1>3
<1>6. \A c \in Channel : s \in subscribers[c] => uri[s] = c
  BY Session1, Zenon DEF OneSub
<1>7. /\ subscribers' \in [Channel -> SUBSET Session]
      /\ \A c \in Channel : /\ s \notin subscribers'[c]
                            /\ \A t \in Session : t # s => (t \in subscribers'[c] <=> t \in subscribers[c])
  <2>1. CASE End(s)
    <3>1. subscribers' = [c \in Channel |-> subscribers[c] \ {s}]
      BY <2>1, Zenon DEF End
    <3> QED BY <1>1, <3>1, Zenon
  <2>2. CASE ResetRaises(s)
    <3>1. subscribers' = [subscribers EXCEPT ![uri[s]] = @ \ {s}]
      BY <2>2, Zenon DEF ResetRaises
    <3> QED BY <1>1, <1>6, <3>1, Zenon
  <2> QED BY <2>1, <2>2, Zenon
<1>8. Types'
  BY <1>1, <1>3, <1>4, <1>5, <1>7, Zenon DEF Types
<1>9. Only(s)
  BY <1>3, <1>4, <1>5, <1>7, Zenon DEF Only
<1>10. Waiting'
  <2>1. session[s] # "waiting"
    BY <1>2
  <2>2. \A t \in Session : session[t] = "waiting" => session'[t] = "waiting"
    BY <1>4, <2>1, Zenon
  <2> QED BY <1>3, <2>2, WaitingStays, Zenon
<1>11. OneTalk(sent[s], buffer[s], inbox[s], out[s], command[s], done[s], Gone(s, hungup))'
  BY <1>3, Session1, Zenon
<1>12. OneSub(s, out[s], queue[s], since[s], uri[s], session[s], subscribers, published)'
  <2>1. Counted(out[s], queue[s], since[s]) /\ out[s] \in Seq(Outs)
    BY Session1, Zenon DEF OneSub
  <2>2. queue[s] \in Seq(Nat) /\ since[s] \in Nat
    BY <1>1
  <2>3. Counted(out[s], <<>>, since[s])
    BY <2>1, <2>2, CountedMore, Zenon
  <2>4. OneSub(s, out[s], <<>>, since[s], uri[s], session'[s], subscribers', published)
    BY <1>7, <2>3, Zenon DEF OneSub
  <2> QED BY <1>3, <1>5, <2>4, Zenon
<1>13. OnePhase(session[s], buffer[s], out[s], done[s])'
  <2>1. OnePhase("ended", buffer[s], out[s], done[s])
    BY DEF OnePhase, Early, Asked
  <2> QED BY <1>3, <1>4, <2>1, Zenon
<1> QED BY <1>8, <1>9, <1>10, <1>11, <1>12, <1>13, OneSession, Zenon

(* subscriber::pop, and the message that goes to the client.               *)
LEMMA PopKeeps ==
  ASSUME WebInv, NEW s \in Session, Pop(s)
  PROVE  WebInv'
<1>1. Types /\ DOMAIN out = Session /\ queue \in [Session -> Seq(Nat)]
  BY Zenon DEF WebInv, Types
<1>2. /\ session[s] = "pop" /\ queue[s] # <<>>
      /\ out' = [out EXCEPT ![s] = Append(@, Sent("push", Head(queue[s])))]
      /\ queue' = [queue EXCEPT ![s] = Tail(@)]
  BY Zenon DEF Pop
<1>3. UNCHANGED <<backlog, sent, inbox, buffer, session, command, done, hungup, since, uri, avail,
                  published, subscribers>>
  BY Zenon DEF Pop, serverVars, clientVars
<1> DEFINE o == Append(out[s], Sent("push", Head(queue[s])))
           q == Tail(queue[s])
<1>4. out[s] \in Seq(Outs) /\ queue[s] \in Seq(Nat)
  BY <1>1, Session1, Zenon
<1>5. Numbers(o, q) = Numbers(out[s], queue[s]) /\ q \in Seq(Nat) /\ Head(queue[s]) \in Nat
  BY <1>2, <1>4, CountedPop, Zenon
<1>6. OneTalk(sent[s], buffer[s], inbox[s], o, command[s], done[s], Gone(s, hungup))
  BY <1>5, Session1, SessionPushes, Zenon
<1> HIDE DEF o, q
<1>7. out'[s] = o /\ DOMAIN out' = Session /\ \A t \in Session : t # s => out'[t] = out[t]
  BY <1>1, <1>2 DEF o
<1>8. queue'[s] = q /\ queue' \in [Session -> Seq(Nat)]
      /\ \A t \in Session : t # s => queue'[t] = queue[t]
  <2>1. queue' = [queue EXCEPT ![s] = q]
    BY <1>2, Zenon DEF q
  <2> QED BY <1>1, <1>5, <2>1, Zenon
<1>9. Types'
  BY <1>1, <1>3, <1>7, <1>8, Zenon DEF Types
<1>10. Only(s)
  BY <1>3, <1>7, <1>8, Zenon DEF Only
<1>11. Waiting'
  <2>1. \A t \in Session : session[t] = "waiting" => session'[t] = "waiting"
    BY <1>3
  <2> QED BY <1>3, <2>1, WaitingStays, Zenon
<1>12. OneTalk(sent[s], buffer[s], inbox[s], out[s], command[s], done[s], Gone(s, hungup))'
  BY <1>3, <1>6, <1>7, Zenon
<1>13. OneSub(s, out[s], queue[s], since[s], uri[s], session[s], subscribers, published)'
  <2>1. OneSub(s, out[s], queue[s], since[s], uri[s], session[s], subscribers, published)
    BY Session1, Zenon
  <2>2. \E c \in Channel : s \in subscribers[c]
    BY <1>2, <2>1, Zenon DEF OneSub
  <2>3. OneSub(s, o, q, since[s], uri[s], session[s], subscribers, published)
    BY <1>5, <2>1, <2>2, Zenon DEF OneSub, Counted
  <2> QED BY <1>3, <1>7, <1>8, <2>3, Zenon
<1>14. OnePhase(session[s], buffer[s], out[s], done[s])'
  <2>1. OnePhase("pop", buffer[s], o, done[s])
    BY DEF OnePhase, Early, Asked
  <2> QED BY <1>2, <1>3, <1>7, <2>1, Zenon
<1> QED BY <1>9, <1>10, <1>11, <1>12, <1>13, <1>14, OneSession, Zenon

(* publish: the message goes to every subscriber's queue.                  *)
LEMMA PushKeeps ==
  ASSUME WebInv, NEW c \in Channel, Push(c)
  PROVE  WebInv'
<1>1. Types /\ queue \in [Session -> Seq(Nat)] /\ published \in [Channel -> Nat]
      /\ since \in [Session -> Nat] /\ Waiting
  BY Zenon DEF WebInv, Types
<1>2. /\ published' = [published EXCEPT ![c] = @ + 1]
      /\ queue' = [s \in Session |->
                     IF s \in subscribers[c] THEN Append(queue[s], published'[c]) ELSE queue[s]]
  BY Zenon DEF Push
<1>3. UNCHANGED <<backlog, sent, inbox, buffer, out, session, command, done, hungup, since, uri,
                  avail, subscribers>>
  BY Zenon DEF Push, serverVars, clientVars, sessionVars
<1> DEFINE v == published[c] + 1
<1>4. published[c] \in Nat /\ v \in Nat /\ published'[c] = v /\ published' \in [Channel -> Nat]
      /\ \A d \in Channel : d # c => published'[d] = published[d]
  BY <1>1, <1>2
<1>5. queue' \in [Session -> Seq(Nat)]
  <2>1. \A s \in Session : queue[s] \in Seq(Nat)
    BY <1>1
  <2> HIDE DEF v
  <2>2. \A s \in Session : Append(queue[s], v) \in Seq(Nat)
    BY <1>4, <2>1
  <2> QED BY <1>2, <1>4, <2>1, <2>2, Zenon
<1> HIDE DEF v
<1>6. Types'
  BY <1>1, <1>3, <1>4, <1>5, Zenon DEF Types
<1>7. TalkInv' /\ PhaseInv' /\ Waiting'
  <2>1. TalkInv'
    BY <1>3, Zenon DEF WebInv, TalkInv
  <2>2. PhaseInv'
    BY <1>3, Zenon DEF WebInv, PhaseInv
  <2>3. Waiting'
    BY <1>1, <1>3, Zenon DEF Waiting
  <2> QED BY <2>1, <2>2, <2>3, Zenon
<1>8. ASSUME NEW s \in Session
      PROVE  OneSub(s, out[s], queue[s], since[s], uri[s], session[s], subscribers, published)'
  <2>1. OneSub(s, out[s], queue[s], since[s], uri[s], session[s], subscribers, published)
        /\ out[s] \in Seq(Outs)
    BY Session1, Zenon
  <2>2. CASE s \notin subscribers[c]
    <3>1. queue'[s] = queue[s]
      BY <1>2, <2>2, Zenon
    <3>2. \A d \in Channel : s \in subscribers[d] => published'[d] = published[d]
      BY <1>4, <2>2, Zenon
    <3>3. OneSub(s, out[s], queue[s], since[s], uri[s], session[s], subscribers, published')
      BY <2>1, <3>2, Zenon DEF OneSub
    <3> QED BY <1>3, <3>1, <3>3, Zenon
  <2>3. CASE s \in subscribers[c]
    <3> DEFINE n == Len(Numbers(out[s], queue[s]))
               k == since[s]
               q == Append(queue[s], v)
    <3>1. queue'[s] = q
      BY <1>2, <1>4, <2>3, Zenon
    <3>2. Counted(out[s], queue[s], k) /\ n + k = published[c] /\ uri[s] = c /\ session[s] \in Live
          /\ \A d \in Channel : s \in subscribers[d] => d = c
      BY <2>1, <2>3, Zenon DEF OneSub
    <3>3. queue[s] \in Seq(Nat) /\ k \in Nat
      BY <1>1
    <3>4. v = (n + k) + 1
      BY <3>2, Zenon DEF v
    <3>5. n \in Nat /\ Counted(out[s], q, k) /\ Len(Numbers(out[s], q)) = n + 1
      <4>1. /\ n \in Nat
            /\ \A w \in Nat : w = (n + k) + 1 =>
                 Counted(out[s], Append(queue[s], w), k)
                 /\ Len(Numbers(out[s], Append(queue[s], w))) = n + 1
        BY <2>1, <3>2, <3>3, CountedMore, Zenon
      <4> HIDE DEF n, k
      <4> QED BY <1>4, <3>4, <4>1, Zenon
    <3> DEFINE l == Len(Numbers(out[s], q))
    <3>6. l + k = published'[c]
      <4>1. l = n + 1 /\ n \in Nat /\ k \in Nat /\ v = (n + k) + 1 /\ published'[c] = v
        BY <1>4, <3>3, <3>4, <3>5, Zenon
      <4> HIDE DEF l, n, k
      <4>2. l + k = v
        BY <4>1
      <4> QED BY <4>1, <4>2, Zenon
    <3>7. \A d \in Channel : s \in subscribers[d] =>
            uri[s] = d /\ session[s] \in Live /\ l + k = published'[d]
      BY <3>2, <3>6, Zenon
    <3>8. OneSub(s, out[s], q, k, uri[s], session[s], subscribers, published')
      <4> HIDE DEF q, k
      <4> QED BY <2>3, <3>5, <3>7, Zenon DEF OneSub
    <3> QED BY <1>3, <3>1, <3>8, Zenon
  <2> QED BY <2>2, <2>3, Zenon
<1> QED BY <1>6, <1>7, <1>8, Zenon DEF WebInv, SubInv

----------------------------------------------------------------------------
(* At first, and after every step.                                         *)

(* At first nothing has been asked for, said or published.                 *)
LEMMA InitKeeps == Init => WebInv
<1> SUFFICES ASSUME Init PROVE WebInv
  OBVIOUS
<1>1. /\ backlog = <<>> /\ hungup = {} /\ uri = [s \in Session |-> NoChannel]
      /\ sent = [s \in Session |-> <<>>] /\ inbox = sent /\ buffer = sent /\ out = sent
      /\ session = [s \in Session |-> "none"] /\ avail = [s \in Session |-> {}]
      /\ done = [s \in Session |-> FALSE] /\ command = [s \in Session |-> Unknown]
      /\ since = [s \in Session |-> 0] /\ queue = [s \in Session |-> <<>>]
      /\ subscribers = [c \in Channel |-> {}] /\ published = [c \in Channel |-> 0]
  BY Zenon DEF Init
<1>2. Types
  BY <1>1 DEF Types
<1>3. TalkInv
  <2>1. ASSUME NEW s \in Session
        PROVE  OneTalk(sent[s], buffer[s], inbox[s], out[s], command[s], done[s], Gone(s, hungup))
    <3>1. Gone(s, hungup) = FALSE
      BY <1>1 DEF Gone
    <3>2. /\ sent[s] = <<>> /\ buffer[s] = <<>> /\ inbox[s] = <<>> /\ out[s] = <<>>
          /\ command[s] = Unknown /\ done[s] = FALSE
      BY <1>1
    <3> QED BY <3>1, <3>2, SessionInit, Zenon
  <2> QED BY <2>1, Zenon DEF TalkInv
<1>4. SubInv
  <2>1. ASSUME NEW s \in Session
        PROVE  OneSub(s, out[s], queue[s], since[s], uri[s], session[s], subscribers, published)
    <3>1. out[s] = <<>> /\ queue[s] = <<>> /\ \A c \in Channel : s \notin subscribers[c]
      BY <1>1
    <3>2. Counted(<<>>, <<>>, since[s])
      BY CountedNone, Zenon
    <3> QED BY <3>1, <3>2, Zenon DEF OneSub
  <2> QED BY <2>1, Zenon DEF SubInv
<1>5. PhaseInv
  BY <1>1 DEF PhaseInv, OnePhase, Early, Asked
<1>6. Waiting
  BY <1>1 DEF Waiting, WaitingFor
<1> QED BY <1>2, <1>3, <1>4, <1>5, <1>6, Zenon DEF WebInv

(* Every step of the server, a session, a client or a publisher keeps the  *)
(* invariant.                                                              *)
LEMMA NextKeeps == WebInv /\ [Next]_vars => WebInv'
<1> SUFFICES ASSUME WebInv, [Next]_vars PROVE WebInv'
  OBVIOUS
<1>1. CASE UNCHANGED vars
  <2>1. UNCHANGED <<backlog, sent, inbox, buffer, out, command, done, hungup, queue, since, uri,
                    session, subscribers, published, avail>>
    BY <1>1, Zenon DEF vars, serverVars, clientVars, sessionVars, channelVars
  <2>2. backlog \in Seq(Session \cup {"page", "wake"}) /\ WaitingFor(backlog, session)
    BY Zenon DEF WebInv, Types, Waiting
  <2> QED BY <2>1, <2>2, Undisturbed
<1>2. ASSUME ServerNext PROVE WebInv'
  BY <1>2, ServerKeeps, UpgradeKeeps, Zenon DEF ServerNext
<1>3. ASSUME NEW s \in Session, SessionNext(s) PROVE WebInv'
  <2>1. ASSUME BlockForInput(s) \/ Reset(s) \/ Popped(s) \/ Loop(s) PROVE WebInv'
    BY <2>1, TurnsKeep, Zenon
  <2>2. ASSUME EndOfStream(s) \/ \E n \in 0 .. Len(inbox[s]) : SocketRead(s, n) PROVE WebInv'
    BY <2>2, ReadKeeps, Zenon
  <2>3. ASSUME ResetRaises(s) \/ End(s) PROVE WebInv'
    BY <2>3, EndKeeps, Zenon
  <2> QED BY <1>3, <2>1, <2>2, <2>3, SubscribeKeeps, PopKeeps, Zenon DEF SessionNext
<1>4. ASSUME Shutdown \/ Connect \/ AskForPage PROVE WebInv'
  BY <1>4, ServerKeeps, Zenon
<1>5. ASSUME NEW c \in Channel, Render(c) \/ Push(c) PROVE WebInv'
  BY <1>5, ServerKeeps, PushKeeps, Zenon
<1>6. ASSUME NEW s \in Session, HangUp(s) \/ \E b \in Bursts : SendFrames(s, b) PROVE WebInv'
  BY <1>6, ClientKeeps, Zenon
<1>7. ASSUME NEW c \in Channel \cup {NoChannel}, AskForSession(c) PROVE WebInv'
  BY <1>7, AskKeeps, Zenon
<1> QED BY <1>1, <1>2, <1>3, <1>4, <1>5, <1>6, <1>7, Zenon DEF Next

(* WebInv holds in every state that the server can reach.                  *)
LEMMA WebInvariant == Spec => []WebInv
<1>1. Init => WebInv
  BY InitKeeps
<1>2. WebInv /\ [Next]_vars => WebInv'
  BY NextKeeps
<1> QED BY <1>1, <1>2, PTL DEF Spec

----------------------------------------------------------------------------
(* The frames of a client come back as its messages: socket_read and       *)
(* check_message_complete, for frames of all kinds in every order.         *)
THEOREM EchoesMessages == Spec => []EchoesAsSent
<1>1. WebInv => EchoesAsSent
  <2> SUFFICES ASSUME WebInv, NEW s \in Session
               PROVE  LET fs == Handled(s)
                          echoes == {i \in DOMAIN out[s] : out[s][i].op \in {"text", "binary"}}
                          ends == Listed({j \in DOMAIN fs : Completes(fs, j) /\ ~Fails(fs, j)})
                      IN Subsequence(out[s], echoes) = [n \in DOMAIN ends |-> Message(fs, ends[n])]
    BY Zenon DEF EchoesAsSent
  <2> DEFINE fs == Read(sent[s], buffer[s], inbox[s])
  <2>2. Talk(fs, out[s], command[s], done[s], Gone(s, hungup) /\ Len(fs) = Len(sent[s]))
    BY Session1, Zenon DEF OneTalk
  <2>3. Subsequence(out[s], Kinds(out[s], {"text", "binary"})) = Echoes(fs)
    BY <2>2, Zenon DEF Talk
  <2>4. Handled(s) = fs
    BY Zenon DEF Handled, Read
  <2> HIDE DEF fs
  <2> QED BY <2>3, <2>4, Zenon DEF Kinds, Echoes, Ends
<1> QED BY <1>1, WebInvariant, PTL

(* The connection is failed once, where the protocol demands it.           *)
THEOREM ClosesWhenItMust == Spec => []ClosesOnce
<1>1. WebInv => ClosesOnce
  <2> SUFFICES ASSUME WebInv PROVE ClosesOnce
    OBVIOUS
  <2>1. ASSUME NEW s \in Session
        PROVE  LET fs == Handled(s)
                   closes == {i \in DOMAIN out[s] : out[s][i].op = "close"}
               IN /\ \A j \in 1 .. Len(fs) - 1 : ~Fails(fs, j)
                  /\ Cardinality(closes) = IF done[s] THEN 1 ELSE 0
                  /\ fs # <<>> /\ Fails(fs, Len(fs)) => done[s]
                  /\ done[s] => \/ s \in hungup /\ Len(fs) = Len(sent[s])
                                \/ fs # <<>> /\ Fails(fs, Len(fs))
                  /\ \A i \in closes, k \in DOMAIN out[s] : k > i => out[s][k].op = "push"
    <3> DEFINE fs == Read(sent[s], buffer[s], inbox[s])
               over == Gone(s, hungup) /\ Len(fs) = Len(sent[s])
               C == Kinds(out[s], {"close"})
               closes == {i \in DOMAIN out[s] : out[s][i].op = "close"}
    <3>1. Talk(fs, out[s], command[s], done[s], over)
      BY Session1, Zenon DEF OneTalk
    <3>2. Handled(s) = fs
      BY Zenon DEF Handled, Read
    <3>3. C = closes
      BY DEF Kinds
    <3>4. over <=> s \in hungup /\ Len(fs) = Len(sent[s])
      BY Zenon DEF Gone
    <3> HIDE DEF fs, over, closes
    <3>5. (\A j \in 1 .. Len(fs) - 1 : ~Fails(fs, j)) /\ (FailsLast(fs) => done[s])
          /\ (done[s] => over \/ FailsLast(fs))
      BY <3>1, Zenon DEF Talk
    <3>6. (done[s] => \E i \in DOMAIN out[s] : closes = {i}) /\ (~done[s] => closes = {})
      <4>1. (done[s] => \E i \in DOMAIN out[s] : C = {i}) /\ (~done[s] => C = {})
        BY <3>1, Zenon DEF Talk
      <4> HIDE DEF C
      <4> QED BY <3>3, <4>1, Zenon
    <3>7. \A i \in closes, k \in DOMAIN out[s] : k > i => out[s][k].op = "push"
      <4>1. \A i \in C, k \in DOMAIN out[s] : k > i => out[s][k].op = "push"
        BY <3>1, Zenon DEF Talk
      <4> HIDE DEF C
      <4> QED BY <3>3, <4>1, Zenon
    <3>8. Cardinality(closes) = IF done[s] THEN 1 ELSE 0
      <4>1. Cardinality({}) = 0 /\ \A i : Cardinality({i}) = 1
        BY FS_EmptySet, FS_Singleton, Zenon
      <4>2. CASE done[s]
        BY <3>6, <4>1, <4>2, Zenon
      <4>3. CASE ~done[s]
        BY <3>6, <4>1, <4>3, Zenon
      <4> QED BY <4>2, <4>3, Zenon
    <3> QED BY <3>2, <3>4, <3>5, <3>7, <3>8, Zenon DEF closes, FailsLast
  <2> QED BY <2>1, Zenon DEF ClosesOnce
<1> QED BY <1>1, WebInvariant, PTL

(* A subscriber is sent the messages of its channel, in order and all.     *)
THEOREM PushesInOrder == Spec => []PushedInOrder
<1>1. WebInv => PushedInOrder
  <2> SUFFICES ASSUME WebInv PROVE PushedInOrder
    OBVIOUS
  <2>1. ASSUME NEW s \in Session
        PROVE  LET pushed == Subsequence(out[s], {i \in DOMAIN out[s] : out[s][i].op = "push"})
                   numbers == [i \in DOMAIN pushed |-> pushed[i].payload] \o queue[s]
               IN /\ numbers = [i \in 1 .. Len(numbers) |-> since[s] + i]
                  /\ \A c \in Channel : s \in subscribers[c] => Len(numbers) = published[c] - since[s]
    <3> DEFINE N == Numbers(out[s], queue[s])
               K == {i \in DOMAIN out[s] : out[s][i].op = "push"}
               pushed == Subsequence(out[s], K)
               numbers == [i \in DOMAIN pushed |-> pushed[i].payload] \o queue[s]
    <3>1. OneSub(s, out[s], queue[s], since[s], uri[s], session[s], subscribers, published)
          /\ out[s] \in Seq(Outs)
      BY Session1, Zenon
    <3>2. K = Kinds(out[s], {"push"})
      BY DEF Kinds
    <3>3. numbers = N
      BY <3>2, Zenon DEF Numbers, Pushed
    <3>4. queue[s] \in Seq(Nat) /\ since[s] \in Nat /\ \A c \in Channel : published[c] \in Nat
      BY DEF WebInv, Types
    <3>5. Len(N) \in Nat
      BY <3>1, <3>4, CountedMore, Zenon DEF OneSub
    <3>6. N = [i \in 1 .. Len(N) |-> since[s] + i]
      BY <3>1, Zenon DEF OneSub, Counted
    <3>7. \A c \in Channel : s \in subscribers[c] => Len(N) + since[s] = published[c]
      BY <3>1, Zenon DEF OneSub
    <3> HIDE DEF N, numbers
    <3>8. \A c \in Channel : s \in subscribers[c] => Len(N) = published[c] - since[s]
      BY <3>4, <3>5, <3>7
    <3>9. /\ numbers = [i \in 1 .. Len(numbers) |-> since[s] + i]
          /\ \A c \in Channel : s \in subscribers[c] => Len(numbers) = published[c] - since[s]
      BY <3>3, <3>6, <3>8, Zenon
    <3> QED BY <3>9, Zenon DEF numbers
  <2> QED BY <2>1, Zenon DEF PushedInOrder
<1> QED BY <1>1, WebInvariant, PTL
============================================================================
