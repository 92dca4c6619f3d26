---------------------------- MODULE PartsProofs ----------------------------
(* The commands that the broker puts together are the ones that were sent, *)
(* whatever the lengths of the texts and the order in which their parts    *)
(* arrive, and an incomplete one is not kept for long.                     *)
EXTENDS Parts, SequenceTheorems, WellFoundedInduction, TLAPS

----------------------------------------------------------------------------
(* The text of a command: cut into parts and put together again.           *)

Text == Seq(Char \cup {Blank})

(* A set of natural numbers that is not empty has a least element.         *)
LEMMA LeastElement ==
  ASSUME NEW T \in SUBSET Nat, T # {}
  PROVE  \E m \in T : \A k \in T : m <= k
<1>1. PICK m \in T : \A k \in T : ~(<<k, m>> \in OpToRel(<, Nat))
  BY NatLessThanWellFounded, WFMin, Zenon
<1>2. \A k \in T : ~(k < m)
  BY <1>1, Zenon DEF OpToRel
<1> QED BY <1>2

(* num_parts is what it takes.                                             *)
LEMMA NumPartsFacts ==
  ASSUME NEW s \in Text, s # <<>>
  PROVE  /\ num_parts(s) \in Nat /\ num_parts(s) > 0
         /\ (num_parts(s) - 1) * payload_chars < Len(s)
         /\ Len(s) <= num_parts(s) * payload_chars
<1>1. payload_chars \in Nat /\ payload_chars > 0
  BY PartsAssumption
<1>2. Len(s) \in Nat /\ Len(s) > 0
  BY DEF Text
<1> DEFINE n == num_parts(s)
<1>3. n \in Int /\ n * payload_chars <= Len(s) + payload_chars - 1
      /\ Len(s) + payload_chars - 1 < (n + 1) * payload_chars
  BY <1>1, <1>2 DEF num_parts
<1> HIDE DEF n
<1>4. (n - 1) * payload_chars = n * payload_chars - payload_chars
      /\ (n + 1) * payload_chars = n * payload_chars + payload_chars
      /\ n * payload_chars \in Int
  BY <1>1, <1>3
<1>5. (n - 1) * payload_chars < Len(s) /\ Len(s) <= n * payload_chars
  BY <1>1, <1>2, <1>3, <1>4
<1>6. n > 0
  BY <1>1, <1>2, <1>3, <1>5
<1> QED BY <1>3, <1>5, <1>6 DEF n

(* g[i] is the text that the loop of Join has after i steps.               *)
Joins(g, n, w) ==
  g = [i \in 0..n |->
         IF i = 0 THEN <<>>
         ELSE g[i - 1] \o (IF i - 1 \in DOMAIN w.s
                           THEN w.s[i - 1].text ELSE <<>>)]

(* Join is what its loop computes: there is one function like that.        *)
LEMMA JoinFacts ==
  ASSUME NEW w, NEW n \in Nat, w.size = n, NEW g, Joins(g, n, w)
  PROVE  Join(w) = g[n]
<1> USE DEF Joins
<1> DEFINE q(i) == IF i - 1 \in DOMAIN w.s THEN w.s[i - 1].text ELSE <<>>
           f == CHOOSE f : f = [i \in 0..n |->
                                  IF i = 0 THEN <<>> ELSE f[i - 1] \o q(i)]
<1>1. f = [i \in 0..n |-> IF i = 0 THEN <<>> ELSE f[i - 1] \o q(i)]
  BY Zenon
<1>2. Join(w) = f[n]
  BY Zenon DEF Join
<1> HIDE DEF f
<1>3. \A i \in 0..n : f[i] = IF i = 0 THEN <<>> ELSE f[i - 1] \o q(i)
  BY <1>1, Zenon
<1>4. \A i \in 0..n : g[i] = IF i = 0 THEN <<>> ELSE g[i - 1] \o q(i)
  BY Zenon
<1> HIDE DEF q
<1>5. \A i \in 0..n : f[i] = g[i]
  <2> DEFINE T == {i \in 0..n : f[i] # g[i]}
  <2>1. SUFFICES ASSUME T # {} PROVE FALSE
    OBVIOUS
  <2>2. T \in SUBSET Nat
    OBVIOUS
  <2> HIDE DEF T
  <2>3. PICK m \in T : \A k \in T : m <= k
    BY <2>1, <2>2, LeastElement
  <2> USE DEF T
  <2>4. m \in 0..n /\ f[m] # g[m]
    BY <2>3
  <2>5. m # 0
    BY <1>3, <1>4, <2>4
  <2>6. m - 1 \in 0..n /\ ~(m <= m - 1)
    BY ONLY <2>4, <2>5
  <2>7. f[m - 1] = g[m - 1]
    BY <2>3, <2>6, Zenon
  <2> QED BY <1>3, <1>4, <2>4, <2>5, <2>7, Zenon
<1> QED BY <1>2, <1>5

(* The characters of part i: the first i parts have the ones before.       *)
LEMMA ChunkFacts ==
  ASSUME NEW s \in Text, s # <<>>, NEW i \in 0..(num_parts(s) - 1)
  PROVE  LET last == Min({Len(s), (i + 1) * payload_chars})
         IN /\ last \in Nat /\ i * payload_chars < last
            /\ last <= Len(s) /\ last <= i * payload_chars + payload_chars
            /\ i < num_parts(s) - 1 => last = (i + 1) * payload_chars
            /\ i = num_parts(s) - 1 => last = Len(s)
            /\ Chunk(s, i) = SubSeq(s, i * payload_chars + 1, last)
<1> DEFINE n == num_parts(s)
           a == i * payload_chars
           b == (i + 1) * payload_chars
           last == Min({Len(s), b})
<1>1. payload_chars \in Nat /\ payload_chars > 0
  BY PartsAssumption
<1>2. n \in Nat /\ n > 0 /\ (n - 1) * payload_chars < Len(s) /\ Len(s) <= n * payload_chars
  BY NumPartsFacts
<1>3. Len(s) \in Nat
  BY DEF Text
<1>4. a \in Nat /\ b = a + payload_chars /\ b \in Nat
  BY <1>1, <1>2
<1>5. i <= n - 1 /\ i \in Nat
  BY <1>2
<1>6. a <= (n - 1) * payload_chars
  BY <1>1, <1>2, <1>5
<1>7. i < n - 1 => b <= (n - 1) * payload_chars
  BY <1>1, <1>2, <1>5
<1>8. i = n - 1 => b = n * payload_chars
  BY <1>1, <1>2
<1>9. (n - 1) * payload_chars \in Int /\ n * payload_chars \in Int
  BY <1>1, <1>2
<1>10. Chunk(s, i) = SubSeq(s, a + 1, last)
  BY DEF Chunk
<1>11. last \in {Len(s), b} /\ last <= Len(s) /\ last <= b
  <2> HIDE DEF a, b
  <2>1. \E x \in {Len(s), b} : \A y \in {Len(s), b} : x <= y
    BY <1>3, <1>4
  <2> QED BY <2>1 DEF Min
<1> HIDE DEF a, b, n, last
<1>12. /\ last \in Nat /\ a < last
       /\ last <= Len(s) /\ last <= a + payload_chars
       /\ i < n - 1 => last = b
       /\ i = n - 1 => last = Len(s)
  BY <1>1, <1>2, <1>3, <1>4, <1>6, <1>7, <1>8, <1>9, <1>11
<1> QED BY <1>10, <1>12 DEF a, b, n, last

(* What extract_payload finds in a part is what get_payload put there.     *)
LEMMA ExtractFacts ==
  ASSUME NEW s \in Text, Len(s) \in 1..payload_chars, NEW m,
         m.payload = get_payload(s)
  PROVE  extract_payload(m) = s
<1>1. payload_chars \in Nat
  BY PartsAssumption
<1>2. \A i \in 1..payload_chars :
        m.payload[i] = IF i <= Len(s) THEN s[i] ELSE NUL
  BY DEF get_payload
<1>3. \A i \in 1..Len(s) : s[i] # NUL
  <2>1. \A i \in 1..Len(s) : s[i] \in Char \cup {Blank}
    BY DEF Text
  <2>2. Blank # NUL
    BY DEF Blank, NUL
  <2> QED BY <2>1, <2>2, PartsAssumption
<1> DEFINE S == {i \in 0..payload_chars : i = 0 \/ m.payload[i] # NUL}
<1>4. Len(s) \in S /\ S \subseteq Nat /\ \A i \in S : i <= Len(s)
  BY <1>1, <1>2, <1>3
<1> HIDE DEF S
<1>5. Max(S) = Len(s)
  <2>1. Len(s) \in S /\ \A y \in S : Len(s) >= y
    BY <1>4
  <2>2. Max(S) \in S /\ \A y \in S : Max(S) >= y
    BY <2>1, Zenon DEF Max
  <2>3. Max(S) >= Len(s) /\ Max(S) <= Len(s) /\ Max(S) \in Nat
    BY <1>4, <2>2, Zenon
  <2>4. Len(s) \in Nat
    BY <1>4, Zenon
  <2> DEFINE x == Max(S)
  <2>5. x >= Len(s) /\ x <= Len(s) /\ x \in Nat
    BY <2>3
  <2> HIDE DEF x
  <2>6. x = Len(s)
    BY <2>4, <2>5
  <2> QED BY <2>6 DEF x
<1>6. extract_payload(m) = SubSeq(m.payload, 1, Len(s))
  BY <1>5, Zenon DEF extract_payload, S
<1> DEFINE t == m.payload
<1>7. t \in Seq(Char \cup {Blank, NUL}) /\ Len(t) = payload_chars
  <2>1. t \in [1..payload_chars -> Char \cup {Blank, NUL}]
    <3>1. \A i \in 1..Len(s) : s[i] \in Char \cup {Blank, NUL}
      BY DEF Text
    <3> QED BY <1>1, <3>1 DEF get_payload
  <2> QED BY <1>1, <2>1
<1> HIDE DEF t
<1>8. SubSeq(t, 1, Len(s)) \in Seq(Char \cup {Blank, NUL}) /\ Len(SubSeq(t, 1, Len(s))) = Len(s)
      /\ \A i \in 1..Len(s) : SubSeq(t, 1, Len(s))[i] = t[i]
  BY <1>1, <1>7
<1>9. s \in Seq(Char \cup {Blank, NUL}) /\ \A i \in 1..Len(s) : t[i] = s[i]
  BY <1>1, <1>2 DEF Text, t
<1>10. SubSeq(t, 1, Len(s)) = s
  BY <1>8, <1>9, SeqEqual
<1> QED BY <1>6, <1>10 DEF t
(* The parts of a message, one after the other, are the message.           *)
LEMMA ChunksJoined ==
  ASSUME NEW s \in Text, s # <<>>
  PROVE  \E g : /\ g = [i \in 0..num_parts(s) |->
                          IF i = 0 THEN <<>> ELSE g[i - 1] \o Chunk(s, i - 1)]
                /\ g[num_parts(s)] = s
<1> DEFINE n == num_parts(s)
           e(i) == Min({Len(s), i * payload_chars})
           g == [i \in 0..n |-> IF i = 0 THEN <<>> ELSE SubSeq(s, 1, e(i))]
<1>1. payload_chars \in Nat /\ n \in Nat /\ n > 0 /\ Len(s) \in Nat
  BY PartsAssumption, NumPartsFacts DEF Text
<1>3. ASSUME NEW i \in 1..n
      PROVE  /\ e(i) \in Nat /\ (i - 1) * payload_chars < e(i) /\ e(i) <= Len(s)
             /\ i < n => e(i) = i * payload_chars
             /\ i = n => e(i) = Len(s)
             /\ Chunk(s, i - 1) = SubSeq(s, (i - 1) * payload_chars + 1, e(i))
  <2>1. i - 1 \in 0..(n - 1) /\ (i - 1) + 1 = i /\ (i - 1 < n - 1 <=> i < n)
    BY <1>1
  <2>2. i - 1 = n - 1 <=> i = n
    BY <1>1
  <2> DEFINE j == i - 1
  <2>3. /\ j \in 0..(num_parts(s) - 1) /\ j + 1 = i
        /\ (j < n - 1 <=> i < n) /\ (j = n - 1 <=> i = n)
    BY <2>1, <2>2
  <2> HIDE DEF j
  <2>4. /\ e(j + 1) \in Nat /\ j * payload_chars < e(j + 1) /\ e(j + 1) <= Len(s)
        /\ j < n - 1 => e(j + 1) = (j + 1) * payload_chars
        /\ j = n - 1 => e(j + 1) = Len(s)
        /\ Chunk(s, j) = SubSeq(s, j * payload_chars + 1, e(j + 1))
    BY <2>3, ChunkFacts, Zenon
  <2> HIDE DEF n, e
  <2>5. j = i - 1
    BY DEF j
  <2> QED BY <2>3, <2>4, <2>5
<1>4. ASSUME NEW i \in 1..n PROVE g[i] = g[i - 1] \o Chunk(s, i - 1)
  <2>1. CASE i = 1
    <3>1. (i - 1) * payload_chars + 1 = 1 /\ i \in 0..n /\ i - 1 \in 0..n
      BY <1>1, <2>1
    <3>2. g[i - 1] = <<>>
      BY <2>1, <3>1
    <3>3. Chunk(s, i - 1) = SubSeq(s, 1, e(i))
      BY <1>3, <3>1, Zenon
    <3>5. i # 0
      BY <2>1
    <3>6. g[i] = SubSeq(s, 1, e(i))
      BY <3>1, <3>5, Zenon
    <3>4. SubSeq(s, 1, e(i)) \in Text
      <4>1. e(i) \in Nat /\ e(i) <= Len(s)
        BY <1>3
      <4> HIDE DEF e
      <4> QED BY <1>1, <4>1 DEF Text
    <3> HIDE DEF e, g
    <3> QED BY <3>2, <3>3, <3>4, <3>6 DEF Text
  <2>2. CASE i # 1
    <3>1. i - 1 \in 1..n /\ i - 1 < n /\ i \in 0..n /\ i - 1 \in 0..n /\ i - 1 # 0
      BY <1>1, <2>2
    <3> DEFINE k == (i - 1) * payload_chars
    <3>2. e(i - 1) = k /\ k \in Nat /\ k <= Len(s)
      BY <1>3, <3>1, Zenon
    <3>3. Chunk(s, i - 1) = SubSeq(s, k + 1, e(i))
      BY <1>3, Zenon
    <3>4. e(i) \in Nat /\ k < e(i) /\ e(i) <= Len(s)
      BY <1>3
    <3>5. i # 0
      BY <1>1
    <3>6. g[i - 1] = SubSeq(s, 1, k) /\ g[i] = SubSeq(s, 1, e(i))
      BY <3>1, <3>2, <3>5, Zenon
    <3> HIDE DEF k, e, g
    <3>7. 1 \in 1..(Len(s) + 1) /\ k \in (1 - 1)..Len(s) /\ e(i) \in k..Len(s)
      BY <1>1, <3>2, <3>4
    <3>8. SubSeq(s, 1, k) \o SubSeq(s, k + 1, e(i)) = SubSeq(s, 1, e(i))
      BY <3>7, ConcatAdjacentSubSeq, Zenon DEF Text
    <3> QED BY <3>3, <3>6, <3>8, Zenon
  <2> QED BY <2>1, <2>2, Zenon
<1>5. g = [i \in 0..n |-> IF i = 0 THEN <<>> ELSE g[i - 1] \o Chunk(s, i - 1)]
  <2>1. \A i \in 0..n : i # 0 => i \in 1..n
    BY <1>1
  <2>2. \A i \in 0..n : g[i] = IF i = 0 THEN <<>> ELSE g[i - 1] \o Chunk(s, i - 1)
    BY <1>4, <2>1, Zenon
  <2> HIDE DEF n, e
  <2> QED BY <2>2, Zenon
<1>6. g[n] = s
  <2>1. e(n) = Len(s) /\ n \in 0..n /\ n # 0
    BY <1>1, <1>3
  <2>2. SubSeq(s, 1, Len(s)) = s
    BY SubSeqFull DEF Text
  <2> QED BY <2>1, <2>2
<1> HIDE DEF g
<1> QED BY <1>5, <1>6, Zenon

(* A payload is a text, and never empty.                                   *)
LEMMA PayloadFacts ==
  ASSUME NEW v \in Verb, NEW p \in Path
  PROVE  Payload(v, p) \in Text /\ Payload(v, p) # <<>>
<1>1. v \in Text /\ p \in Text /\ v # <<>> /\ <<Blank>> \in Text
  BY PartsAssumption DEF Text
<1>2. v \o <<Blank>> \in Text /\ v \o <<Blank>> # <<>>
  BY <1>1 DEF Text
<1>3. (v \o <<Blank>>) \o p \in Text /\ (v \o <<Blank>>) \o p # <<>>
  BY <1>1, <1>2 DEF Text
<1> QED BY <1>1, <1>3 DEF Payload

(* The first word of a payload is its verb, the rest its path.             *)
LEMMA CommandFacts ==
  ASSUME NEW v \in Verb, NEW p \in Path
  PROVE  Command(Payload(v, p)) = [verb |-> v, path |-> p]
<1> DEFINE s == Payload(v, p)
           n == Len(v)
<1>1. v \in Text /\ p \in Text /\ v # <<>> /\ <<Blank>> \in Text /\ s \in Text
  BY PartsAssumption, PayloadFacts DEF Text
<1>2. n \in Nat /\ n > 0 /\ Len(p) \in Nat
  BY <1>1 DEF Text
<1>3. \A i \in 1..n : v[i] # Blank
  BY <1>1, PartsAssumption DEF Range, Text
<1>4. /\ Len(s) = IF p = <<>> THEN n ELSE n + 1 + Len(p)
      /\ \A i \in 1..n : s[i] = v[i]
      /\ p # <<>> => s[n + 1] = Blank /\ \A i \in 1..Len(p) : s[n + 1 + i] = p[i]
  <2>1. CASE p = <<>>
    BY <1>1, <2>1 DEF Payload
  <2>2. CASE p # <<>>
    BY <1>1, <2>2 DEF Payload, Text
  <2> QED BY <2>1, <2>2
<1> HIDE DEF s
<1>5. skip_ws(s) = s
  <2>1. Head(s) = s[1] /\ 1 \in 1..n
    BY <1>1, <1>2, <1>4 DEF Text
  <2> QED BY <1>3, <1>4, <2>1 DEF skip_ws
<1>6. WordEnd(s) = n
  <2> DEFINE S == {i \in 0..Len(s) : i = Len(s) \/ s[i + 1] = Blank}
  <2>1. n \in S
    BY <1>1, <1>2, <1>4
  <2>2. \A i \in S : i \in Nat /\ n <= i
    <3> SUFFICES ASSUME NEW i \in S, i < n PROVE FALSE
      BY <1>1, <1>2 DEF Text
    <3>1. i + 1 \in 1..n /\ i < Len(s)
      BY <1>2, <1>4
    <3> QED BY <1>3, <1>4, <3>1
  <2> HIDE DEF S
  <2>3. Min(S) \in S /\ \A y \in S : Min(S) <= y
    BY <2>1, <2>2, Zenon DEF Min
  <2> DEFINE x == Min(S)
  <2>4. x \in Nat /\ x <= n /\ n <= x
    BY <2>1, <2>2, <2>3, Zenon
  <2> HIDE DEF x
  <2>5. x = n
    BY <1>2, <2>4
  <2> QED BY <2>5 DEF x, S, WordEnd
<1>7. SubSeq(s, 1, n) = v
  <2>1. SubSeq(s, 1, n) \in Text /\ Len(SubSeq(s, 1, n)) = n
        /\ \A i \in 1..n : SubSeq(s, 1, n)[i] = s[i]
    BY <1>1, <1>2, <1>4 DEF Text
  <2> QED BY <1>1, <1>4, <2>1, SeqEqual DEF Text
<1>8. skip_ws(SubSeq(s, n + 1, Len(s))) = p
  <2> DEFINE r == SubSeq(s, n + 1, Len(s))
  <2>1. CASE p = <<>>
    <3>1. r = <<>>
      BY <1>1, <1>2, <1>4, <2>1 DEF Text
    <3> QED BY <2>1, <3>1 DEF skip_ws
  <2>2. CASE p # <<>>
    <3>1. Len(p) > 0
      BY <1>1, <2>2 DEF Text
    <3>2. r \in Text /\ Len(r) = 1 + Len(p)
          /\ \A i \in 1..(1 + Len(p)) : r[i] = s[n + i]
      BY <1>1, <1>2, <1>4, <2>2, <3>1 DEF Text
    <3> HIDE DEF r
    <3>3. r # <<>> /\ Head(r) = Blank /\ Tail(r) \in Text /\ Len(Tail(r)) = Len(p)
          /\ \A i \in 1..Len(p) : Tail(r)[i] = r[i + 1]
      BY <1>2, <1>4, <2>2, <3>1, <3>2 DEF Text
    <3>4. \A i \in 1..Len(p) : Tail(r)[i] = p[i]
      <4> SUFFICES ASSUME NEW i \in 1..Len(p) PROVE Tail(r)[i] = p[i]
        BY Zenon
      <4>1. i + 1 \in 1..(1 + Len(p)) /\ n + (i + 1) = n + 1 + i
        BY <1>2
      <4> QED BY <1>4, <2>2, <3>2, <3>3, <4>1, Zenon
    <3>5. Tail(r) = p
      BY <1>1, <3>3, <3>4, SeqEqual, Zenon DEF Text
    <3> QED BY <3>3, <3>5, Zenon DEF skip_ws, r
  <2> QED BY <2>1, <2>2
<1> QED BY <1>5, <1>6, <1>7, <1>8 DEF Command, s
----------------------------------------------------------------------------
(* Where the parts are.                                                    *)

Message == [sender_id : Pid, by : Nat, message_id : Nat, verb : Verb,
            path : Path]
MessageId == [sender_id : Pid, by : Nat, message_id : Nat]
Piece == [text : Text, from : MessageId]
Slots == UNION {[D -> Piece] : D \in SUBSET Nat}

Whole(a) == Payload(a.verb, a.path)

(* Part n of message a.                                                    *)
Part(a, n) ==
  [sender_id |-> a.sender_id, by |-> a.by, message_id |-> a.message_id,
   part_no |-> n, num_parts |-> num_parts(Whole(a)),
   payload |-> get_payload(Chunk(Whole(a), n))]
Parts(a) == {Part(a, n) : n \in 0..(num_parts(Whole(a)) - 1)}
Packet == UNION {Parts(a) : a \in Message}

TypeOK ==
  /\ process \in [Pid -> Nat] /\ message_id \in [Pid -> Nat]
  /\ asked \subseteq Message
  /\ todo \in [Pid -> Seq(Packet)] /\ transit \subseteq Packet
  /\ DOMAIN cmds \subseteq Pid \X Nat
  /\ \A k \in DOMAIN cmds :
       cmds[k] \in [arrive_time : Int, size : Nat, s : Slots]
  /\ now \in Nat /\ woken \in Nat /\ earliest \in Int

(* The histories are sequences, of whatever.                               *)
GotSeq == \E S : got \in Seq(S)

(* No two messages have the same id, and the next one will be new.         *)
AskedInv ==
  /\ \A a \in asked :
       /\ a.by <= process[a.sender_id]
       /\ a.by = process[a.sender_id] =>
            a.message_id < message_id[a.sender_id]
  /\ \A a, b \in asked : Id(a) = Id(b) => a = b

(* Every part on its way belongs to a message.                             *)
PartsInv ==
  /\ \A p \in Pid : \A i \in DOMAIN todo[p] :
       \E a \in asked : todo[p][i] \in Parts(a)
  /\ \A m \in transit : \E a \in asked : m \in Parts(a)

(* The command thread has m.                                               *)
Held(c, m) ==
  /\ Key(m) \in DOMAIN c
  /\ m.part_no \in DOMAIN c[Key(m)].s
  /\ c[Key(m)].s[m.part_no].from = Id(m)

(* A part is at one place at most.                                         *)
PlaceInv ==
  /\ \A p \in Pid : \A i \in DOMAIN todo[p] :
       /\ todo[p][i] \notin transit /\ ~Held(cmds, todo[p][i])
       /\ \A j \in DOMAIN todo[p] : i # j => todo[p][i] # todo[p][j]
       /\ todo[p][i].sender_id = p
  /\ \A m \in transit : ~Held(cmds, m)

(* What is put together for a key are parts of messages with this key; of  *)
(* one only, which the set has the size for, when the pid was not reused.  *)
HeldPart(a, k, n, piece) ==
  /\ Key(a) = k /\ n \in 0..(num_parts(Whole(a)) - 1)
  /\ piece = [text |-> Chunk(Whole(a), n), from |-> Id(a)]

CmdsInv ==
  \A k \in DOMAIN cmds :
    /\ \A n \in DOMAIN cmds[k].s :
         \E a \in asked : HeldPart(a, k, n, cmds[k].s[n])
    /\ PidUnique(k[1]) =>
         \E a \in asked : Key(a) = k /\ cmds[k].size = num_parts(Whole(a))

(* Nothing is left of the message with this id.                            *)
NothingOf(t, tr, c, id) ==
  /\ \A p \in Pid : \A i \in DOMAIN t[p] : Id(t[p][i]) # id
  /\ \A m \in tr : Id(m) # id
  /\ \A k \in DOMAIN c : \A n \in DOMAIN c[k].s : c[k].s[n].from # id

ActedOn(i, a) ==
  /\ got[i].from = {Id(a)}
  /\ got[i].command = [verb |-> a.verb, path |-> a.path]
  /\ NothingOf(todo, transit, cmds, Id(a))
  /\ \A j \in DOMAIN got : i # j => Id(a) \notin got[j].from

(* A command that was put together is one message, and nothing is left of  *)
(* it, when the pid was not reused.                                        *)
GotInv ==
  \A i \in DOMAIN got : \E p \in Pid :
    /\ got[i].from # {}
    /\ \A f \in got[i].from : \E a \in asked : Id(a) = f /\ a.sender_id = p
    /\ PidUnique(p) => \E a \in asked : ActedOn(i, a)

(* The scavenger sleeps no longer than it should, and what it left when it *)
(* last ran was not old.                                                   *)
TimeInv ==
  /\ woken <= now /\ now - woken <= sleep_time
  /\ scavenging => earliest = now - delete_threshold
  /\ \A k \in DOMAIN cmds : woken - delete_threshold <= cmds[k].arrive_time

PartsInvariant ==
  /\ TypeOK /\ AskedInv /\ PartsInv /\ PlaceInv /\ CmdsInv /\ GotInv
  /\ TimeInv
----------------------------------------------------------------------------
(* What the parts of a message have in common, and what tells them apart.  *)
LEMMA PartFacts ==
  ASSUME NEW a \in Message, NEW m \in Parts(a)
  PROVE  /\ Id(m) = Id(a) /\ Key(m) = Key(a) /\ m.sender_id = a.sender_id
         /\ m.num_parts = num_parts(Whole(a)) /\ m.num_parts \in Nat
         /\ m.part_no \in 0..(m.num_parts - 1) /\ m = Part(a, m.part_no)
         /\ extract_payload(m) = Chunk(Whole(a), m.part_no)
         /\ Chunk(Whole(a), m.part_no) \in Text
<1> DEFINE s == Whole(a)
<1>1. s \in Text /\ s # <<>>
  BY PayloadFacts DEF Message, Whole
<1>2. num_parts(s) \in Nat
  BY <1>1, NumPartsFacts
<1>3. PICK n \in 0..(num_parts(s) - 1) : m = Part(a, n)
  BY DEF Parts
<1>4. /\ Id(m) = Id(a) /\ Key(m) = Key(a) /\ m.sender_id = a.sender_id
      /\ m.num_parts = num_parts(s) /\ m.part_no = n
      /\ m.payload = get_payload(Chunk(s, n))
  BY <1>3 DEF Part, Id, Key
<1>5. Chunk(s, n) \in Text /\ Len(Chunk(s, n)) \in 1..payload_chars
  <2> DEFINE last == Min({Len(s), (n + 1) * payload_chars})
             first == n * payload_chars
  <2>1. /\ last \in Nat /\ first < last /\ last <= Len(s)
        /\ last <= first + payload_chars
        /\ Chunk(s, n) = SubSeq(s, first + 1, last)
    BY <1>1, ChunkFacts, Zenon
  <2>2. first \in Nat /\ payload_chars \in Nat
    BY <1>2, PartsAssumption
  <2> HIDE DEF first, last, s
  <2>3. SubSeq(s, first + 1, last) \in Text
        /\ Len(SubSeq(s, first + 1, last)) = last - first
    BY <1>1, <2>1, <2>2 DEF Text
  <2> QED BY <2>1, <2>2, <2>3
<1> HIDE DEF s
<1>6. extract_payload(m) = Chunk(s, n)
  BY <1>4, <1>5, ExtractFacts
<1> QED BY <1>2, <1>3, <1>4, <1>5, <1>6 DEF s

(* Two messages with one key are one when the pid was not reused.          *)
LEMMA OneMessage ==
  ASSUME TypeOK, AskedInv, NEW a \in asked, NEW b \in asked,
         Key(a) = Key(b), PidUnique(a.sender_id)
  PROVE  a = b
<1>1. a.sender_id = b.sender_id /\ a.message_id = b.message_id
  BY DEF Key
<1>2. a.by = b.by
  BY <1>1 DEF PidUnique
<1> QED BY <1>1, <1>2, Zenon DEF Id, AskedInv

(* The sender of a piece.                                                  *)
LEMMA PieceFrom ==
  ASSUME NEW y, NEW t, NEW f, y = [text |-> t, from |-> f]
  PROVE  y.from = f
OBVIOUS

(* A piece that is held for a message has the message's key and identity.  *)
LEMMA HeldPartFacts ==
  ASSUME NEW b, NEW k, NEW n, NEW y, HeldPart(b, k, n, y)
  PROVE  Key(b) = k /\ y.from = Id(b)
BY DEF HeldPart

(* No part gets a second place when parts only leave theirs.               *)
LEMMA PlaceShrinks ==
  ASSUME PlaceInv, UNCHANGED todo, \A x \in transit' : x \in transit,
         \A x : Held(cmds', x) => Held(cmds, x)
  PROVE  PlaceInv'
<1> HIDE DEF Held
<1> QED BY DEF PlaceInv

(* What was acted on stays so while nothing changes.                       *)
LEMMA GotFrame ==
  ASSUME GotInv, UNCHANGED <<todo, transit, cmds, asked, got>>
  PROVE  GotInv'
BY DEF GotInv, PidUnique, ActedOn

(* A sequence with one more element.                                       *)
LEMMA AppendFacts ==
  ASSUME NEW S, NEW q \in Seq(S), NEW e, NEW r, r = Append(q, e)
  PROVE  /\ r \in Seq(S \cup {e}) /\ Len(q) \in Nat
         /\ DOMAIN q = 1..Len(q) /\ Len(q) + 1 \in DOMAIN r
         /\ r[Len(q) + 1] = e
         /\ \A i \in 1..Len(q) : i \in DOMAIN r /\ r[i] = q[i]
         /\ \A i \in DOMAIN r : i = Len(q) + 1 \/ i \in 1..Len(q)
<1>1. q \in Seq(S \cup {e})
  OBVIOUS
<1> QED BY <1>1

(* A new broker has nothing.                                               *)
LEMMA InitInvariant ==
  ASSUME Init PROVE PartsInvariant /\ GotSeq
<1> USE DEF Init
<1>1. TypeOK
  BY DEF TypeOK
<1>2. AskedInv /\ PartsInv /\ PlaceInv /\ CmdsInv
  BY DEF AskedInv, PartsInv, PlaceInv, CmdsInv
<1>3. GotInv /\ GotSeq
  BY DEF GotInv, GotSeq
<1>4. TimeInv
  BY PartsAssumption DEF TimeInv
<1> QED BY <1>1, <1>2, <1>3, <1>4 DEF PartsInvariant

(* A sender drops parts from the beginning of what it has to write, or all *)
(* of them.                                                                *)
LEMMA TodoShrinks ==
  ASSUME PartsInvariant, NEW p \in Pid, NEW q \in Seq(Packet), NEW d \in Nat,
         todo' = [todo EXCEPT ![p] = q],
         \A i \in DOMAIN q : i + d \in DOMAIN todo[p] /\ q[i] = todo[p][i + d],
         process' \in [Pid -> Nat], message_id' \in [Pid -> Nat], AskedInv',
         UNCHANGED <<transit, cmds, asked, got, now, woken, scavenging,
                     earliest>>
  PROVE  PartsInvariant'
<1> USE DEF PartsInvariant
<1>1. TypeOK'
  BY Zenon DEF TypeOK
<1>2. \A p2 \in Pid : \A i \in DOMAIN todo'[p2] :
        \E e \in Nat : i + e \in DOMAIN todo[p2] /\ todo'[p2][i] = todo[p2][i + e]
                     /\ e = IF p2 = p THEN d ELSE 0
  <2> SUFFICES ASSUME NEW p2 \in Pid, NEW i \in DOMAIN todo'[p2]
               PROVE  \E e \in Nat : i + e \in DOMAIN todo[p2] /\ todo'[p2][i] = todo[p2][i + e]
                     /\ e = IF p2 = p THEN d ELSE 0
    OBVIOUS
  <2>1. CASE p2 = p
    BY <2>1 DEF TypeOK
  <2>2. CASE p2 # p
    <3>1. i \in DOMAIN todo[p2] /\ i + 0 = i /\ todo'[p2] = todo[p2]
      BY <2>2 DEF TypeOK
    <3> QED BY <2>2, <3>1
  <2> QED BY <2>1, <2>2
<1>3. PartsInv'
  BY <1>2 DEF PartsInv
<1>4. PlaceInv'
  <2> SUFFICES ASSUME NEW p2 \in Pid, NEW i \in DOMAIN todo'[p2]
               PROVE  /\ todo'[p2][i] \notin transit
                      /\ ~Held(cmds, todo'[p2][i])
                      /\ \A j \in DOMAIN todo'[p2] : i # j => todo'[p2][i] # todo'[p2][j]
                      /\ todo'[p2][i].sender_id = p2
    BY DEF PlaceInv
  <2>1. PICK e \in Nat : i + e \in DOMAIN todo[p2] /\ todo'[p2][i] = todo[p2][i + e]
                         /\ e = IF p2 = p THEN d ELSE 0
    BY <1>2
  <2>2. ASSUME NEW j \in DOMAIN todo'[p2], i # j PROVE todo'[p2][i] # todo'[p2][j]
    <3>1. j + e \in DOMAIN todo[p2] /\ todo'[p2][j] = todo[p2][j + e]
      BY <1>2, <2>1
    <3>2. todo'[p2] \in Seq(Packet)
      BY <1>1, Zenon DEF TypeOK
    <3>3. i + e # j + e
      BY ONLY <2>2, <3>2, e \in Nat, i \in DOMAIN todo'[p2]
    <3> QED BY <2>1, <3>1, <3>3 DEF PlaceInv
  <2> QED BY <2>1, <2>2 DEF PlaceInv
<1>5. CmdsInv'
  BY DEF CmdsInv, PidUnique
<1>6. GotInv'
  <2>1. \A id : NothingOf(todo, transit, cmds, id) => NothingOf(todo', transit, cmds, id)
    BY <1>2 DEF NothingOf
  <2>2. \A i \in DOMAIN got, a \in asked : ActedOn(i, a) => ActedOn(i, a)'
    BY <2>1, Zenon DEF ActedOn
  <2>3. \A x : PidUnique(x)' => PidUnique(x)
    BY DEF PidUnique
  <2> QED BY <2>2, <2>3, Zenon DEF GotInv
<1>7. TimeInv'
  BY DEF TimeInv
<1> QED BY <1>1, <1>3, <1>4, <1>5, <1>6, <1>7

(* The sender gives up a part, or the whole message.                       *)
LEMMA SendTimeoutStep ==
  ASSUME PartsInvariant, NEW p \in Pid, SendTimeout(p)
  PROVE  PartsInvariant'
<1>1. todo[p] \in Seq(Packet) /\ todo[p] # <<>>
  BY DEF PartsInvariant, TypeOK, SendTimeout
<1>2. /\ process' \in [Pid -> Nat] /\ message_id' \in [Pid -> Nat] /\ AskedInv'
      /\ UNCHANGED <<transit, cmds, asked, got, now, woken, scavenging, earliest>>
  BY DEF PartsInvariant, TypeOK, SendTimeout, BrokerFrame, AskedInv
<1>3. CASE todo' = [todo EXCEPT ![p] = <<>>]
  <2>1. <<>> \in Seq(Packet) /\ DOMAIN <<>> = {}
    OBVIOUS
  <2> DEFINE q == <<>>
  <2>2. q \in Seq(Packet) /\ \A i \in DOMAIN q : i + 0 \in DOMAIN todo[p] /\ q[i] = todo[p][i + 0]
    BY <2>1
  <2>3. todo' = [todo EXCEPT ![p] = q] /\ 0 \in Nat
    BY <1>3
  <2> HIDE DEF q
  <2> QED BY <1>2, <2>2, <2>3, TodoShrinks, Zenon
<1>4. CASE todo' = [todo EXCEPT ![p] = Tail(@)]
  <2> DEFINE q == Tail(todo[p])
  <2>1. q \in Seq(Packet) /\ \A i \in DOMAIN q : i + 1 \in DOMAIN todo[p] /\ q[i] = todo[p][i + 1]
    BY <1>1
  <2>2. todo' = [todo EXCEPT ![p] = q] /\ 1 \in Nat
    BY <1>4
  <2> HIDE DEF q
  <2> QED BY <1>2, <2>1, <2>2, TodoShrinks, Zenon
<1> QED BY <1>3, <1>4 DEF SendTimeout

(* A process takes what it has not written with it, and the next one with  *)
(* its pid has another by.                                                 *)
LEMMA SenderEndsStep ==
  ASSUME PartsInvariant, NEW p \in Pid, SenderEnds(p)
  PROVE  PartsInvariant'
<1> DEFINE q == <<>>
<1>1. q \in Seq(Packet) /\ \A i \in DOMAIN q : i + 0 \in DOMAIN todo[p] /\ q[i] = todo[p][i + 0]
  <2>1. <<>> \in Seq(Packet) /\ DOMAIN <<>> = {}
    OBVIOUS
  <2> QED BY <2>1
<1>2. todo' = [todo EXCEPT ![p] = q] /\ 0 \in Nat
  BY DEF SenderEnds
<1>3. /\ process' \in [Pid -> Nat] /\ message_id' \in [Pid -> Nat]
      /\ UNCHANGED <<transit, cmds, asked, got, now, woken, scavenging, earliest>>
  BY DEF PartsInvariant, TypeOK, SenderEnds, BrokerFrame
<1>4. AskedInv'
  <2> SUFFICES ASSUME NEW a \in asked
               PROVE  /\ a.by <= process'[a.sender_id]
                      /\ a.by = process'[a.sender_id] => a.message_id < message_id'[a.sender_id]
    BY DEF PartsInvariant, AskedInv, SenderEnds
  <2>1. a.sender_id \in Pid /\ a.by \in Nat /\ a.by <= process[a.sender_id]
        /\ (a.by = process[a.sender_id] => a.message_id < message_id[a.sender_id])
    BY Zenon DEF PartsInvariant, AskedInv, TypeOK, Message
  <2>2. CASE a.sender_id = p
    BY <2>1, <2>2 DEF PartsInvariant, TypeOK, SenderEnds
  <2>3. CASE a.sender_id # p
    BY <2>1, <2>3 DEF PartsInvariant, TypeOK, SenderEnds
  <2> QED BY <2>2, <2>3
<1> HIDE DEF q
<1> QED BY <1>1, <1>2, <1>3, <1>4, TodoShrinks, Zenon

(* The clock and the start of the scavenger touch no part.                 *)
LEMMA ClockStep ==
  ASSUME PartsInvariant, ScavengeBegin \/ Tick
  PROVE  PartsInvariant'
<1>1. UNCHANGED <<process, message_id, todo, transit, cmds, woken, asked, got>>
  BY DEF ScavengeBegin, Tick
<1>2. TypeOK'
  <2>1. now \in Nat /\ earliest \in Int
    BY Zenon DEF PartsInvariant, TypeOK
  <2>2. now' \in Nat /\ earliest' \in Int
    BY <2>1, PartsAssumption DEF ScavengeBegin, Tick
  <2> QED BY <1>1, <2>2, Zenon DEF PartsInvariant, TypeOK
<1>3. AskedInv' /\ PartsInv' /\ PlaceInv'
  BY <1>1 DEF PartsInvariant, AskedInv, PartsInv, PlaceInv
<1>4. CmdsInv' /\ GotInv'
  BY <1>1 DEF PartsInvariant, CmdsInv, GotInv, ActedOn, PidUnique
<1>5. TimeInv'
  BY <1>1, PartsAssumption DEF PartsInvariant, TimeInv, TypeOK, ScavengeBegin, Tick
<1> QED BY <1>2, <1>3, <1>4, <1>5 DEF PartsInvariant

(* The scavenger leaves what is not old.                                   *)
LEMMA ScavengeStep ==
  ASSUME PartsInvariant, Scavenge
  PROVE  PartsInvariant'
<1> USE DEF PartsInvariant
<1>1. /\ UNCHANGED <<process, message_id, todo, transit, asked, got, now>>
      /\ woken' = now /\ earliest' = 0 /\ scavenging' = FALSE
  BY DEF Scavenge
<1>2. /\ DOMAIN cmds' = DOMAIN cmds \ Stale
      /\ \A k \in DOMAIN cmds' : k \in DOMAIN cmds /\ cmds'[k] = cmds[k]
  BY DEF Scavenge, Restrict
<1>3. TypeOK'
  BY <1>1, <1>2 DEF TypeOK
<1>4. AskedInv' /\ PartsInv'
  BY <1>1, Zenon DEF AskedInv, PartsInv
<1>5. \A m : Held(cmds', m) => Held(cmds, m)
  BY <1>2, Zenon DEF Held
<1>6. PlaceInv'
  BY <1>1, <1>5 DEF PlaceInv
<1>7. CmdsInv'
  BY <1>1, <1>2 DEF CmdsInv, PidUnique
<1>8. GotInv'
  <2>1. \A id : NothingOf(todo, transit, cmds, id) => NothingOf(todo, transit, cmds', id)
    BY <1>2 DEF NothingOf
  <2>2. \A i \in DOMAIN got, a \in asked : ActedOn(i, a) => ActedOn(i, a)'
    BY <1>1, <2>1, Zenon DEF ActedOn
  <2>3. \A x : PidUnique(x)' => PidUnique(x)
    BY <1>1 DEF PidUnique
  <2> QED BY <1>1, <2>2, <2>3, Zenon DEF GotInv
<1>9. TimeInv'
  <2>1. ASSUME NEW k \in DOMAIN cmds' PROVE now - delete_threshold <= cmds'[k].arrive_time
    <3>1. ~(cmds[k].arrive_time < earliest) /\ cmds[k].arrive_time \in Int
      BY <1>2, <2>1 DEF Stale, TypeOK
    <3>2. earliest = now - delete_threshold
      BY DEF TimeInv, Scavenge
    <3> QED BY <1>2, <3>1, <3>2, PartsAssumption DEF TypeOK
  <2> QED BY <1>1, <2>1, PartsAssumption DEF TimeInv, TypeOK
<1> QED BY <1>3, <1>4, <1>6, <1>7, <1>8, <1>9

(* writer::write moves a part from the sender to the pipe.                 *)
LEMMA SendPartStep ==
  ASSUME PartsInvariant, NEW p \in Pid, SendPart(p)
  PROVE  PartsInvariant'
<1> USE DEF PartsInvariant
<1> DEFINE h == todo[p][1]
<1>1. /\ UNCHANGED <<process, message_id, cmds, asked, got, now, woken, scavenging, earliest>>
      /\ todo' = [todo EXCEPT ![p] = Tail(todo[p])]
  BY DEF SendPart, BrokerFrame
<1>2. /\ todo[p] \in Seq(Packet) /\ todo[p] # <<>> /\ 1 \in DOMAIN todo[p]
      /\ h \in Packet /\ transit' = transit \cup {h}
  BY DEF TypeOK, SendPart
<1>3. /\ Tail(todo[p]) \in Seq(Packet)
      /\ \A i \in DOMAIN Tail(todo[p]) :
           i \in Nat /\ i + 1 \in DOMAIN todo[p] /\ i + 1 # 1
           /\ Tail(todo[p])[i] = todo[p][i + 1]
  BY <1>2
<1>4. TypeOK'
  BY <1>1, <1>2, <1>3, Zenon DEF TypeOK
<1>5. AskedInv'
  BY <1>1 DEF AskedInv
<1>6. /\ todo'[p] = Tail(todo[p]) /\ \A x \in Pid \ {p} : todo'[x] = todo[x]
      /\ \E a \in asked : h \in Parts(a)
      /\ h.sender_id = p /\ ~Held(cmds, h)
  BY <1>1, <1>2, Zenon DEF TypeOK, PartsInv, PlaceInv
<1> HIDE DEF h
<1>7. PartsInv'
  <2>1. ASSUME NEW x \in Pid, NEW i \in DOMAIN todo'[x]
        PROVE  \E a \in asked : todo'[x][i] \in Parts(a)
    <3>1. CASE x = p
      <4>1. i + 1 \in DOMAIN todo[p] /\ todo'[p][i] = todo[p][i + 1]
        BY <1>3, <1>6, <2>1, <3>1, Zenon
      <4> QED BY <3>1, <4>1 DEF PartsInv
    <3>2. CASE x # p
      BY <1>6, <2>1, <3>2, Zenon DEF PartsInv
    <3> QED BY <3>1, <3>2
  <2> QED BY <1>1, <1>2, <1>6, <2>1, Zenon DEF PartsInv
<1>8. PlaceInv'
  <2>3. \A z \in transit \cup {h} : ~Held(cmds, z)
    BY <1>6, Zenon DEF PlaceInv
  <2>4. cmds' = cmds /\ transit' = transit \cup {h}
    BY <1>1, <1>2, Zenon
  <2> SUFFICES ASSUME NEW x \in Pid, NEW i \in DOMAIN todo'[x]
               PROVE  /\ todo'[x][i] \notin transit \cup {h}
                      /\ ~Held(cmds, todo'[x][i])
                      /\ \A j \in DOMAIN todo'[x] : i # j => todo'[x][i] # todo'[x][j]
                      /\ todo'[x][i].sender_id = x
    BY <2>3, <2>4, ZenonT(30) DEF PlaceInv
  <2>1. CASE x = p
    <3>1. i \in Nat /\ i + 1 \in DOMAIN todo[p] /\ i + 1 # 1 /\ todo'[p][i] = todo[p][i + 1]
      BY <1>3, <1>6, <2>1, Zenon
    <3>2. todo[p][i + 1] # h
      <4>1. \A y, z \in DOMAIN todo[p] : y # z => todo[p][y] # todo[p][z]
        BY Zenon DEF PlaceInv
      <4>2. todo[p][i + 1] # todo[p][1]
        BY <1>2, <3>1, <4>1, Zenon
      <4> QED BY <4>2, Zenon DEF h
    <3>3. ASSUME NEW j \in DOMAIN todo'[p], i # j PROVE todo'[p][i] # todo'[p][j]
      <4>1. j \in Nat /\ j + 1 \in DOMAIN todo[p] /\ todo'[p][j] = todo[p][j + 1]
        BY <1>3, <1>6, <3>3, Zenon
      <4>2. i + 1 # j + 1
        BY <3>1, <3>3, <4>1
      <4> QED BY <3>1, <4>1, <4>2 DEF PlaceInv
    <3> QED BY <2>1, <3>1, <3>2, <3>3 DEF PlaceInv
  <2>2. CASE x # p
    <3>1. todo'[x] = todo[x] /\ todo[x][i].sender_id = x
      BY <1>6, <2>2 DEF PlaceInv
    <3>2. todo[x][i] # h
      BY <1>6, <2>2, <3>1, Zenon
    <3> QED BY <3>1, <3>2 DEF PlaceInv
  <2> QED BY <2>1, <2>2, Zenon
<1>9. CmdsInv'
  BY <1>1, Zenon DEF CmdsInv, PidUnique
<1>10. GotInv'
  <2>1. \A id : NothingOf(todo, transit, cmds, id) => NothingOf(todo', transit', cmds, id)
    <3> SUFFICES ASSUME NEW id, NothingOf(todo, transit, cmds, id)
                 PROVE  NothingOf(todo', transit', cmds, id)
      OBVIOUS
    <3>1. ASSUME NEW x \in Pid, NEW i \in DOMAIN todo'[x]
          PROVE  Id(todo'[x][i]) # id
      <4>1. CASE x = p
        <5>1. i + 1 \in DOMAIN todo[p] /\ todo'[p][i] = todo[p][i + 1]
          BY <1>3, <1>6, <3>1, <4>1, Zenon
        <5> QED BY <4>1, <5>1, Zenon DEF NothingOf
      <4>2. CASE x # p
        BY <1>6, <3>1, <4>2, Zenon DEF NothingOf
      <4> QED BY <4>1, <4>2
    <3>2. Id(h) # id
      BY <1>2 DEF NothingOf, h
    <3> QED BY <1>2, <3>1, <3>2, Zenon DEF NothingOf
  <2>2. \A i \in DOMAIN got, a \in asked : ActedOn(i, a) => ActedOn(i, a)'
    BY <1>1, <2>1, Zenon DEF ActedOn
  <2>3. \A x : PidUnique(x)' => PidUnique(x)
    BY <1>1 DEF PidUnique
  <2> QED BY <1>1, <2>2, <2>3, Zenon DEF GotInv
<1>11. TimeInv'
  BY <1>1 DEF TimeInv
<1> QED BY <1>4, <1>5, <1>7, <1>8, <1>9, <1>10, <1>11, Zenon

(* send_message begins: all the parts of a new message are the sender's.   *)
LEMMA SendBeginStep ==
  ASSUME PartsInvariant, NEW p \in Pid, NEW verb \in Verb, NEW path \in Path,
         SendBegin(p, verb, path)
  PROVE  PartsInvariant'
<1> USE DEF PartsInvariant
<1> DEFINE new == [sender_id |-> p, by |-> process[p], message_id |-> message_id[p],
                   verb |-> verb, path |-> path]
           n == num_parts(Whole(new))
           q == MessageParts(p, Payload(verb, path))
<1>1. /\ UNCHANGED <<process, transit, cmds, got, now, woken, scavenging, earliest>>
      /\ todo' = [todo EXCEPT ![p] = q]
      /\ message_id' = [message_id EXCEPT ![p] = @ + 1]
      /\ asked' = asked \cup {new}
  BY Zenon DEF SendBegin, BrokerFrame
<1>2. new \in Message /\ n \in Nat
  <2>1. new \in Message
    BY Zenon DEF TypeOK, Message
  <2>2. Whole(new) \in Text /\ Whole(new) # <<>>
    BY PayloadFacts, Zenon DEF Whole
  <2> QED BY <2>1, <2>2, NumPartsFacts, Zenon
<1>3. q = [i \in 1..n |-> Part(new, i - 1)]
  BY Zenon DEF MessageParts, Part, Whole
<1>4. \A i \in 1..n : q[i] \in Parts(new) /\ q[i] \in Packet
  <2> SUFFICES ASSUME NEW i \in 1..n PROVE q[i] \in Parts(new) /\ q[i] \in Packet
    BY Zenon
  <2>1. i - 1 \in 0..(n - 1)
    BY <1>2
  <2>2. q[i] = Part(new, i - 1)
    BY <1>3, Zenon
  <2>3. q[i] \in Parts(new)
    BY <2>1, <2>2, Zenon DEF Parts
  <2> QED BY <1>2, <2>3, Zenon DEF Packet
<1> HIDE DEF q
<1>5. q \in Seq(Packet) /\ DOMAIN q = 1..n
  BY <1>2, <1>3, <1>4
<1>6. \A b \in asked : b \in Message /\ Id(b) # Id(new)
  <2> SUFFICES ASSUME NEW b \in asked, Id(b) = Id(new) PROVE FALSE
    BY Zenon DEF TypeOK
  <2>1. b.sender_id = p /\ b.by = process[p] /\ b.message_id = message_id[p]
    BY Zenon DEF Id
  <2>2. message_id[p] \in Nat
    BY Zenon DEF TypeOK
  <2>3. b.message_id < message_id[p]
    BY <2>1, Zenon DEF AskedInv
  <2>4. message_id[p] < message_id[p]
    BY <2>1, <2>3, Zenon
  <2> QED BY ONLY <2>2, <2>4, SMTT(20)
<1>7. new.sender_id = p /\ Key(new) = <<p, message_id[p]>>
  BY Zenon DEF Key
<1>8. \A i \in 1..n : /\ Id(q[i]) = Id(new) /\ q[i].sender_id = p
                      /\ q[i].part_no = i - 1
  <2> SUFFICES ASSUME NEW i \in 1..n
               PROVE  Id(q[i]) = Id(new) /\ q[i].sender_id = p /\ q[i].part_no = i - 1
    BY Zenon
  <2>1. q[i] = Part(new, i - 1)
    BY <1>3, Zenon
  <2> QED BY <1>2, <1>4, <1>7, <2>1, PartFacts DEF Part
<1>9. \A b \in asked : b.by <= process[b.sender_id]
        /\ (b.by = process[b.sender_id] => b.message_id < message_id'[b.sender_id])
  <2> SUFFICES ASSUME NEW b \in asked
               PROVE  b.by <= process[b.sender_id]
        /\ (b.by = process[b.sender_id] => b.message_id < message_id'[b.sender_id])
    OBVIOUS
  <2>1. b.sender_id \in Pid /\ b.message_id \in Nat
    BY Zenon DEF TypeOK, Message
  <2>2. message_id'[b.sender_id] >= message_id[b.sender_id] /\ message_id[b.sender_id] \in Nat
        /\ message_id'[b.sender_id] \in Nat
    BY <1>1, <2>1 DEF TypeOK
  <2> QED BY <2>1, <2>2 DEF AskedInv
<1>10. new.by = process[p] /\ new.message_id = message_id[p] /\ message_id'[p] = message_id[p] + 1
       /\ process[p] \in Nat /\ message_id[p] \in Nat
  BY <1>1, Zenon DEF TypeOK
<1> HIDE DEF new, n
<1>11. TypeOK'
  BY <1>1, <1>2, <1>5 DEF TypeOK
<1>12. AskedInv'
  <2>1. \A b \in asked' : b.by <= process[b.sender_id]
        /\ (b.by = process[b.sender_id] => b.message_id < message_id'[b.sender_id])
    BY <1>1, <1>7, <1>9, <1>10
  <2>2. \A a, b \in asked' : Id(a) = Id(b) => a = b
    BY <1>1, <1>6, Zenon DEF AskedInv
  <2> QED BY <1>1, <2>1, <2>2, Zenon DEF AskedInv
<1>13. todo'[p] = q /\ \A x \in Pid \ {p} : todo'[x] = todo[x]
  BY <1>1, Zenon DEF TypeOK
<1>14. PartsInv'
  BY <1>1, <1>4, <1>5, <1>13, Zenon DEF PartsInv
<1>15. ASSUME NEW i \in 1..n PROVE q[i] \notin transit /\ ~Held(cmds, q[i])
  <2>1. q[i] \notin transit
    BY <1>6, <1>8, PartFacts DEF PartsInv
  <2>2. ASSUME Held(cmds, q[i]) PROVE FALSE
    <3>1. \E b \in asked : cmds[Key(q[i])].s[q[i].part_no].from = Id(b)
      <4> DEFINE k == Key(q[i])
                 no == q[i].part_no
      <4>1. k \in DOMAIN cmds /\ no \in DOMAIN cmds[k].s
        BY <2>2, Zenon DEF Held
      <4>2. PICK b \in asked : HeldPart(b, k, no, cmds[k].s[no])
        BY <4>1, Zenon DEF CmdsInv
      <4> QED BY <4>2 DEF HeldPart
    <3> QED BY <1>6, <1>8, <2>2, <3>1, Zenon DEF Held
  <2> QED BY <2>1, <2>2
<1>16. PlaceInv'
  <2>3. transit' = transit /\ cmds' = cmds
    BY <1>1, Zenon
  <2>4. \A z \in transit : ~Held(cmds, z)
    BY Zenon DEF PlaceInv
  <2> SUFFICES ASSUME NEW x \in Pid, NEW i \in DOMAIN todo'[x]
               PROVE  /\ todo'[x][i] \notin transit
                      /\ ~Held(cmds, todo'[x][i])
                      /\ \A j \in DOMAIN todo'[x] : i # j => todo'[x][i] # todo'[x][j]
                      /\ todo'[x][i].sender_id = x
    BY <2>3, <2>4, ZenonT(30) DEF PlaceInv
  <2>1. CASE x = p
    <3>1. i \in 1..n /\ \A j \in 1..n : i # j => i - 1 # j - 1
      BY <1>2, <1>5, <1>13, <2>1
    <3>2. \A j \in 1..n : i # j => q[i] # q[j]
      BY <1>8, <3>1, Zenon
    <3> QED BY <1>5, <1>8, <1>13, <1>15, <2>1, <3>1, <3>2, Zenon
  <2>2. CASE x # p
    BY <1>13, <2>2 DEF PlaceInv
  <2> QED BY <2>1, <2>2, Zenon
<1>17. \A x : PidUnique(x)' => PidUnique(x)
  BY <1>1 DEF PidUnique
<1>18. CmdsInv'
  BY <1>1, <1>17, Zenon DEF CmdsInv
<1>19. GotInv'
  <2>1. ASSUME NEW b \in asked, NothingOf(todo, transit, cmds, Id(b))
        PROVE  NothingOf(todo', transit, cmds, Id(b))
    <3>1. \A x \in Pid : \A i \in DOMAIN todo'[x] : Id(todo'[x][i]) # Id(b)
      BY <1>5, <1>6, <1>8, <1>13, <2>1, Zenon DEF NothingOf
    <3> QED BY <2>1, <3>1, Zenon DEF NothingOf
  <2>2. \A i \in DOMAIN got, a \in asked : ActedOn(i, a) => ActedOn(i, a)'
    BY <1>1, <2>1, Zenon DEF ActedOn
  <2> QED BY <1>1, <1>17, <2>2, Zenon DEF GotInv
<1>20. TimeInv'
  BY <1>1, Zenon DEF TimeInv
<1> QED BY <1>11, <1>12, <1>14, <1>16, <1>18, <1>19, <1>20, Zenon

----------------------------------------------------------------------------
(* parse.                                                                  *)

(* The set of pieces v is good for key k, of message a, when m comes.      *)
GoodSet(v, k, a, m) ==
  /\ v \in [arrive_time : Int, size : Nat, s : Slots] /\ v.arrive_time = now
  /\ \A n \in DOMAIN v.s : \E b \in asked : HeldPart(b, k, n, v.s[n])
  /\ PidUnique(k[1]) => v.size = num_parts(Whole(a))
  /\ \A n \in DOMAIN v.s :
       \/ n = m.part_no /\ v.s[n].from = Id(m)
       \/ k \in DOMAIN cmds /\ n \in DOMAIN cmds[k].s /\ v.s[n] = cmds[k].s[n]

(* The set that a part is for, before the part is put there.               *)
LEMMA PiecesGood ==
  ASSUME PartsInvariant, NEW a \in asked, NEW m \in transit, m \in Parts(a)
  PROVE  GoodSet(Pieces(m), Key(m), a, m)
<1> USE DEF PartsInvariant
<1> DEFINE k == Key(m)
           v == Pieces(m)
<1>1. a \in Message /\ now \in Nat
  BY Zenon DEF TypeOK
<1>2. /\ k = Key(a) /\ m.num_parts = num_parts(Whole(a)) /\ m.num_parts \in Nat
  BY <1>1, PartFacts
<1>3. k[1] = a.sender_id
  BY <1>2 DEF Key
<1> HIDE DEF k
<1>4. CASE k \in DOMAIN cmds
  <2> DEFINE c == cmds[k]
  <2>1. c \in [arrive_time : Int, size : Nat, s : Slots] /\ v = [c EXCEPT !.arrive_time = now]
    BY <1>4 DEF TypeOK, Pieces, k
  <2> HIDE DEF v, c
  <2>2. /\ v \in [arrive_time : Int, size : Nat, s : Slots] /\ v.arrive_time = now
        /\ v.s = c.s /\ v.size = c.size
    BY <1>1, <2>1
  <2>3. \A n \in DOMAIN c.s : \E b \in asked : HeldPart(b, k, n, c.s[n])
    BY <1>4, Zenon DEF CmdsInv, c
  <2>4. ASSUME PidUnique(k[1]) PROVE c.size = num_parts(Whole(a))
    <3>1. PICK b \in asked : Key(b) = k /\ c.size = num_parts(Whole(b))
      BY <1>4, <2>4, Zenon DEF CmdsInv, c
    <3>2. a = b
      BY <1>2, <1>3, <2>4, <3>1, OneMessage, Zenon
    <3> QED BY <3>1, <3>2
  <2> QED BY <1>4, <2>2, <2>3, <2>4, Zenon DEF GoodSet, v, c, k
<1>5. CASE k \notin DOMAIN cmds
  <2> DEFINE e == [i \in {} |-> {}]
  <2>1. e \in Slots /\ DOMAIN e = {}
    <3>1. e \in [{} -> Piece] /\ {} \in SUBSET Nat
      OBVIOUS
    <3> QED BY <3>1 DEF Slots
  <2>2. v = [arrive_time |-> now, size |-> m.num_parts, s |-> e]
    BY <1>5 DEF Pieces, k
  <2> HIDE DEF v, e
  <2>3. /\ v \in [arrive_time : Int, size : Nat, s : Slots] /\ v.arrive_time = now
        /\ v.s = e /\ v.size = m.num_parts
    BY <1>1, <1>2, <2>1, <2>2
  <2> QED BY <1>2, <2>1, <2>3, Zenon DEF GoodSet, v, k
<1> QED BY <1>4, <1>5

(* The same set with the part.                                             *)
LEMMA WithPartGood ==
  ASSUME PartsInvariant, NEW a \in asked, NEW m \in transit, m \in Parts(a)
  PROVE  LET v == Pieces(m)
             w == WithPart(v, m)
         IN /\ GoodSet(w, Key(m), a, m) /\ w.size = v.size
            /\ DOMAIN w.s = DOMAIN v.s \cup {m.part_no}
            /\ w.s[m.part_no] = [text |-> Chunk(Whole(a), m.part_no), from |-> Id(a)]
<1> USE DEF PartsInvariant
<1> DEFINE k == Key(m)
           v == Pieces(m)
           w == WithPart(v, m)
           no == m.part_no
           new == [text |-> Chunk(Whole(a), no), from |-> Id(a)]
<1>1. a \in Message
  BY DEF TypeOK
<1>2. /\ Id(m) = Id(a) /\ k = Key(a) /\ m.num_parts = num_parts(Whole(a))
      /\ m.num_parts \in Nat /\ no \in 0..(m.num_parts - 1)
      /\ extract_payload(m) = Chunk(Whole(a), no)
      /\ Chunk(Whole(a), no) \in Text
  BY <1>1, PartFacts, Zenon
<1>3. GoodSet(v, k, a, m)
  BY PiecesGood
<1> HIDE DEF v, k
<1>4. v \in [arrive_time : Int, size : Nat, s : Slots]
  BY <1>3, Zenon DEF GoodSet
<1>5. w = [v EXCEPT !.s = Put(v.s, no, new)]
  BY <1>2, <1>4 DEF WithPart
<1>6. new \in Piece
  BY <1>1, <1>2, Zenon DEF Piece, MessageId, Message, Id
<1>7. no \in Nat /\ v.s \in Slots
  BY <1>2, <1>4
<1>8. new.from = Id(m)
  BY <1>2, Zenon
<1>9. HeldPart(a, k, no, new)
  BY <1>2, Zenon DEF HeldPart
<1> HIDE DEF no, new, w
<1>10. /\ DOMAIN Put(v.s, no, new) = DOMAIN v.s \cup {no}
       /\ Put(v.s, no, new)[no] = new
       /\ \A n \in DOMAIN v.s : n # no => Put(v.s, no, new)[n] = v.s[n]
  BY DEF Put
<1>11. Put(v.s, no, new) \in Slots
  <2>1. PICK D \in SUBSET Nat : v.s \in [D -> Piece]
    BY <1>7 DEF Slots
  <2>2. Put(v.s, no, new) \in [D \cup {no} -> Piece] /\ D \cup {no} \in SUBSET Nat
    BY <1>6, <1>7, <2>1, Zenon DEF Put
  <2> QED BY <2>2, Zenon DEF Slots
<1>12. /\ w \in [arrive_time : Int, size : Nat, s : Slots]
       /\ w.s = Put(v.s, no, new) /\ w.size = v.size /\ w.arrive_time = v.arrive_time
  BY <1>4, <1>5, <1>11
<1>13. \A n \in DOMAIN w.s : \E b \in asked : HeldPart(b, k, n, w.s[n])
  BY <1>3, <1>9, <1>10, <1>12, Zenon DEF GoodSet
<1>14. \A n \in DOMAIN w.s :
         \/ n = no /\ w.s[n].from = Id(m)
         \/ k \in DOMAIN cmds /\ n \in DOMAIN cmds[k].s /\ w.s[n] = cmds[k].s[n]
  BY <1>3, <1>8, <1>10, <1>12, Zenon DEF GoodSet, no
<1>15. GoodSet(w, k, a, m)
  BY <1>3, <1>12, <1>13, <1>14, Zenon DEF GoodSet, no
<1> QED BY <1>10, <1>12, <1>15, Zenon DEF w, no, new, v, k

(* The command thread goes on with a set that is not complete, or raises.  *)
LEMMA KeepStep ==
  ASSUME PartsInvariant, NEW a \in asked, NEW m \in transit, m \in Parts(a),
         NEW v, GoodSet(v, Key(m), a, m), cmds' = Put(cmds, Key(m), v),
         transit' = transit \ {m},
         UNCHANGED <<process, message_id, todo, now, woken, scavenging,
                     earliest, asked, got>>
  PROVE  PartsInvariant'
<1> USE DEF PartsInvariant
<1> DEFINE k == Key(m)
<1>1. a \in Message /\ k = Key(a) /\ Id(m) = Id(a)
  BY PartFacts, Zenon DEF TypeOK
<1>2. k \in Pid \X Nat /\ k[1] = a.sender_id
  BY <1>1 DEF Key, Message
<1>3. /\ DOMAIN cmds' = DOMAIN cmds \cup {k} /\ cmds'[k] = v
      /\ \A x \in DOMAIN cmds : x # k => cmds'[x] = cmds[x]
  BY DEF Put
<1> HIDE DEF k
<1>4. TypeOK'
  BY <1>2, <1>3, Zenon DEF TypeOK, GoodSet, k
<1>5. AskedInv'
  BY Zenon DEF AskedInv
<1>6. PartsInv'
  BY DEF PartsInv
<1>7. ASSUME NEW b \in asked, NEW x \in Parts(b), x # m, Held(cmds', x)
      PROVE  Held(cmds, x)
  <2>1. Key(x) \in DOMAIN cmds' /\ x.part_no \in DOMAIN cmds'[Key(x)].s
        /\ cmds'[Key(x)].s[x.part_no].from = Id(x)
    BY <1>7, Zenon DEF Held
  <2>2. CASE Key(x) # k
    BY <1>3, <2>1, <2>2, Zenon DEF Held
  <2>3. CASE Key(x) = k
    <3>1. ~(x.part_no = m.part_no /\ Id(x) = Id(m))
      <4> SUFFICES ASSUME x.part_no = m.part_no, Id(x) = Id(m) PROVE FALSE
        OBVIOUS
      <4>1. b \in Message /\ Id(x) = Id(b) /\ x = Part(b, x.part_no) /\ m = Part(a, m.part_no)
        BY <1>1, PartFacts, Zenon DEF TypeOK
      <4>2. a = b
        BY <1>1, <4>1, Zenon DEF AskedInv
      <4> QED BY <1>7, <4>1, <4>2, Zenon
    <3>2. x.part_no \in DOMAIN v.s /\ v.s[x.part_no].from = Id(x)
      BY <1>3, <2>1, <2>3, Zenon
    <3>3. k \in DOMAIN cmds /\ x.part_no \in DOMAIN cmds[k].s
          /\ v.s[x.part_no] = cmds[k].s[x.part_no]
      BY <3>1, <3>2, Zenon DEF GoodSet, k
    <3> QED BY <2>3, <3>2, <3>3, Zenon DEF Held
  <2> QED BY <2>2, <2>3, Zenon
<1>8. PlaceInv'
  <2>1. ASSUME NEW p \in Pid, NEW i \in DOMAIN todo[p]
        PROVE  todo[p][i] \notin transit' /\ ~Held(cmds', todo[p][i])
    <3>1. PICK b \in asked : todo[p][i] \in Parts(b)
      BY <2>1, Zenon DEF PartsInv
    <3>2. todo[p][i] # m /\ todo[p][i] \notin transit /\ ~Held(cmds, todo[p][i])
      <4>1. todo[p][i] \notin transit /\ ~Held(cmds, todo[p][i])
        BY <2>1, Zenon DEF PlaceInv
      <4> QED BY <4>1, Zenon
    <3> QED BY <1>7, <3>1, <3>2, Zenon
  <2>2. ASSUME NEW x \in transit' PROVE ~Held(cmds', x)
    <3>1. x \in transit /\ x # m
      BY <2>2
    <3>2. PICK b \in asked : x \in Parts(b)
      BY <3>1, Zenon DEF PartsInv
    <3> QED BY <1>7, <3>1, <3>2, Zenon DEF PlaceInv
  <2>3. \A p \in Pid : \A i \in DOMAIN todo[p] :
          /\ \A j \in DOMAIN todo[p] : i # j => todo[p][i] # todo[p][j]
          /\ todo[p][i].sender_id = p
    BY Zenon DEF PlaceInv
  <2>4. \A p \in Pid : \A i \in DOMAIN todo[p] :
          /\ todo[p][i] \notin transit' /\ ~Held(cmds', todo[p][i])
          /\ \A j \in DOMAIN todo[p] : i # j => todo[p][i] # todo[p][j]
          /\ todo[p][i].sender_id = p
    BY <2>1, <2>3, Zenon
  <2>5. todo' = todo
    BY Zenon
  <2>6. \A p \in transit' : ~Held(cmds', p)
    BY <2>2, Zenon
  <2> QED BY ONLY <2>4, <2>5, <2>6, SMTT(20) DEF PlaceInv
<1>9. \A x : PidUnique(x)' <=> PidUnique(x)
  BY DEF PidUnique
<1>10. CmdsInv'
  <2> SUFFICES ASSUME NEW x \in DOMAIN cmds'
               PROVE  /\ \A n \in DOMAIN cmds'[x].s :
                           \E b \in asked : HeldPart(b, x, n, cmds'[x].s[n])
                      /\ PidUnique(x[1]) =>
                           \E b \in asked : /\ Key(b) = x
                                            /\ cmds'[x].size = num_parts(Whole(b))
    BY <1>9, Zenon DEF CmdsInv
  <2>1. CASE x = k
    BY <1>1, <1>3, <2>1, Zenon DEF GoodSet, k
  <2>2. CASE x # k
    BY <1>3, <2>2, Zenon DEF CmdsInv
  <2> QED BY <2>1, <2>2, Zenon
<1>11. GotInv'
  <2>1. ASSUME NEW id, NothingOf(todo, transit, cmds, id)
        PROVE  NothingOf(todo, transit', cmds', id)
    <3>1. Id(m) # id
      BY <2>1, Zenon DEF NothingOf
    <3>2. ASSUME NEW x \in DOMAIN cmds', NEW n \in DOMAIN cmds'[x].s
          PROVE  cmds'[x].s[n].from # id
      <4>1. CASE x = k
        <5>1. n \in DOMAIN v.s /\ cmds'[x].s[n] = v.s[n]
          BY <1>3, <3>2, <4>1, Zenon
        <5>2. CASE n = m.part_no /\ v.s[n].from = Id(m)
          BY <3>1, <5>1, <5>2, Zenon
        <5>3. CASE k \in DOMAIN cmds /\ n \in DOMAIN cmds[k].s /\ v.s[n] = cmds[k].s[n]
          BY <2>1, <5>1, <5>3, Zenon DEF NothingOf
        <5> QED BY <5>1, <5>2, <5>3, Zenon DEF GoodSet, k
      <4>2. CASE x # k
        BY <1>3, <2>1, <3>2, <4>2, Zenon DEF NothingOf
      <4> QED BY <4>1, <4>2, Zenon
    <3> QED BY <2>1, <3>2, Zenon DEF NothingOf
  <2>2. \A i \in DOMAIN got, b \in asked : ActedOn(i, b) => ActedOn(i, b)'
    BY <2>1, Zenon DEF ActedOn
  <2> QED BY <1>9, <2>2, Zenon DEF GotInv
<1>12. TimeInv'
  <2>1. \A x \in DOMAIN cmds' : woken - delete_threshold <= cmds'[x].arrive_time
    <3> SUFFICES ASSUME NEW x \in DOMAIN cmds' PROVE woken - delete_threshold <= cmds'[x].arrive_time
      BY Zenon
    <3>1. CASE x = k
      <4>1. cmds'[x].arrive_time = now
        BY <1>3, <3>1, Zenon DEF GoodSet, k
      <4>2. woken <= now /\ woken \in Nat /\ now \in Nat /\ delete_threshold \in Nat
        BY PartsAssumption, Zenon DEF TimeInv, TypeOK
      <4>3. woken - delete_threshold <= now
        BY ONLY <4>2, SMTT(20)
      <4> QED BY <4>1, <4>3, Zenon
    <3>2. CASE x # k
      BY <1>3, <3>2, Zenon DEF TimeInv
    <3> QED BY <3>1, <3>2, Zenon
  <2> QED BY <2>1, Zenon DEF TimeInv
<1> QED BY <1>4, <1>5, <1>6, <1>8, <1>10, <1>11, <1>12, Zenon

(* A complete set of the parts of one message reads as the message.        *)
LEMMA CompleteSet ==
  ASSUME PartsInvariant, NEW a \in asked, NEW m \in transit, m \in Parts(a),
         NEW w, GoodSet(w, Key(m), a, m), w.size = m.num_parts,
         Complete(w, m), PidUnique(a.sender_id)
  PROVE  /\ Senders(w) = {Id(a)}
         /\ Command(Join(w)) = [verb |-> a.verb, path |-> a.path]
<1> USE DEF PartsInvariant
<1> DEFINE k == Key(m)
           s == Whole(a)
           n == num_parts(s)
<1>1. a \in Message /\ k = Key(a) /\ w.size = n
  BY PartFacts, Zenon DEF TypeOK
<1>2. s \in Text /\ s # <<>> /\ n \in Nat /\ n > 0
  BY <1>1, PayloadFacts, NumPartsFacts, Zenon DEF Message, Whole
<1>3. DOMAIN w.s = 0..(n - 1)
  BY <1>1, Zenon DEF Complete
<1>4. \A i \in 0..(n - 1) : w.s[i].text = Chunk(s, i) /\ w.s[i].from = Id(a)
  <2> SUFFICES ASSUME NEW i \in 0..(n - 1)
               PROVE  w.s[i].text = Chunk(s, i) /\ w.s[i].from = Id(a)
    BY Zenon
  <2>1. PICK b \in asked : HeldPart(b, k, i, w.s[i])
    BY <1>3, Zenon DEF GoodSet
  <2>2. a = b
    BY <1>1, <2>1, OneMessage, Zenon DEF HeldPart
  <2>3. w.s[i] = [text |-> Chunk(s, i), from |-> Id(a)]
    BY <2>1, <2>2, Zenon DEF HeldPart
  <2> HIDE DEF k, s, n
  <2> QED BY ONLY <2>3, SMTT(20)
<1> HIDE DEF k, s, n
<1>5. Senders(w) = {Id(a)}
  <2>0. n \in Nat /\ n > 0
    BY <1>2, Zenon
  <2>1. 0 \in 0..(n - 1)
    BY ONLY <2>0, SMTT(20)
  <2> QED BY <1>3, <1>4, <2>1, Zenon DEF Senders
<1>6. Join(w) = s
  <2>1. PICK g : /\ g = [i \in 0..n |->
                          IF i = 0 THEN <<>> ELSE g[i - 1] \o Chunk(s, i - 1)]
                 /\ g[n] = s
    BY <1>2, ChunksJoined, Zenon DEF n
  <2>0. n \in Nat /\ n > 0
    BY <1>2, Zenon
  <2>2. \A i \in 0..n : i # 0 => i - 1 \in 0..(n - 1)
    BY ONLY <2>0, SMTT(20)
  <2>3. Joins(g, n, w)
    BY <1>3, <1>4, <2>1, <2>2, Zenon DEF Joins
  <2>4. w.size = n
    BY <1>1, Zenon DEF n, s
  <2>5. Join(w) = g[n]
    BY ONLY <1>2, <2>3, <2>4, JoinFacts, Zenon
  <2> QED BY ONLY <2>1, <2>5, Zenon
<1>7. Command(s) = [verb |-> a.verb, path |-> a.path]
  BY <1>1, CommandFacts, Zenon DEF s, Whole, Message
<1> QED BY <1>5, <1>6, <1>7, Zenon

(* The command thread has all the parts: nothing of the message is left,   *)
(* and nothing of any that was acted on before.                            *)
LEMMA CompleteStep ==
  ASSUME PartsInvariant, GotSeq, NEW a \in asked, NEW m \in transit,
         m \in Parts(a), NEW w, GoodSet(w, Key(m), a, m),
         w.size = m.num_parts, Complete(w, m),
         w.s[m.part_no].from = Id(a), m.part_no \in DOMAIN w.s,
         cmds' = Restrict(cmds, DOMAIN cmds \ {Key(m)}),
         got' = Append(got, [command |-> Command(Join(w)), from |-> Senders(w)]),
         transit' = transit \ {m},
         UNCHANGED <<process, message_id, todo, now, woken, scavenging,
                     earliest, asked>>
  PROVE  PartsInvariant' /\ GotSeq'
<1> USE DEF PartsInvariant
<1> DEFINE k == Key(m)
           e == [command |-> Command(Join(w)), from |-> Senders(w)]
<1>1. a \in Message /\ k = Key(a) /\ Id(m) = Id(a) /\ w.size = num_parts(Whole(a))
  BY PartFacts, Zenon DEF TypeOK
<1>2. /\ DOMAIN cmds' = DOMAIN cmds \ {k}
      /\ \A x \in DOMAIN cmds' : x \in DOMAIN cmds /\ x # k /\ cmds'[x] = cmds[x]
  BY Zenon DEF Restrict
<1>3. e.from = Senders(w) /\ e.command = Command(Join(w))
  BY Zenon
<1> HIDE DEF e, k
<1>4. PICK S : got \in Seq(S)
  BY Zenon DEF GotSeq
<1>5. /\ got' \in Seq(S \cup {e}) /\ Len(got) \in Nat
      /\ DOMAIN got = 1..Len(got) /\ Len(got) + 1 \in DOMAIN got'
      /\ got'[Len(got) + 1] = e
      /\ \A i \in 1..Len(got) : i \in DOMAIN got' /\ got'[i] = got[i]
      /\ \A i \in DOMAIN got' : i = Len(got) + 1 \/ i \in 1..Len(got)
  <2>1. got' = Append(got, e)
    BY Zenon DEF e
  <2> QED BY <1>4, <2>1, AppendFacts, Zenon
<1>6. GotSeq'
  BY <1>5, Zenon DEF GotSeq
<1>7. TypeOK'
  BY <1>2, Zenon DEF TypeOK
<1>8. AskedInv' /\ PartsInv'
  BY Zenon DEF AskedInv, PartsInv
<1>9. \A x : Held(cmds', x) => Held(cmds, x)
  BY <1>2, Zenon DEF Held
<1>10. PlaceInv'
  <2>1. todo' = todo /\ \A x \in transit' : x \in transit
    BY Zenon
  <2> QED BY <1>9, <2>1, PlaceShrinks, Zenon
<1>11. \A x : PidUnique(x)' <=> PidUnique(x)
  BY Zenon DEF PidUnique
<1>12. CmdsInv'
  BY <1>2, <1>11, Zenon DEF CmdsInv
<1>13. \A id : NothingOf(todo, transit, cmds, id) => NothingOf(todo, transit', cmds', id)
  <2>1. \A x \in transit' : x \in transit
    BY Zenon
  <2> QED BY ONLY <1>2, <2>1, Zenon DEF NothingOf
<1>14. ASSUME NEW id, NothingOf(todo, transit, cmds, id) PROVE id \notin e.from
  <2> SUFFICES ASSUME NEW n \in DOMAIN w.s PROVE w.s[n].from # id
    BY <1>3, Zenon DEF Senders
  <2>1. Id(m) # id
    BY <1>14, Zenon DEF NothingOf
  <2>2. CASE k \in DOMAIN cmds /\ n \in DOMAIN cmds[k].s /\ w.s[n] = cmds[k].s[n]
    BY <1>14, <2>2, Zenon DEF NothingOf
  <2>3. CASE n = m.part_no /\ w.s[n].from = Id(m)
    BY <2>1, <2>3, Zenon
  <2> QED BY <2>2, <2>3, Zenon DEF GoodSet, k
<1>15. ASSUME NEW i \in 1..Len(got), NEW b \in asked, ActedOn(i, b) PROVE ActedOn(i, b)'
  <2>1. NothingOf(todo', transit', cmds', Id(b)) /\ Id(b) \notin e.from
    BY <1>13, <1>14, <1>15, Zenon DEF ActedOn
  <2>2. got'[i] = got[i]
    BY <1>5, Zenon
  <2>3. \A j \in DOMAIN got' : i # j => Id(b) \notin got'[j].from
    BY <1>5, <1>15, <2>1, Zenon DEF ActedOn
  <2> QED BY <1>15, <2>1, <2>2, <2>3, Zenon DEF ActedOn
<1> QED
  <2> DEFINE p == a.sender_id
  <2>1. p \in Pid
    BY <1>1, Zenon DEF Message
  <2>7. PICK N : N = Len(got) + 1
    BY Zenon
  <2>8. /\ N \in DOMAIN got' /\ got'[N] = e
        /\ \A i \in DOMAIN got' : i # N => i \in 1..Len(got) /\ got'[i] = got[i]
    BY ONLY <1>5, <2>7, Zenon
  <2>2. e.from # {}
    BY <1>3, Zenon DEF Senders
  <2>3. \A f \in e.from : \E b \in asked : Id(b) = f /\ b.sender_id = p
    <3> SUFFICES ASSUME NEW n \in DOMAIN w.s
                 PROVE  \E b \in asked : Id(b) = w.s[n].from /\ b.sender_id = p
      BY <1>3, Zenon DEF Senders
    <3>1. PICK b \in asked : HeldPart(b, k, n, w.s[n])
      BY Zenon DEF GoodSet, k
    <3>2. Key(b) = Key(a) /\ w.s[n].from = Id(b)
      BY ONLY <1>1, <3>1, HeldPartFacts, Zenon
    <3> QED BY <3>2, Zenon DEF Key
  <2>4. ASSUME PidUnique(p) PROVE ActedOn(N, a)'
    <3>1. e.from = {Id(a)} /\ e.command = [verb |-> a.verb, path |-> a.path]
      BY <1>3, <2>4, CompleteSet, Zenon
    <3>2. NothingOf(todo', transit', cmds', Id(a))
      <4>1. ASSUME NEW b \in asked, NEW x \in Parts(b), Id(x) = Id(a), x # m
            PROVE  Held(cmds, x)
        <5>1. b \in Message /\ Id(x) = Id(b)
          BY <4>1, PartFacts, Zenon DEF TypeOK
        <5>2. a = b
          BY <4>1, <5>1, Zenon DEF AskedInv
        <5>3. /\ Key(x) = k /\ x.part_no \in 0..(w.size - 1) /\ x = Part(a, x.part_no)
              /\ m = Part(a, m.part_no)
          BY <1>1, <4>1, <5>2, PartFacts, Zenon DEF k
        <5>4. x.part_no \in DOMAIN w.s /\ x.part_no # m.part_no
          BY <4>1, <5>3, Zenon DEF Complete
        <5>5. k \in DOMAIN cmds /\ x.part_no \in DOMAIN cmds[k].s
              /\ w.s[x.part_no] = cmds[k].s[x.part_no]
          BY <5>4, Zenon DEF GoodSet, k
        <5>6. Id(a) \in e.from /\ w.s[x.part_no].from = Id(a)
          <6>1. w.s[x.part_no].from \in Senders(w)
            BY <5>4, Zenon DEF Senders
          <6> QED BY <1>3, <3>1, <6>1, Zenon
        <5>7. cmds[k].s[x.part_no].from = Id(x)
          BY ONLY <4>1, <5>5, <5>6, Zenon
        <5> QED BY ONLY <5>3, <5>5, <5>7, Zenon DEF Held
      <4>2. ASSUME NEW x \in Pid, NEW i \in DOMAIN todo[x] PROVE Id(todo[x][i]) # Id(a)
        <5>1. PICK b \in asked : todo[x][i] \in Parts(b)
          BY <4>2, Zenon DEF PartsInv
        <5>4. PlaceInv
          BY Zenon
        <5>5. todo[x][i] \notin transit /\ ~Held(cmds, todo[x][i])
          BY ONLY <4>2, <5>4, Zenon DEF PlaceInv
        <5>2. todo[x][i] # m /\ ~Held(cmds, todo[x][i])
          BY <5>5, Zenon
        <5> SUFFICES ASSUME Id(todo[x][i]) = Id(a) PROVE FALSE
          BY Zenon
        <5>3. Held(cmds, todo[x][i])
          BY <4>1, <5>1, <5>2, Zenon
        <5> QED BY <5>2, <5>3, Zenon
      <4>3. ASSUME NEW x \in transit' PROVE Id(x) # Id(a)
        <5>1. x \in transit /\ x # m
          BY <4>3, Zenon
        <5>2. PICK b \in asked : x \in Parts(b)
          BY <5>1, Zenon DEF PartsInv
        <5> QED BY <4>1, <5>1, <5>2, Zenon DEF PlaceInv
      <4>4. ASSUME NEW x \in DOMAIN cmds', NEW n \in DOMAIN cmds'[x].s
            PROVE  cmds'[x].s[n].from # Id(a)
        <5>1. x \in DOMAIN cmds /\ x # k /\ cmds'[x] = cmds[x]
          BY <1>2, <4>4, Zenon
        <5>2. PICK b \in asked : HeldPart(b, x, n, cmds[x].s[n])
          BY <4>4, <5>1, Zenon DEF CmdsInv
        <5>3. Key(b) # Key(a) /\ cmds[x].s[n].from = Id(b)
          BY ONLY <1>1, <5>1, <5>2, HeldPartFacts, Zenon DEF k
        <5>4. Id(b) # Id(a)
          BY <5>3, Zenon DEF AskedInv
        <5> QED BY <5>1, <5>3, <5>4, Zenon
      <4> QED BY <4>2, <4>3, <4>4, Zenon DEF NothingOf
    <3>3. ASSUME NEW j \in 1..Len(got) PROVE Id(a) \notin got[j].from
      <4> SUFFICES ASSUME Id(a) \in got[j].from PROVE FALSE
        BY Zenon
      <4>1. j \in DOMAIN got
        BY <1>5, <3>3, Zenon
      <4>2. PICK x \in Pid :
              /\ \A f \in got[j].from : \E b \in asked : Id(b) = f /\ b.sender_id = x
              /\ PidUnique(x) => \E b \in asked : ActedOn(j, b)
        BY <4>1, Zenon DEF GotInv
      <4>3. x = p
        <5>1. PICK b \in asked : Id(b) = Id(a) /\ b.sender_id = x
          BY <4>2, Zenon
        <5> QED BY <5>1, Zenon DEF AskedInv
      <4>4. PICK b \in asked : ActedOn(j, b)
        BY <2>4, <4>2, <4>3, Zenon
      <4>5. Id(a) = Id(b) /\ NothingOf(todo, transit, cmds, Id(b))
        BY <4>4, Zenon DEF ActedOn
      <4> QED BY <1>1, <4>5, Zenon DEF NothingOf
    <3>4. \A j \in DOMAIN got' : N # j => Id(a) \notin got'[j].from
      BY <2>8, <3>3, Zenon
    <3> QED BY <2>8, <3>1, <3>2, <3>4, Zenon DEF ActedOn
  <2>5. GotInv'
    <3> SUFFICES ASSUME NEW i \in DOMAIN got'
                 PROVE  \E x \in Pid :
                          /\ got'[i].from # {}
                          /\ \A f \in got'[i].from : \E b \in asked : Id(b) = f /\ b.sender_id = x
                          /\ PidUnique(x) => \E b \in asked : ActedOn(i, b)'
      BY <1>11, Zenon DEF GotInv
    <3>1. CASE i = N
      BY <2>1, <2>2, <2>3, <2>4, <2>8, <3>1, Zenon
    <3>2. CASE i # N
      <4>1. i \in 1..Len(got) /\ i \in DOMAIN got /\ got'[i] = got[i]
        BY <1>5, <2>8, <3>2, Zenon
      <4>2. PICK x \in Pid :
              /\ got[i].from # {}
              /\ \A f \in got[i].from : \E b \in asked : Id(b) = f /\ b.sender_id = x
              /\ PidUnique(x) => \E b \in asked : ActedOn(i, b)
        BY <4>1, Zenon DEF GotInv
      <4> QED BY <1>15, <4>1, <4>2, Zenon
    <3> QED BY <3>1, <3>2, Zenon
  <2>6. TimeInv'
    BY <1>2, Zenon DEF TimeInv
  <2> QED BY <1>6, <1>7, <1>8, <1>10, <1>12, <2>5, <2>6, Zenon

(* The command thread receives a part: a mismatch of the number of parts   *)
(* raises, the last part completes the command, another is put by.         *)
LEMMA ReceiveStep ==
  ASSUME PartsInvariant, GotSeq, NEW m \in transit, Receive(m)
  PROVE  PartsInvariant' /\ GotSeq'
<1> DEFINE v == Pieces(m)
           w == WithPart(v, m)
<1>1. PICK a \in asked : m \in Parts(a)
  BY Zenon DEF PartsInvariant, PartsInv
<1>2. GoodSet(v, Key(m), a, m)
  BY <1>1, PiecesGood, Zenon
<1>3. /\ GoodSet(w, Key(m), a, m) /\ w.size = v.size
      /\ DOMAIN w.s = DOMAIN v.s \cup {m.part_no}
      /\ w.s[m.part_no] = [text |-> Chunk(Whole(a), m.part_no), from |-> Id(a)]
  BY <1>1, WithPartGood, Zenon
<1>4. m.part_no \in DOMAIN w.s /\ w.s[m.part_no].from = Id(a)
  BY <1>3, PieceFrom, Zenon
<1>5. /\ transit' = transit \ {m}
      /\ UNCHANGED <<process, message_id, todo, now, woken, scavenging,
                     earliest, asked>>
  BY Zenon DEF Receive
<1>6. \/ got' = got /\ cmds' = Put(cmds, Key(m), v)
      \/ got' = got /\ cmds' = Put(cmds, Key(m), w)
      \/ /\ v.size = m.num_parts /\ Complete(w, m)
         /\ cmds' = Restrict(cmds, DOMAIN cmds \ {Key(m)})
         /\ got' = Append(got, [command |-> Command(Join(w)), from |-> Senders(w)])
  BY Zenon DEF Receive
<1> HIDE DEF v, w
<1>7. CASE got' = got /\ cmds' = Put(cmds, Key(m), v)
  <2>1. PartsInvariant'
    BY <1>1, <1>2, <1>5, <1>7, KeepStep, Zenon
  <2> QED BY <1>7, <2>1, Zenon DEF GotSeq
<1>8. CASE got' = got /\ cmds' = Put(cmds, Key(m), w)
  <2>1. PartsInvariant'
    BY <1>1, <1>3, <1>5, <1>8, KeepStep, Zenon
  <2> QED BY <1>8, <2>1, Zenon DEF GotSeq
<1>9. CASE /\ v.size = m.num_parts /\ Complete(w, m)
           /\ cmds' = Restrict(cmds, DOMAIN cmds \ {Key(m)})
           /\ got' = Append(got, [command |-> Command(Join(w)), from |-> Senders(w)])
  BY <1>1, <1>3, <1>4, <1>5, <1>9, CompleteStep, Zenon
<1> QED BY <1>6, <1>7, <1>8, <1>9, Zenon

(* Every step keeps the invariant.                                         *)
LEMMA NextStep ==
  ASSUME PartsInvariant, GotSeq, [Next]_vars
  PROVE  PartsInvariant' /\ GotSeq'
<1>1. ASSUME NEW p \in Pid, NEW verb \in Verb, NEW path \in Path,
             SendBegin(p, verb, path)
      PROVE  PartsInvariant' /\ GotSeq'
  <2>1. PartsInvariant'
    BY <1>1, SendBeginStep, Zenon
  <2>2. got' = got
    BY <1>1, Zenon DEF SendBegin, BrokerFrame
  <2> QED BY <2>1, <2>2, Zenon DEF GotSeq
<1>2. ASSUME NEW p \in Pid, SendPart(p) PROVE PartsInvariant' /\ GotSeq'
  <2>1. PartsInvariant'
    BY <1>2, SendPartStep, Zenon
  <2>2. got' = got
    BY <1>2, Zenon DEF SendPart, BrokerFrame
  <2> QED BY <2>1, <2>2, Zenon DEF GotSeq
<1>3. ASSUME NEW p \in Pid, SendTimeout(p) PROVE PartsInvariant' /\ GotSeq'
  <2>1. PartsInvariant'
    BY <1>3, SendTimeoutStep, Zenon
  <2>2. got' = got
    BY <1>3, Zenon DEF SendTimeout, BrokerFrame
  <2> QED BY <2>1, <2>2, Zenon DEF GotSeq
<1>4. ASSUME NEW p \in Pid, SenderEnds(p) PROVE PartsInvariant' /\ GotSeq'
  <2>1. PartsInvariant'
    BY <1>4, SenderEndsStep, Zenon
  <2>2. got' = got
    BY <1>4, Zenon DEF SenderEnds, BrokerFrame
  <2> QED BY <2>1, <2>2, Zenon DEF GotSeq
<1>5. CASE Deliver
  BY <1>5, ReceiveStep, Zenon DEF Deliver
<1>6. CASE ScavengeBegin \/ Tick
  BY <1>6, ClockStep, Zenon DEF GotSeq, ScavengeBegin, Tick
<1>7. CASE Scavenge
  BY <1>7, ScavengeStep, Zenon DEF GotSeq, Scavenge
<1>8. CASE UNCHANGED vars
  <2> USE <1>8 DEF vars, PartsInvariant
  <2>1. TypeOK' /\ AskedInv' /\ PartsInv' /\ TimeInv' /\ GotSeq'
    BY Zenon DEF TypeOK, AskedInv, PartsInv, TimeInv, GotSeq
  <2>2. PlaceInv'
    BY PlaceShrinks, Zenon
  <2>3. CmdsInv'
    BY Zenon DEF CmdsInv, PidUnique
  <2>4. GotInv'
    BY GotFrame, Zenon
  <2> QED BY <2>1, <2>2, <2>3, <2>4, Zenon
<1> QED
  BY <1>1, <1>2, <1>3, <1>4, <1>5, <1>6, <1>7, <1>8, Zenon DEF Next

(* The inductive invariant holds of every behaviour of the senders, the    *)
(* command thread and the scavenger.                                       *)
THEOREM PartsInvariantHolds == Spec => [](PartsInvariant /\ GotSeq)
<1>1. Init => PartsInvariant /\ GotSeq
  BY InitInvariant
<1>2. PartsInvariant /\ GotSeq /\ [Next]_vars => (PartsInvariant /\ GotSeq)'
  BY NextStep
<1> QED BY <1>1, <1>2, PTL DEF Spec

(* For every size of the payload, every text of the commands and every     *)
(* number of processes, messages and repeated pids: what the broker acts   *)
(* on is the verb and the path some process sent, whole and once, unless   *)
(* two processes bore the sender's pid.                                    *)
THEOREM CommandsArriveAsSent == Spec => []CommandsAsSent
<1>1. PartsInvariant => CommandsAsSent
  <2> SUFFICES ASSUME PartsInvariant, NEW i \in DOMAIN got,
                      \A id \in got[i].from : PidUnique(id.sender_id)
               PROVE  /\ \E a \in asked :
                           /\ got[i].from = {Id(a)}
                           /\ got[i].command = [verb |-> a.verb, path |-> a.path]
                      /\ \A j \in DOMAIN got : i # j => got[i].from \cap got[j].from = {}
    BY Zenon DEF CommandsAsSent
  <2>1. PICK p \in Pid :
          /\ got[i].from # {}
          /\ \A f \in got[i].from : \E a \in asked : Id(a) = f /\ a.sender_id = p
          /\ PidUnique(p) => \E a \in asked : ActedOn(i, a)
    BY Zenon DEF PartsInvariant, GotInv
  <2>2. PidUnique(p)
    <3>1. PICK f \in got[i].from : TRUE
      BY <2>1, Zenon
    <3>2. PICK a \in asked : Id(a) = f /\ a.sender_id = p
      BY <2>1, <3>1, Zenon
    <3>3. f.sender_id = p
      BY <3>2, Zenon DEF Id
    <3> QED BY <3>1, <3>3, Zenon
  <2>3. PICK a \in asked : ActedOn(i, a)
    BY <2>1, <2>2, Zenon
  <2> QED BY <2>3, Zenon DEF ActedOn
<1> QED BY <1>1, PartsInvariantHolds, PTL

(* However the scavenger and the command thread interleave, the parts of a *)
(* message that never becomes whole are gone delete_threshold and one      *)
(* sleep of the scavenger after the last of them came.                     *)
THEOREM ResidueIsBounded == Spec => []ResidueBounded
<1>1. PartsInvariant => ResidueBounded
  <2> SUFFICES ASSUME PartsInvariant, NEW k \in DOMAIN cmds
               PROVE  now - cmds[k].arrive_time <= delete_threshold + sleep_time
    BY DEF ResidueBounded
  <2>1. now \in Nat /\ woken \in Nat /\ cmds[k].arrive_time \in Int
    BY Zenon DEF PartsInvariant, TypeOK
  <2>2. woken - delete_threshold <= cmds[k].arrive_time /\ now - woken <= sleep_time
    BY DEF PartsInvariant, TimeInv
  <2> QED BY <2>1, <2>2, PartsAssumption
<1> QED BY <1>1, PartsInvariantHolds, PTL
============================================================================
