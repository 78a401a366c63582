-------------------------- MODULE ReplayFileProofs --------------------------
(***************************************************************************)
(* Proofs about ReplayAnalysis. The parser: what it accepts is a whole     *)
(* file, and what it meets of a file that is still written is torn data.   *)
(* The framing: whatever commands a chunk holds, the analyser finds them.  *)
(* The analysis: every one is counted, once, for its player and window.    *)
(***************************************************************************)
EXTENDS ReplayAnalysis, FiniteSetTheorems, SequenceTheorems, TLAPS

----------------------------------------------------------------------------
(* Sequences and numbers *)

\* A function on 1 .. n is a sequence of length n.
LEMMA FunctionIsASequence ==
    ASSUME NEW n \in Nat, NEW S, NEW f \in [1 .. n -> S]
    PROVE  f \in Seq(S) /\ Len(f) = n
  OBVIOUS

\* What is where in two sequences, one behind the other.
LEMMA Concatenated ==
    ASSUME NEW S, NEW s \in Seq(S), NEW t \in Seq(S)
    PROVE  /\ s \o t \in Seq(S) /\ Len(s \o t) = Len(s) + Len(t)
           /\ Len(s) \in Nat /\ Len(t) \in Nat
           /\ \A i \in 1 .. Len(s) : (s \o t)[i] = s[i]
           /\ \A i \in 1 .. Len(t) : (s \o t)[Len(s) + i] = t[i]
  OBVIOUS

\* A set of natural numbers has a smallest.
LEMMA SmallestInNat ==
    ASSUME NEW T \in SUBSET Nat, T # {}
    PROVE  \E x \in T : \A y \in T : x <= y
  <1> DEFINE Less == {ss \in Nat \X Nat : ss[1] < ss[2]}
  <1>1. IsWellFoundedOn(Less, Nat)
    BY NatLessThanWellFounded DEF OpToRel
  <1>2. T \subseteq Nat
    OBVIOUS
  <1> HIDE DEF Less
  <1>3. PICK x \in T : \A y \in T : ~(<<y, x>> \in Less)
    BY ONLY <1>1, <1>2, T # {}, WFMin
  <1>4. \A y \in T : ~(y < x)
    BY <1>2, <1>3 DEF Less
  <1> QED BY <1>2, <1>4

\* What holds of a number when it holds of those above it holds of all of an interval.
LEMMA DownwardInduction ==
    ASSUME NEW a \in Int, NEW b \in Int, NEW T \in SUBSET (a .. b),
           \A x \in a .. b : (\A y \in x + 1 .. b : y \in T) => x \in T
    PROVE  T = a .. b
  <1> DEFINE Wrong == {n \in Nat : b - n >= a /\ b - n \notin T}
  <1>1. Wrong = {}
    <2>1. SUFFICES ASSUME Wrong # {} PROVE FALSE
      OBVIOUS
    <2>2. PICK n \in Wrong : \A m \in Wrong : n <= m
      BY <2>1, SmallestInNat
    <2>3. b - n \in a .. b
      BY <2>2
    <2>4. ASSUME NEW y \in (b - n) + 1 .. b PROVE y \in T
      <3>1. b - y \in Nat /\ b - y < n /\ b - (b - y) = y /\ y >= a
        BY <2>2
      <3>2. b - y \notin Wrong
        BY <2>2, <3>1
      <3> QED BY <3>1, <3>2
    <2> QED BY <2>2, <2>3, <2>4
  <1>2. ASSUME NEW x \in a .. b PROVE x \in T
    <2>1. b - x \in Nat /\ b - (b - x) = x /\ x >= a
      OBVIOUS
    <2>2. b - x \notin Wrong
      BY <1>1
    <2> HIDE DEF Wrong
    <2>3. b - (b - x) >= a => b - (b - x) \in T
      BY ONLY <2>1, <2>2 DEF Wrong
    <2> QED BY <2>1, <2>3
  <1> QED BY <1>2

\* What holds of a number when it holds of those below it holds of all of an interval.
LEMMA UpwardInduction ==
    ASSUME NEW a \in Int, NEW b \in Int, NEW T \in SUBSET (a .. b),
           \A x \in a .. b : (\A y \in a .. x - 1 : y \in T) => x \in T
    PROVE  T = a .. b
  <1> DEFINE Wrong == {n \in Nat : a + n <= b /\ a + n \notin T}
  <1>1. Wrong = {}
    <2>1. SUFFICES ASSUME Wrong # {} PROVE FALSE
      OBVIOUS
    <2>2. PICK n \in Wrong : \A m \in Wrong : n <= m
      BY <2>1, SmallestInNat
    <2>3. a + n \in a .. b
      BY <2>2
    <2>4. ASSUME NEW y \in a .. (a + n) - 1 PROVE y \in T
      <3>1. y - a \in Nat /\ y - a < n /\ a + (y - a) = y /\ y <= b
        BY <2>2
      <3>2. y - a \notin Wrong
        <4>1. n \in Nat
          BY <2>2
        <4> HIDE DEF Wrong
        <4> QED BY ONLY <2>2, <3>1, <4>1
      <3> QED BY <3>1, <3>2
    <2> QED BY <2>2, <2>3, <2>4
  <1>2. ASSUME NEW x \in a .. b PROVE x \in T
    <2>1. x - a \in Nat /\ a + (x - a) = x /\ x <= b
      OBVIOUS
    <2>2. x - a \notin Wrong
      BY <1>1
    <2> HIDE DEF Wrong
    <2>3. a + (x - a) <= b => a + (x - a) \in T
      BY ONLY <2>1, <2>2 DEF Wrong
    <2> QED BY <2>1, <2>3
  <1> QED BY <1>2

\* What Phi makes of a function at a place depends on its values above that place only.
LooksAbove(Phi, a, b, V) ==
    /\ Phi \in [[a .. b -> V] -> [a .. b -> V]]
    /\ \A g, h \in [a .. b -> V] : \A x \in a .. b : (\A y \in x + 1 .. b : g[y] = h[y]) => Phi[g][x] = Phi[h][x]
IsFixpoint(f, Phi, a, b, V) == f \in [a .. b -> V] /\ f = Phi[f]

\* A recursive definition over an interval, each value from those above it, has its function.
LEMMA DownwardRecursion ==
    ASSUME NEW a \in Int, NEW b \in Int, a <= b, NEW V, V # {},
           NEW Phi, LooksAbove(Phi, a, b, V)
    PROVE  \E f : IsFixpoint(f, Phi, a, b, V)
  <1> DEFINE D == a .. b
             Solved(g, n) == \A x \in D : x > b - n => g[x] = Phi[g][x]
             T == {n \in Nat : \A g \in [D -> V] : ~Solved(g, n)}
  <1>1. \A g, h \in [D -> V] : \A x \in D : (\A y \in x + 1 .. b : g[y] = h[y]) => Phi[g][x] = Phi[h][x]
    BY DEF LooksAbove
  <1>2. \A g \in [D -> V] : Phi[g] \in [D -> V]
    BY DEF LooksAbove
  <1> HIDE DEF D
  <1>3. \E g \in [D -> V] : Solved(g, 0)
    <2>1. PICK v \in V : TRUE
      OBVIOUS
    <2>2. [x \in D |-> v] \in [D -> V]
      OBVIOUS
    <2>3. Solved([x \in D |-> v], 0)
      BY DEF D
    <2> QED BY <2>2, <2>3
  <1>4. ASSUME NEW n \in Nat, NEW g \in [D -> V], Solved(g, n)
        PROVE  Solved(Phi[g], n + 1)
    <2> SUFFICES ASSUME NEW x \in D, x > b - (n + 1) PROVE Phi[g][x] = Phi[Phi[g]][x]
      OBVIOUS
    <2>1. ASSUME NEW y \in x + 1 .. b PROVE g[y] = Phi[g][y]
      <3>1. y \in D /\ y > b - n
        BY DEF D
      <3> QED BY <1>4, <3>1
    <2> QED BY <1>1, <1>2, <2>1
  <1> HIDE DEF Solved
  <1>5. \A n \in Nat : \E g \in [D -> V] : Solved(g, n)
    <2>1. T = {}
      <3>1. SUFFICES ASSUME T # {} PROVE FALSE
        OBVIOUS
      <3>2. PICK n \in T : \A m \in T : n <= m
        BY <3>1, SmallestInNat
      <3>3. CASE n = 0
        BY <1>3, <3>2, <3>3
      <3>4. CASE n # 0
        <4>1. n - 1 \in Nat /\ (n - 1) + 1 = n /\ n - 1 \notin T
          BY <3>2, <3>4
        <4>2. PICK g \in [D -> V] : Solved(g, n - 1)
          BY <4>1
        <4>3. Solved(Phi[g], n) /\ Phi[g] \in [D -> V]
          BY <1>2, <1>4, <4>1, <4>2
        <4> QED BY <3>2, <4>3
      <3> QED BY <3>3, <3>4
    <2> QED BY <2>1
  <1>6. PICK g \in [D -> V] : Solved(g, b - a + 1)
    BY <1>5
  <1>7. \A x \in D : g[x] = Phi[g][x]
    BY <1>6 DEF D, Solved
  <1>8. g = Phi[g]
    BY <1>2, <1>7
  <1> QED BY <1>8 DEF D, IsFixpoint

----------------------------------------------------------------------------
(* What the format says where *)

\* A match has the parts of a match.
LEMMA MatchIsARecord ==
    ASSUME NEW m \in Matches
    PROVE  /\ m.game \in STRING /\ m.players \in Seq(STRING) /\ m.slots \in Seq(SlotRecords)
           /\ m.offset \in Int /\ m.chunks \in Seq(ChunkRecords) /\ m.footer \in FooterRecords
           /\ m.footer.time \in Nat /\ m.footer.data \in Seq(Nat) /\ Len(m.footer.data) \in Nat \ {0}
           /\ m.footer.length \in Int
           /\ Len(m.chunks) \in Nat /\ NotWholeBefore(m.footer.data)
  <1>1. m \in MatchRecords /\ NotWholeBefore(m.footer.data)
    BY MatchAssumption
  <1>2. m.footer \in FooterRecords /\ m.chunks \in Seq(ChunkRecords)
    BY <1>1 DEF MatchRecords
  <1>3. m.footer.data \in Seq(Nat) /\ m.footer.data # <<>>
    BY <1>2 DEF FooterRecords
  <1>4. Len(m.footer.data) \in Nat \ {0}
    BY <1>3
  <1> QED BY <1>1, <1>2, <1>3, <1>4 DEF MatchRecords, FooterRecords

\* The header is a sequence of fields, and there is always a field.
LEMMA HeaderIsASequence ==
    ASSUME NEW m \in Matches
    PROVE  DOMAIN Header(m) = 1 .. Len(Header(m)) /\ Len(Header(m)) \in Nat \ {0}
  <1> DEFINE fields == PlayerFields(m.game)
             T == {"id", "name", "teamByte"}
             n == Len(fields) * Len(m.players)
  <1>1. fields \in Seq(T) /\ (Len(fields) = 2 \/ Len(fields) = 3)
    <2>1. <<"id", "name">> \in Seq(T) /\ Len(<<"id", "name">>) = 2 /\ <<"teamByte">> \in Seq(T)
            /\ Len(<<"teamByte">>) = 1
      OBVIOUS
    <2>2. CASE m.game = "multiplayer"
      <3>1. fields = <<"id", "name">> \o <<"teamByte">>
        BY <2>2 DEF PlayerFields
      <3> QED BY <2>1, <3>1
    <2>3. CASE m.game # "multiplayer"
      <3>1. fields = <<"id", "name">> \o <<>>
        BY <2>3 DEF PlayerFields
      <3>2. fields = <<"id", "name">>
        BY <3>1
      <3> QED BY <2>1, <3>2
    <2> QED BY <2>2, <2>3
  <1>2. Len(m.players) \in Nat
    BY MatchIsARecord
  <1>3. n \in Nat
    <2> HIDE DEF fields
    <2>1. Len(fields) \in Nat
      BY <1>1
    <2> QED BY <1>2, <2>1
  <1>4. \A i \in 1 .. n : fields[((i - 1) % Len(fields)) + 1] \in T
    <2>1. TAKE i \in 1 .. n
    <2> HIDE DEF n
    <2>2. i - 1 \in Int
      BY <1>3
    <2> HIDE DEF fields
    <2>3. ((i - 1) % Len(fields)) + 1 \in 1 .. Len(fields)
      <3>1. CASE Len(fields) = 2
        BY <2>2, <3>1
      <3>2. CASE Len(fields) = 3
        BY <2>2, <3>2
      <3> QED BY <1>1, <3>1, <3>2
    <2> HIDE DEF T
    <2> QED BY <1>1, <2>3
  <1>5. Players(m) = [i \in 1 .. n |-> fields[((i - 1) % Len(fields)) + 1]]
    BY DEF Players
  <1>6. Players(m) \in Seq(T)
    <2> HIDE DEF n, fields, T
    <2>1. Players(m) \in [1 .. n -> T]
      BY <1>4, <1>5
    <2> QED BY ONLY <1>3, <2>1, FunctionIsASequence
  <1> DEFINE U == {BeforePlayers[i] : i \in 1 .. 13}
             V == {BeforeMark[i] : i \in 1 .. 2}
             W == {AfterMark[i] : i \in 1 .. 13}
             S == T \cup U \cup V \cup W
  <1>7. BeforePlayers \in Seq(U) /\ Len(BeforePlayers) = 13
    BY DEF BeforePlayers
  <1>8. BeforeMark \in Seq(V) /\ AfterMark \in Seq(W)
    BY DEF BeforeMark, AfterMark
  <1> HIDE DEF T, U, V, W
  <1>9. BeforePlayers \in Seq(S) /\ Players(m) \in Seq(S) /\ BeforeMark \in Seq(S) /\ AfterMark \in Seq(S)
    BY <1>6, <1>7, <1>8
  <1> HIDE DEF S
  <1>10. Header(m) \in Seq(S) /\ Len(Header(m)) >= 13
    <2> DEFINE front == BeforePlayers \o Players(m)
               middle == front \o BeforeMark
    <2>1. front \in Seq(S) /\ Len(front) >= 13
      <3>1. front \in Seq(S) /\ Len(front) = Len(BeforePlayers) + Len(Players(m)) /\ Len(Players(m)) \in Nat
        BY ONLY <1>9, Concatenated
      <3> QED BY <1>7, <3>1
    <2>2. middle \in Seq(S) /\ Len(middle) >= 13
      <3> HIDE DEF front
      <3>1. middle \in Seq(S) /\ Len(middle) = Len(front) + Len(BeforeMark) /\ Len(BeforeMark) \in Nat
        BY ONLY <1>9, <2>1, Concatenated
      <3> QED BY <2>1, <3>1
    <2>3. Header(m) = middle \o AfterMark
      BY DEF Header
    <2> HIDE DEF middle
    <2>4. middle \o AfterMark \in Seq(S) /\ Len(middle \o AfterMark) = Len(middle) + Len(AfterMark)
            /\ Len(AfterMark) \in Nat
      BY ONLY <1>9, <2>2, Concatenated
    <2> QED BY <2>2, <2>3, <2>4
  <1> QED BY <1>10

\* The chunks, one behind the other, each ChunkUnits long.
LEMMA ChunksAreInARow ==
    ASSUME NEW m \in Matches
    PROVE  /\ Chunks(m) \in Seq(Int) /\ Len(Chunks(m)) = ChunkUnits * Len(m.chunks)
           /\ \A k \in 1 .. Len(m.chunks), j \in 1 .. ChunkUnits :
                 Chunks(m)[ChunkUnits * (k - 1) + j] = Chunk(m.chunks[k])[j]
  <1> DEFINE n == Len(m.chunks)
  <1>1. m.chunks \in Seq(ChunkRecords) /\ n \in Nat
    BY MatchIsARecord
  <1>2. ASSUME NEW k \in 1 .. n, NEW j \in 1 .. 5
        PROVE  Chunk(m.chunks[k])[j] \in Int
    <2>1. m.chunks[k] \in ChunkRecords
      BY <1>1
    <2>2. m.chunks[k].time \in Int /\ m.chunks[k].type \in Int /\ m.chunks[k].size \in Int
      BY ONLY <2>1 DEF ChunkRecords
    <2> QED BY ONLY <2>2, j \in 1 .. 5 DEF Chunk
  <1>3. ASSUME NEW i \in 1 .. 5 * n
        PROVE  ((i - 1) \div 5) + 1 \in 1 .. n /\ ((i - 1) % 5) + 1 \in 1 .. 5
    BY <1>1
  <1>4. Chunks(m) = [i \in 1 .. 5 * n |-> Chunk(m.chunks[((i - 1) \div 5) + 1])[((i - 1) % 5) + 1]]
    BY DEF Chunks, ChunkUnits
  <1>5. ASSUME NEW i \in 1 .. 5 * n
        PROVE  Chunk(m.chunks[((i - 1) \div 5) + 1])[((i - 1) % 5) + 1] \in Int
    BY <1>2, <1>3
  <1>6. Chunks(m) \in Seq(Int) /\ Len(Chunks(m)) = 5 * n
    <2>1. 5 * n \in Nat
      BY <1>1
    <2> HIDE DEF n
    <2>2. Chunks(m) \in [1 .. 5 * n -> Int]
      BY <1>4, <1>5
    <2> QED BY ONLY <2>1, <2>2, FunctionIsASequence
  <1>7. ASSUME NEW k \in 1 .. n, NEW j \in 1 .. 5
        PROVE  Chunks(m)[5 * (k - 1) + j] = Chunk(m.chunks[k])[j]
    <2> DEFINE i == 5 * (k - 1) + j
    <2>1. i \in 1 .. 5 * n /\ ((i - 1) \div 5) + 1 = k /\ ((i - 1) % 5) + 1 = j
      BY <1>1
    <2> HIDE DEF i
    <2>2. Chunks(m)[i] = Chunk(m.chunks[k])[j]
      BY <1>4, <2>1
    <2> QED BY <2>2 DEF i
  <1> QED BY <1>6, <1>7 DEF ChunkUnits

\* The footer: the magic, the time, the data, the length.
LEMMA FooterIsASequence ==
    ASSUME NEW f \in FooterRecords
    PROVE  /\ Footer(f) \in Seq(Int) /\ Len(Footer(f)) = Len(f.data) + 3 /\ Len(Footer(f)) >= FooterMin
           /\ Footer(f)[1] = FooterMagic /\ Footer(f)[2] = f.time
           /\ \A i \in 1 .. Len(f.data) : Footer(f)[i + 2] = f.data[i]
           /\ Footer(f)[Len(f.data) + 3] = f.length
           /\ \A i \in 2 .. Len(f.data) + 2 : Footer(f)[i] # FooterMagic
  <1>1. f.data \in Seq(Nat) /\ f.data # <<>> /\ f.time \in Nat /\ f.length \in Int
    BY DEF FooterRecords
  <1>2. Len(f.data) \in Nat \ {0} /\ f.data \in Seq(Int)
    BY <1>1
  <1> DEFINE front == <<FooterMagic, f.time>>
             middle == front \o f.data
  <1>3. front \in Seq(Int) /\ Len(front) = 2 /\ front[1] = FooterMagic /\ front[2] = f.time
    BY <1>1 DEF FooterMagic
  <1> HIDE DEF front
  <1>4. /\ middle \in Seq(Int) /\ Len(middle) = Len(f.data) + 2
        /\ \A i \in 1 .. 2 : middle[i] = front[i]
        /\ \A i \in 1 .. Len(f.data) : middle[2 + i] = f.data[i]
    <2>1. /\ middle \in Seq(Int) /\ Len(middle) = Len(front) + Len(f.data)
          /\ \A i \in 1 .. Len(front) : middle[i] = front[i]
          /\ \A i \in 1 .. Len(f.data) : middle[Len(front) + i] = f.data[i]
      <3>1. front \in Seq(Int) /\ f.data \in Seq(Int)
        BY <1>2, <1>3
      <3> HIDE DEF front
      <3>2. front \o f.data \in Seq(Int) /\ Len(front \o f.data) = Len(front) + Len(f.data)
        BY ONLY <3>1, Concatenated
      <3>3. \A i \in 1 .. Len(front) : (front \o f.data)[i] = front[i]
        BY ONLY <3>1, Concatenated
      <3>4. \A i \in 1 .. Len(f.data) : (front \o f.data)[Len(front) + i] = f.data[i]
        BY ONLY <3>1, Concatenated
      <3> QED BY <3>2, <3>3, <3>4
    <2> HIDE DEF middle
    <2> QED BY <1>2, <1>3, <2>1
  <1> HIDE DEF middle
  <1>5. Footer(f) = middle \o <<f.length>>
    BY DEF Footer, middle, front
  <1>6. /\ Footer(f) \in Seq(Int) /\ Len(Footer(f)) = Len(f.data) + 3
        /\ Footer(f)[Len(f.data) + 3] = f.length
        /\ \A i \in 1 .. Len(f.data) + 2 : Footer(f)[i] = middle[i]
    <2>1. <<f.length>> \in Seq(Int) /\ Len(<<f.length>>) = 1 /\ <<f.length>>[1] = f.length
      BY <1>1
    <2> DEFINE back == <<f.length>>
    <2> HIDE DEF back
    <2>2. /\ middle \o back \in Seq(Int) /\ Len(middle \o back) = Len(middle) + Len(back)
          /\ \A i \in 1 .. Len(middle) : (middle \o back)[i] = middle[i]
          /\ \A i \in 1 .. Len(back) : (middle \o back)[Len(middle) + i] = back[i]
      <3>1. back \in Seq(Int)
        BY <2>1 DEF back
      <3>2. middle \in Seq(Int)
        BY <1>4
      <3>3. middle \o back \in Seq(Int) /\ Len(middle \o back) = Len(middle) + Len(back)
        BY ONLY <3>1, <3>2, Concatenated
      <3>4. \A i \in 1 .. Len(middle) : (middle \o back)[i] = middle[i]
        BY ONLY <3>1, <3>2, Concatenated
      <3>5. \A i \in 1 .. Len(back) : (middle \o back)[Len(middle) + i] = back[i]
        BY ONLY <3>1, <3>2, Concatenated
      <3> QED BY <3>3, <3>4, <3>5
    <2>3. Footer(f) = middle \o back /\ Len(back) = 1 /\ back[1] = f.length
      BY <1>5, <2>1 DEF back
    <2>4. (middle \o back)[Len(middle) + 1] = f.length
      BY <2>2, <2>3
    <2>5. Len(middle) = Len(f.data) + 2 /\ Len(f.data) \in Nat
      BY <1>2, <1>4
    <2>6. Footer(f) \in Seq(Int)
      BY <2>2, <2>3
    <2>7. Len(Footer(f)) = Len(f.data) + 3
      BY <2>2, <2>3, <2>5
    <2>8. Footer(f)[Len(f.data) + 3] = f.length
      <3>1. Len(middle) + 1 = Len(f.data) + 3
        BY ONLY <2>5
      <3>2. Footer(f)[Len(middle) + 1] = f.length
        BY ONLY <2>3, <2>4
      <3> QED BY ONLY <3>1, <3>2
    <2>9. \A i \in 1 .. Len(f.data) + 2 : Footer(f)[i] = middle[i]
      <3>1. \A i \in 1 .. Len(middle) : Footer(f)[i] = middle[i]
        BY ONLY <2>2, <2>3
      <3> QED BY ONLY <2>5, <3>1
    <2> QED BY <2>6, <2>7, <2>8, <2>9
  <1>7. \A i \in 1 .. Len(f.data) : Footer(f)[i + 2] = f.data[i]
    <2>1. TAKE i \in 1 .. Len(f.data)
    <2>2. 2 + i \in 1 .. Len(f.data) + 2 /\ 2 + i = i + 2
      BY <1>2
    <2> QED BY <1>4, <1>6, <2>2
  <1>8. Footer(f)[1] = FooterMagic /\ Footer(f)[2] = f.time
    <2>1. 1 \in 1 .. Len(f.data) + 2 /\ 2 \in 1 .. Len(f.data) + 2
      BY <1>2
    <2>2. Footer(f)[1] = middle[1] /\ Footer(f)[2] = middle[2]
      BY <1>6, <2>1
    <2>3. middle[1] = FooterMagic /\ middle[2] = f.time
      BY <1>3, <1>4
    <2> QED BY <2>2, <2>3
  <1>9. ASSUME NEW i \in 2 .. Len(f.data) + 2
        PROVE  Footer(f)[i] # FooterMagic
    <2>1. CASE i = 2
      BY <1>1, <1>8, <2>1 DEF FooterMagic
    <2>2. CASE i # 2
      <3>1. i - 2 \in 1 .. Len(f.data) /\ (i - 2) + 2 = i
        BY <1>2, <2>2
      <3>2. Footer(f)[i] = f.data[i - 2]
        BY <1>7, <3>1
      <3>3. f.data[i - 2] \in Nat
        BY <1>1, <3>1
      <3> QED BY <3>2, <3>3 DEF FooterMagic
    <2> QED BY <2>1, <2>2
  <1> QED BY <1>2, <1>6, <1>7, <1>8, <1>9 DEF FooterMin

\* The whole file: a header, the chunks, the end marker, the footer.
LEMMA FileLayout ==
    ASSUME NEW m \in Matches
    PROVE  /\ File(m) \in Seq(Int) /\ Payload(m) \in Seq(Int)
           /\ Len(Payload(m)) = ChunkUnits * Len(m.chunks) + 1 + Len(Footer(m.footer))
           /\ Len(File(m)) = Len(Header(m)) + ChunkUnits * Len(m.chunks) + 1 + Len(Footer(m.footer))
           /\ \A i \in 1 .. Len(Payload(m)) : File(m)[Len(Header(m)) + i] = Payload(m)[i]
           /\ \A k \in 1 .. Len(m.chunks), j \in 1 .. ChunkUnits :
                 File(m)[Len(Header(m)) + ChunkUnits * (k - 1) + j] = Chunk(m.chunks[k])[j]
           /\ File(m)[Len(Header(m)) + ChunkUnits * Len(m.chunks) + 1] = EndTimeCode
           /\ \A j \in 1 .. Len(Footer(m.footer)) :
                 File(m)[Len(Header(m)) + ChunkUnits * Len(m.chunks) + 1 + j] = Footer(m.footer)[j]
  <1> DEFINE b == Len(Header(m))
             n == Len(m.chunks)
             chunks == Chunks(m)
             footer == Footer(m.footer)
             mark == <<EndTimeCode>>
             body == chunks \o mark
             blank == [i \in DOMAIN Header(m) |-> 0]
  <1>1. b \in Nat /\ n \in Nat /\ m.footer \in FooterRecords
    BY HeaderIsASequence, MatchIsARecord
  <1>2. chunks \in Seq(Int) /\ Len(chunks) = 5 * n
    BY ChunksAreInARow DEF ChunkUnits
  <1>3. \A k \in 1 .. n, j \in 1 .. 5 : chunks[5 * (k - 1) + j] = Chunk(m.chunks[k])[j]
    BY ChunksAreInARow DEF ChunkUnits
  <1>4. footer \in Seq(Int) /\ Len(footer) \in Nat
    <2>1. footer \in Seq(Int)
      BY ONLY <1>1, FooterIsASequence
    <2> HIDE DEF footer
    <2> QED BY <2>1
  <1>5. mark \in Seq(Int) /\ Len(mark) = 1 /\ mark[1] = EndTimeCode
    BY DEF EndTimeCode
  <1>6. blank \in Seq(Int) /\ Len(blank) = b
    <2> HIDE DEF b
    <2>1. DOMAIN Header(m) = 1 .. b
      BY HeaderIsASequence DEF b
    <2>2. blank \in [1 .. b -> Int]
      BY <2>1
    <2> HIDE DEF blank
    <2> QED BY ONLY <1>1, <2>2, FunctionIsASequence
  <1>7. Payload(m) = body \o footer /\ File(m) = blank \o Payload(m)
    BY DEF Payload, File
  <1> HIDE DEF b, n, chunks, footer, mark, blank
  <1>8. /\ body \in Seq(Int) /\ Len(body) = 5 * n + 1
        /\ \A i \in 1 .. 5 * n : body[i] = chunks[i]
        /\ body[5 * n + 1] = EndTimeCode
    <2>1. body \in Seq(Int) /\ Len(body) = Len(chunks) + Len(mark)
      BY ONLY <1>2, <1>5, Concatenated
    <2>2. \A i \in 1 .. Len(chunks) : body[i] = chunks[i]
      BY ONLY <1>2, <1>5, Concatenated
    <2>3. \A i \in 1 .. Len(mark) : body[Len(chunks) + i] = mark[i]
      BY ONLY <1>2, <1>5, Concatenated
    <2> HIDE DEF body
    <2>4. body[Len(chunks) + 1] = mark[1]
      BY <1>5, <2>3
    <2> QED BY <1>1, <1>2, <1>5, <2>1, <2>2, <2>4
  <1> HIDE DEF body
  <1>9. /\ Payload(m) \in Seq(Int) /\ Len(Payload(m)) = 5 * n + 1 + Len(footer)
        /\ \A i \in 1 .. 5 * n + 1 : Payload(m)[i] = body[i]
        /\ \A j \in 1 .. Len(footer) : Payload(m)[5 * n + 1 + j] = footer[j]
    <2>1. body \in Seq(Int) /\ footer \in Seq(Int)
      BY <1>4, <1>8
    <2>2. body \o footer \in Seq(Int) /\ Len(body \o footer) = Len(body) + Len(footer)
      BY ONLY <2>1, Concatenated
    <2>3. \A i \in 1 .. Len(body) : (body \o footer)[i] = body[i]
      BY ONLY <2>1, Concatenated
    <2>4. \A i \in 1 .. Len(footer) : (body \o footer)[Len(body) + i] = footer[i]
      BY ONLY <2>1, Concatenated
    <2> QED BY <1>7, <1>8, <2>2, <2>3, <2>4
  <1>10. /\ File(m) \in Seq(Int) /\ Len(File(m)) = b + 5 * n + 1 + Len(footer)
         /\ \A i \in 1 .. Len(Payload(m)) : File(m)[b + i] = Payload(m)[i]
    <2>1. blank \in Seq(Int) /\ Payload(m) \in Seq(Int)
      BY <1>6, <1>9
    <2>2. blank \o Payload(m) \in Seq(Int) /\ Len(blank \o Payload(m)) = Len(blank) + Len(Payload(m))
      BY ONLY <2>1, Concatenated
    <2>3. \A i \in 1 .. Len(Payload(m)) : (blank \o Payload(m))[Len(blank) + i] = Payload(m)[i]
      BY ONLY <2>1, Concatenated
    <2>4. Len(File(m)) = b + (5 * n + 1 + Len(footer))
      BY <1>6, <1>7, <1>9, <2>2
    <2>5. Len(File(m)) = b + 5 * n + 1 + Len(footer)
      BY ONLY <1>1, <1>4, <2>4
    <2> QED BY <1>6, <1>7, <2>2, <2>3, <2>5
  <1>11. ASSUME NEW k \in 1 .. n, NEW j \in 1 .. 5
         PROVE  File(m)[b + 5 * (k - 1) + j] = Chunk(m.chunks[k])[j]
    <2> DEFINE i == 5 * (k - 1) + j
    <2>1. i \in 1 .. 5 * n /\ i \in 1 .. 5 * n + 1 /\ i \in 1 .. 5 * n + 1 + Len(footer)
            /\ b + 5 * (k - 1) + j = b + i
      BY <1>1, <1>4
    <2>2. chunks[i] = Chunk(m.chunks[k])[j]
      BY <1>3
    <2> HIDE DEF i
    <2>3. File(m)[b + i] = Payload(m)[i] /\ Payload(m)[i] = body[i] /\ body[i] = chunks[i]
      BY <1>8, <1>9, <1>10, <2>1
    <2> QED BY <2>1, <2>2, <2>3
  <1>12. File(m)[b + 5 * n + 1] = EndTimeCode
    <2> DEFINE i == 5 * n + 1
    <2>1. i \in 1 .. 5 * n + 1 /\ i \in 1 .. 5 * n + 1 + Len(footer) /\ b + 5 * n + 1 = b + i
      BY <1>1, <1>4
    <2>2. body[i] = EndTimeCode
      BY <1>8
    <2> HIDE DEF i
    <2> QED BY <1>9, <1>10, <2>1, <2>2
  <1>13. ASSUME NEW j \in 1 .. Len(footer)
         PROVE  File(m)[b + 5 * n + 1 + j] = footer[j]
    <2> DEFINE i == 5 * n + 1 + j
    <2>1. i \in 1 .. 5 * n + 1 + Len(footer) /\ b + 5 * n + 1 + j = b + i
      BY <1>1, <1>4
    <2>2. Payload(m)[i] = footer[j]
      BY <1>9
    <2> HIDE DEF i
    <2> QED BY <1>9, <1>10, <2>1, <2>2
  <1> QED BY <1>9, <1>10, <1>11, <1>12, <1>13 DEF ChunkUnits, b, n, footer

----------------------------------------------------------------------------
(* The header *)

\* The first of the places in a set is one of them.
LEMMA FirstIsAPlace ==
    ASSUME NEW n \in Nat, NEW T \in SUBSET (1 .. n), T # {}
    PROVE  (CHOOSE i \in T : \A j \in T : i <= j) \in T
  <1>1. T \in SUBSET Nat
    OBVIOUS
  <1>2. \E i \in T : \A j \in T : i <= j
    BY ONLY <1>1, T # {}, SmallestInNat
  <1> QED BY <1>2

\* A header that is accepted was there in whole, and has no field that is not accepted.
LEMMA AcceptedHeader ==
    ASSUME NEW m \in Matches, NEW n \in Nat, HeaderOutcome(m, n) = "ok"
    PROVE  /\ n >= Len(Header(m)) /\ m.offset = Len(AfterMark)
           /\ \A i \in DOMAIN Header(m) : Verdict(m, Header(m)[i]) = "ok"
  <1> DEFINE bad == {i \in DOMAIN Header(m) : Verdict(m, Header(m)[i]) # "ok"}
             first == CHOOSE i \in bad : \A j \in bad : i <= j
  <1>1. /\ DOMAIN Header(m) = 1 .. Len(Header(m)) /\ Len(Header(m)) \in Nat
    BY HeaderIsASequence
  <1>2. bad # {} => first \in bad
    <2>1. bad \in SUBSET (1 .. Len(Header(m)))
      BY <1>1
    <2> HIDE DEF bad
    <2> QED BY <1>1, <2>1, FirstIsAPlace
  <1>3. bad # {} => Verdict(m, Header(m)[first]) # "ok" /\ first \in 1 .. Len(Header(m))
    BY <1>1, <1>2
  <1>4. HeaderOutcome(m, n) = IF bad # {} /\ first <= n THEN Verdict(m, Header(m)[first])
                              ELSE IF n < Len(Header(m)) THEN "torn"
                              ELSE IF m.offset # Len(AfterMark) THEN "corrupt" ELSE "ok"
    BY DEF HeaderOutcome
  <1> HIDE DEF first
  <1>5. ~(bad # {} /\ first <= n)
    BY <1>3, <1>4
  <1>6. n >= Len(Header(m)) /\ m.offset = Len(AfterMark)
    BY <1>1, <1>4, <1>5
  <1>7. bad = {}
    BY <1>1, <1>3, <1>5, <1>6
  <1> QED BY <1>6, <1>7

\* A header of which all is accepted is accepted once it is there.
LEMMA FlawlessHeader ==
    ASSUME NEW m \in Matches, NEW n \in Nat, m.offset = Len(AfterMark),
           \A i \in DOMAIN Header(m) : Verdict(m, Header(m)[i]) = "ok"
    PROVE  HeaderOutcome(m, n) = IF n < Len(Header(m)) THEN "torn" ELSE "ok"
  BY HeaderIsASequence DEF HeaderOutcome

----------------------------------------------------------------------------
(* The footer *)

\* What is read of a footer, from its front, and claims to be a footer, is one by its own length.
LEMMA FooterOfItsOwnLength ==
    ASSUME NEW f \in FooterRecords, NEW rest \in Seq(Int), Len(rest) <= Len(Footer(f)),
           \A i \in 1 .. Len(rest) : rest[i] = Footer(f)[i],
           FooterAt(rest) # 0
    PROVE  FooterAt(rest) = Len(rest) /\ rest[Len(rest)] = Len(rest) /\ Len(rest) >= FooterMin
  <1>1. Len(rest) \in Nat /\ Len(f.data) \in Nat /\ Len(Footer(f)) = Len(f.data) + 3
    BY FooterIsASequence DEF FooterRecords
  <1>2. rest # <<>>
    BY DEF FooterAt
  <1> DEFINE length == rest[Len(rest)]
  <1>3. /\ length \in FooterMin .. Len(rest) /\ rest[Len(rest) - length + 1] = FooterMagic
        /\ FooterAt(rest) = length
    BY <1>2 DEF FooterAt, Last
  <1> HIDE DEF length
  <1> DEFINE i == Len(rest) - length + 1
  <1>4. i \in 1 .. Len(rest) /\ i <= Len(f.data)
    BY <1>1, <1>3 DEF FooterMin
  <1>5. Footer(f)[i] = FooterMagic
    BY <1>3, <1>4
  <1>6. i \notin 2 .. Len(f.data) + 2
    BY <1>5, FooterIsASequence
  <1>7. length = Len(rest)
    BY <1>1, <1>3, <1>4, <1>6
  <1> QED BY <1>3, <1>7 DEF length, FooterMin

\* A whole footer that gives its length is recognised as one.
LEMMA FooterIsFound ==
    ASSUME NEW f \in FooterRecords, f.length = Len(Footer(f)),
           NEW rest \in Seq(Int), NEW front \in Nat, Len(rest) = front + Len(Footer(f)),
           \A i \in 1 .. Len(Footer(f)) : rest[front + i] = Footer(f)[i]
    PROVE  FooterAt(rest) = Len(Footer(f))
  <1>1. Len(f.data) \in Nat \ {0} /\ Len(Footer(f)) = Len(f.data) + 3
    BY FooterIsASequence DEF FooterRecords
  <1>2. Footer(f)[Len(f.data) + 3] = f.length /\ Footer(f)[1] = FooterMagic
    BY FooterIsASequence
  <1>3. rest[Len(rest)] = Len(Footer(f)) /\ rest[front + 1] = FooterMagic
    <2>1. Len(f.data) + 3 \in 1 .. Len(Footer(f)) /\ 1 \in 1 .. Len(Footer(f))
      BY <1>1
    <2>2. rest[front + (Len(f.data) + 3)] = f.length /\ rest[front + 1] = FooterMagic
      BY <1>2, <2>1
    <2> QED BY <1>1, <2>2
  <1>4. rest # <<>> /\ Len(Footer(f)) \in FooterMin .. Len(rest) /\ Len(rest) - Len(Footer(f)) + 1 = front + 1
    BY <1>1 DEF FooterMin
  <1> QED BY <1>3, <1>4 DEF FooterAt, Last

\* The data of what is read of a footer.
LEMMA DataOfAFooter ==
    ASSUME NEW f \in FooterRecords, NEW rest \in Seq(Int), Len(rest) <= Len(Footer(f)), Len(rest) >= FooterMin,
           \A i \in 1 .. Len(rest) : rest[i] = Footer(f)[i]
    PROVE  /\ SubSeq(rest, 3, Len(rest) - 1) = SubSeq(f.data, 1, Len(rest) - 3)
           /\ Len(rest) = Len(Footer(f)) => SubSeq(rest, 3, Len(rest) - 1) = f.data
  <1>1. f.data \in Seq(Nat) /\ Len(f.data) \in Nat /\ f.data \in Seq(Int)
    BY DEF FooterRecords
  <1>2. PICK n \in Nat : Len(rest) = n + 3 /\ n <= Len(f.data)
    <2>1. Len(rest) \in Nat /\ Len(rest) - 3 \in Nat /\ Len(rest) = (Len(rest) - 3) + 3
      BY DEF FooterMin
    <2>2. Len(Footer(f)) = Len(f.data) + 3
      BY FooterIsASequence
    <2>3. Len(rest) - 3 <= Len(f.data)
      BY ONLY <1>1, <2>1, <2>2, Len(rest) <= Len(Footer(f))
    <2> QED BY <2>1, <2>3
  <1> DEFINE a == SubSeq(rest, 3, n + 2)
             d == SubSeq(f.data, 1, n)
  <1>3. a \in Seq(Int) /\ Len(a) = n /\ \A i \in 1 .. n : a[i] = rest[2 + i]
    <2>1. /\ 3 \in 1 .. Len(rest) + 1 /\ n + 2 \in 3 - 1 .. Len(rest)
      BY <1>2
    <2>2. /\ a \in Seq(Int) /\ Len(a) = (n + 2) - 3 + 1
          /\ \A i \in 1 .. (n + 2) - 3 + 1 : a[i] = rest[3 + i - 1]
      BY <1>2, <2>1, SubSeqProperties
    <2> HIDE DEF a
    <2>3. \A i \in 1 .. n : 3 + i - 1 = 2 + i /\ i \in 1 .. (n + 2) - 3 + 1
      OBVIOUS
    <2> QED BY <2>2, <2>3
  <1>4. d \in Seq(Int) /\ Len(d) = n /\ \A i \in 1 .. n : d[i] = f.data[i]
    <2>1. /\ 1 \in 1 .. Len(f.data) + 1 /\ n \in 1 - 1 .. Len(f.data)
      BY <1>1, <1>2
    <2>2. /\ d \in Seq(Int) /\ Len(d) = n - 1 + 1
          /\ \A i \in 1 .. n - 1 + 1 : d[i] = f.data[1 + i - 1]
      BY <1>1, <2>1, SubSeqProperties
    <2> HIDE DEF d
    <2>3. \A i \in 1 .. n : 1 + i - 1 = i /\ i \in 1 .. n - 1 + 1
      OBVIOUS
    <2> QED BY <2>2, <2>3
  <1> HIDE DEF a, d
  <1>5. ASSUME NEW i \in 1 .. n
        PROVE  a[i] = f.data[i]
    <2>1. 2 + i \in 1 .. Len(rest) /\ i \in 1 .. Len(f.data) /\ i + 2 = 2 + i
      BY <1>1, <1>2
    <2>2. Footer(f)[i + 2] = f.data[i]
      BY <2>1, FooterIsASequence
    <2> QED BY <1>3, <2>1, <2>2
  <1>6. a = d
    BY <1>3, <1>4, <1>5, SeqEqual
  <1>7. n = Len(f.data) => a = f.data
    BY <1>1, <1>3, <1>5, SeqEqual
  <1>8. Len(rest) - 1 = n + 2 /\ Len(rest) - 3 = n /\ (Len(rest) = Len(Footer(f)) => n = Len(f.data))
    BY <1>1, <1>2, FooterIsASequence
  <1> QED BY <1>6, <1>7, <1>8 DEF a, d

\* What verifyFooter accepts of a footer that is on its way is all of it, and a sound one.
LEMMA AcceptedFooter ==
    ASSUME NEW f \in FooterRecords, NotWholeBefore(f.data), NEW time,
           NEW rest \in Seq(Int), Len(rest) <= Len(Footer(f)),
           \A i \in 1 .. Len(rest) : rest[i] = Footer(f)[i],
           FooterOutcome(rest, time) = "ok"
    PROVE  /\ Len(rest) = Len(Footer(f)) /\ f.length = Len(Footer(f)) /\ f.time = time
           /\ DataIsRecognized(f.data)
  <1>1. FooterAt(rest) # 0 /\ rest[2] = time /\ DataIsRecognized(SubSeq(rest, 3, Len(rest) - 1))
    BY DEF FooterOutcome
  <1>2. rest[Len(rest)] = Len(rest) /\ Len(rest) >= FooterMin
    BY <1>1, FooterOfItsOwnLength
  <1>3. Len(rest) \in Nat /\ Len(f.data) \in Nat /\ Len(Footer(f)) = Len(f.data) + 3
    BY FooterIsASequence DEF FooterRecords
  <1>4. Len(rest) = Len(Footer(f))
    <2>1. SUFFICES ASSUME Len(rest) < Len(Footer(f)) PROVE FALSE
      BY <1>3
    <2>2. DataIsRecognized(SubSeq(f.data, 1, Len(rest) - 3))
      BY <1>1, <1>2, DataOfAFooter
    <2>3. Len(rest) - 3 \in 1 .. Len(f.data) - 1
      BY <1>2, <1>3, <2>1 DEF FooterMin
    <2> QED BY <2>2, <2>3 DEF NotWholeBefore
  <1>5. DataIsRecognized(f.data)
    <2>1. SubSeq(rest, 3, Len(rest) - 1) = f.data
      BY <1>2, <1>4, DataOfAFooter
    <2> QED BY <1>1, <2>1
  <1>6. f.time = time /\ f.length = Len(rest)
    <2>1. 2 \in 1 .. Len(rest) /\ Len(rest) \in 1 .. Len(rest) /\ Len(rest) = Len(f.data) + 3
      BY <1>2, <1>3, <1>4 DEF FooterMin
    <2>2. rest[2] = f.time /\ rest[Len(rest)] = f.length
      BY <2>1, FooterIsASequence
    <2> QED BY <1>1, <1>2, <2>2
  <1> QED BY <1>4, <1>5, <1>6

\* What is there of a sound footer is accepted when it is all there and torn data before, unless a
\* number in its data makes it look whole too early.
LEMMA SoundFooter ==
    ASSUME NEW m \in Matches, WellFormed(m),
           NEW rest \in Seq(Int), Len(rest) <= Len(Footer(m.footer)),
           \A i \in 1 .. Len(rest) : rest[i] = Footer(m.footer)[i]
    PROVE  LET outcome == FooterOutcome(rest, m.footer.time)
               whole == Len(rest) = Len(Footer(m.footer))
           IN \/ outcome = "ok"
              \/ ~whole /\ outcome = "torn"
              \/ ~whole /\ outcome = "corrupt" /\ EchoesFooter(m)
  <1> DEFINE f == m.footer
  <1>1. f \in FooterRecords /\ f.length = Len(Footer(f)) /\ DataIsRecognized(f.data)
    BY MatchIsARecord DEF WellFormed
  <1>2. CASE FooterAt(rest) = 0
    <2> HIDE DEF f
    <2>1. Len(rest) # Len(Footer(f))
      <3>1. SUFFICES ASSUME Len(rest) = Len(Footer(f)) PROVE FALSE
        OBVIOUS
      <3>2. Len(rest) = 0 + Len(Footer(f)) /\ \A i \in 1 .. Len(Footer(f)) : rest[0 + i] = Footer(f)[i]
        <4>1. Len(Footer(f)) \in Nat
          BY <1>1, FooterIsASequence
        <4> QED BY <3>1, <4>1 DEF f
      <3>3. FooterAt(rest) = Len(Footer(f))
        BY <1>1, <3>2, FooterIsFound
      <3>4. Len(f.data) \in Nat /\ Len(Footer(f)) = Len(f.data) + 3
        BY <1>1, FooterIsASequence DEF FooterRecords
      <3> QED BY <1>2, <3>3, <3>4
    <2> QED BY <1>2, <2>1 DEF FooterOutcome, f
  <1>3. CASE FooterAt(rest) # 0
    <2> HIDE DEF f
    <2>1. \A i \in 1 .. Len(rest) : rest[i] = Footer(f)[i]
      BY DEF f
    <2>2. Len(rest) <= Len(Footer(f))
      BY DEF f
    <2>3. FooterAt(rest) = Len(rest) /\ rest[Len(rest)] = Len(rest) /\ Len(rest) >= FooterMin
      BY <1>1, <1>3, <2>1, <2>2, FooterOfItsOwnLength
    <2>4. Len(rest) \in Nat /\ Len(Footer(f)) \in Nat /\ Len(Footer(f)) = Len(f.data) + 3 /\ Len(f.data) \in Nat
      <3>1. Len(f.data) \in Nat
        BY <1>1 DEF FooterRecords
      <3> QED BY <1>1, <3>1, FooterIsASequence
    <2>5. ASSUME Len(rest) # Len(Footer(f))
          PROVE  EchoesFooter(m)
      <3>1. Len(rest) \in FooterMin .. Len(Footer(f)) - 1 /\ Len(rest) \in 1 .. Len(rest)
        BY <2>2, <2>3, <2>4, <2>5 DEF FooterMin
      <3>2. Footer(f)[Len(rest)] = Len(rest)
        BY <2>1, <2>3, <3>1
      <3> QED BY <3>1, <3>2 DEF EchoesFooter, f
    <2>6. ASSUME Len(rest) = Len(Footer(f))
          PROVE  FooterOutcome(rest, f.time) = "ok"
      <3>1. SubSeq(rest, 3, Len(rest) - 1) = f.data
        BY <1>1, <2>1, <2>2, <2>3, <2>6, DataOfAFooter
      <3>2. rest[2] = f.time
        <4>1. 2 \in 1 .. Len(rest)
          BY <2>3, <2>4 DEF FooterMin
        <4> QED BY <1>1, <2>1, <4>1, FooterIsASequence
      <3> QED BY <1>1, <1>3, <2>3, <3>1, <3>2 DEF FooterOutcome
    <2>7. FooterOutcome(rest, f.time) \in {"ok", "corrupt"}
      BY <1>3 DEF FooterOutcome
    <2> QED BY <2>5, <2>6, <2>7 DEF f
  <1> QED BY <1>2, <1>3

----------------------------------------------------------------------------
(* The parse under way *)

Outcomes == {"none", "torn", "corrupt", "limit", "ok"}

\* Every field of the header is accepted, and the offset it gives is right.
SoundHeader ==
    /\ match.offset = Len(AfterMark)
    /\ \A i \in DOMAIN Header(match) : Verdict(match, Header(match)[i]) = "ok"

\* The parser is behind the first k chunks, which are sound and on disk, and knows the time of the last.
Behind(k) ==
    /\ reader.at = BodyStart + 1 + ChunkUnits * k /\ reader.at <= written + 1
    /\ reader.time = IF k = 0 THEN 0 ELSE match.chunks[k].time
    /\ \A i \in 1 .. k : /\ match.chunks[i].type \in 1 .. 4 /\ match.chunks[i].size \in 0 .. MaxChunk
                         /\ match.chunks[i].sound

Parsed ==
    /\ match \in Matches /\ written \in 0 .. Len(File(match))
    /\ reader \in [at : Nat, time : Nat, outcome : Outcomes]
    /\ IF reader.at <= 1 THEN reader.time = 0
       ELSE SoundHeader /\ \E k \in 0 .. Len(match.chunks) : Behind(k)
    /\ SynopsisIsWhole

\* What a header comes to.
LEMMA HeaderOutcomes ==
    ASSUME NEW m \in Matches, NEW n \in Nat
    PROVE  HeaderOutcome(m, n) \in Outcomes
  <1> DEFINE bad == {i \in DOMAIN Header(m) : Verdict(m, Header(m)[i]) # "ok"}
             first == CHOOSE i \in bad : \A j \in bad : i <= j
             verdict == Verdict(m, Header(m)[first])
  <1>1. verdict \in Outcomes
    BY DEF Verdict, Outcomes
  <1>2. HeaderOutcome(m, n) = IF bad # {} /\ first <= n THEN verdict
                              ELSE IF n < Len(Header(m)) THEN "torn"
                              ELSE IF m.offset # Len(AfterMark) THEN "corrupt" ELSE "ok"
    BY DEF HeaderOutcome
  <1> HIDE DEF verdict, first, bad
  <1> QED BY <1>1, <1>2 DEF Outcomes

\* The sizes of the file that is read.
LEMMA FileSizes ==
    ASSUME Parsed
    PROVE  /\ match \in Matches /\ written \in Nat /\ written <= Len(File(match))
           /\ BodyStart \in Nat \ {0} /\ Len(match.chunks) \in Nat
           /\ Len(Footer(match.footer)) \in Nat /\ Len(Footer(match.footer)) >= FooterMin
           /\ Len(File(match)) = BodyStart + 5 * Len(match.chunks) + 1 + Len(Footer(match.footer))
           /\ File(match) \in Seq(Int)
  <1>1. match \in Matches /\ match.footer \in FooterRecords
    BY MatchIsARecord DEF Parsed
  <1>2. BodyStart \in Nat \ {0}
    BY <1>1, HeaderIsASequence DEF BodyStart
  <1>3. Len(Footer(match.footer)) \in Nat /\ Len(Footer(match.footer)) >= FooterMin
    BY <1>1, FooterIsASequence
  <1>4. /\ File(match) \in Seq(Int)
        /\ Len(File(match)) = BodyStart + 5 * Len(match.chunks) + 1 + Len(Footer(match.footer))
    BY <1>1, FileLayout DEF BodyStart, ChunkUnits
  <1>5. Len(match.chunks) \in Nat
    BY <1>1, MatchIsARecord
  <1>6. written \in Nat /\ written <= Len(File(match))
    BY <1>4 DEF Parsed
  <1> QED BY <1>1, <1>2, <1>3, <1>4, <1>5, <1>6

\* What is on disk is the front of the file.
LEMMA FrontOnDisk ==
    ASSUME Parsed
    PROVE  /\ OnDisk \in Seq(Int) /\ Len(OnDisk) = written
           /\ \A i \in 1 .. written : OnDisk[i] = File(match)[i]
  <1> DEFINE file == File(match)
  <1>1. file \in Seq(Int) /\ written \in Nat /\ written <= Len(file) /\ Len(file) \in Nat
    BY FileSizes
  <1>2. 1 \in 1 .. Len(file) + 1 /\ written \in 1 - 1 .. Len(file)
    BY <1>1
  <1>3. OnDisk = SubSeq(file, 1, written)
    BY DEF OnDisk
  <1> HIDE DEF file
  <1>4. /\ OnDisk \in Seq(Int) /\ Len(OnDisk) = written - 1 + 1
        /\ \A i \in 1 .. written - 1 + 1 : OnDisk[i] = file[1 + i - 1]
    BY <1>1, <1>2, <1>3, SubSeqProperties
  <1>5. written - 1 + 1 = written /\ \A i \in 1 .. written : 1 + i - 1 = i
    BY <1>1
  <1> QED BY <1>4, <1>5 DEF file

\* What is left on disk from a place on.
LEMMA LeftOnDisk ==
    ASSUME Parsed, NEW a \in Nat \ {0}, a <= written + 1
    PROVE  /\ SubSeq(OnDisk, a, written) \in Seq(Int)
           /\ Len(SubSeq(OnDisk, a, written)) = written + 1 - a
           /\ \A j \in 1 .. written + 1 - a : SubSeq(OnDisk, a, written)[j] = File(match)[a + j - 1]
  <1> DEFINE file == File(match)
             disk == OnDisk
             left == SubSeq(disk, a, written)
  <1>1. written \in Nat
    BY FileSizes
  <1>2. disk \in Seq(Int) /\ Len(disk) = written /\ \A i \in 1 .. written : disk[i] = file[i]
    BY FrontOnDisk
  <1> HIDE DEF disk
  <1>3. a \in 1 .. Len(disk) + 1 /\ written \in a - 1 .. Len(disk)
    BY <1>1, <1>2
  <1>4. /\ left \in Seq(Int) /\ Len(left) = written - a + 1
        /\ \A j \in 1 .. written - a + 1 : left[j] = disk[a + j - 1]
    BY <1>2, <1>3, SubSeqProperties
  <1> HIDE DEF left, file
  <1>5. written - a + 1 = written + 1 - a
    BY <1>1
  <1>6. ASSUME NEW j \in 1 .. written + 1 - a
        PROVE  left[j] = file[a + j - 1]
    <2>1. a + j - 1 \in 1 .. written
      BY <1>1
    <2> QED BY <1>2, <1>4, <1>5, <2>1
  <1> QED BY <1>4, <1>5, <1>6 DEF left, disk, file

\* The invariant holds before anything is read.
LEMMA ParsedInitially == Init => Parsed
  <1> SUFFICES ASSUME ParserInit PROVE Parsed
    BY DEF Init
  <1>1. match \in Matches
    BY DEF ParserInit
  <1>2. Len(File(match)) \in Nat
    <2>1. File(match) \in Seq(Int)
      BY <1>1, FileLayout
    <2> QED BY <2>1
  <1>3. reader = [at |-> 0, time |-> 0, outcome |-> "none"] /\ written = 0
    BY DEF ParserInit, Idle
  <1>4. SynopsisIsWhole
    BY <1>3 DEF SynopsisIsWhole
  <1> QED BY <1>1, <1>2, <1>3, <1>4 DEF Parsed, Outcomes

\* The game writes on: what was read stays read, and a file that was whole is written no further.
LEMMA WriteKeepsParsed == Parsed /\ Write => Parsed'
  <1> SUFFICES ASSUME Parsed, Write PROVE Parsed'
    OBVIOUS
  <1>1. written \in Nat /\ match \in Matches /\ Len(File(match)) \in Nat
    <2>1. File(match) \in Seq(Int) /\ written \in Nat /\ match \in Matches
      BY FileSizes
    <2> QED BY <2>1
  <1>2. /\ written < Len(File(match)) /\ written' = written + 1
        /\ match' = match /\ reader' = reader /\ synopsis' = synopsis
    BY DEF Write
  <1>3. written' \in 0 .. Len(File(match'))
    BY <1>1, <1>2
  <1>4. reader.at > 1 => SoundHeader' /\ \E k \in 0 .. Len(match.chunks) : Behind(k)'
    <2>1. SUFFICES ASSUME reader.at > 1
                   PROVE  SoundHeader' /\ \E k \in 0 .. Len(match.chunks) : Behind(k)'
      BY <1>2
    <2>2. SoundHeader /\ \E k \in 0 .. Len(match.chunks) : Behind(k)
      BY <2>1 DEF Parsed
    <2>3. SoundHeader'
      BY <1>2, <2>2 DEF SoundHeader
    <2>4. PICK k \in 0 .. Len(match.chunks) : Behind(k)
      BY <2>2
    <2>5. reader.at \in Nat
      BY DEF Parsed
    <2>6. Behind(k)'
      BY <1>1, <1>2, <2>4, <2>5 DEF Behind, BodyStart
    <2> QED BY <2>3, <2>6
  <1>5. SynopsisIsWhole'
    BY <1>1, <1>2 DEF Parsed, SynopsisIsWhole
  <1>7. reader.at \in Nat /\ (reader.at <= 1 => reader.time = 0)
    BY DEF Parsed
  <1> QED BY <1>2, <1>3, <1>4, <1>5, <1>7 DEF Parsed

\* A parse begins at the header, or the quick look finds torn data.
LEMMA OpenKeepsParsed == Parsed /\ Open => Parsed'
  <1> SUFFICES ASSUME Parsed, Open PROVE Parsed'
    OBVIOUS
  <1>1. match' = match /\ written' = written /\ synopsis' = synopsis
    BY DEF Open
  <1>2. reader' = [at |-> 1, time |-> 0, outcome |-> "none"] \/ reader' = [at |-> 0, time |-> 0, outcome |-> "torn"]
    BY DEF Open, Idle
  <1>3. SynopsisIsWhole'
    BY <1>1, <1>2 DEF SynopsisIsWhole
  <1>4. reader'.at \in {0, 1} /\ reader'.time = 0 /\ reader' \in [at : Nat, time : Nat, outcome : Outcomes]
    BY <1>2 DEF Outcomes
  <1> QED BY <1>1, <1>3, <1>4 DEF Parsed

\* The header is read, and accepted only as a whole.
LEMMA HeaderKeepsParsed == Parsed /\ ParseHeader => Parsed'
  <1> SUFFICES ASSUME Parsed, ParseHeader PROVE Parsed'
    OBVIOUS
  <1> DEFINE outcome == HeaderOutcome(match, written)
  <1>1. match' = match /\ written' = written /\ synopsis' = synopsis
    BY DEF ParseHeader
  <1>2. match \in Matches /\ written \in Nat /\ BodyStart \in Nat \ {0}
    BY FileSizes
  <1>3. reader \in [at : Nat, time : Nat, outcome : Outcomes] /\ reader.at = 1 /\ reader.outcome = "none"
    BY DEF Parsed, ParseHeader, Reading
  <1>4. reader' = IF outcome = "ok" THEN [reader EXCEPT !.at = BodyStart + 1]
                  ELSE [reader EXCEPT !.outcome = outcome]
    BY DEF ParseHeader
  <1>5. outcome \in Outcomes
    BY <1>2, HeaderOutcomes
  <1>6. CASE outcome = "ok"
    <2>1. written >= Len(Header(match)) /\ SoundHeader
      BY <1>2, <1>6, AcceptedHeader DEF SoundHeader
    <2> HIDE DEF outcome
    <2>2. /\ reader' \in [at : Nat, time : Nat, outcome : Outcomes]
          /\ reader'.at = BodyStart + 1 /\ reader'.time = reader.time /\ reader'.outcome = "none"
      BY <1>2, <1>3, <1>4, <1>6
    <2>3. SoundHeader'
      BY <1>1, <2>1 DEF SoundHeader
    <2>4. Behind(0)'
      <3>1. reader.time = 0
        BY <1>3 DEF Parsed
      <3>2. BodyStart' = BodyStart /\ BodyStart <= written
        BY <1>1, <2>1 DEF BodyStart
      <3> QED BY <1>1, <1>2, <2>2, <3>1, <3>2 DEF Behind, ChunkUnits
    <2>5. \E k \in 0 .. Len(match.chunks) : Behind(k)'
      BY <1>1, <2>4, FileSizes
    <2>6. SynopsisIsWhole'
      BY <2>2 DEF SynopsisIsWhole
    <2> QED BY <1>1, <1>2, <2>2, <2>3, <2>5, <2>6 DEF Parsed
  <1>7. CASE outcome # "ok"
    <2>1. reader' = [reader EXCEPT !.outcome = outcome]
      BY <1>4, <1>7
    <2> HIDE DEF outcome
    <2>3. /\ reader' \in [at : Nat, time : Nat, outcome : Outcomes]
          /\ reader'.at = 1 /\ reader'.time = reader.time /\ reader'.outcome = outcome
      BY <1>3, <1>5, <2>1
    <2>4. SynopsisIsWhole'
      BY <1>1, <1>7, <2>3 DEF SynopsisIsWhole
    <2> QED BY <1>1, <1>3, <2>3, <2>4 DEF Parsed
  <1> QED BY <1>6, <1>7

\* The fields of a chunk, in their order.
LEMMA ChunkFields ==
    ASSUME NEW c \in ChunkRecords
    PROVE  /\ Chunk(c)[1] = c.time /\ Chunk(c)[2] = c.type /\ Chunk(c)[3] = c.size
           /\ Chunk(c)[5] = 0 <=> c.sound
           /\ c.time \in Nat /\ c.time # EndTimeCode /\ c.type \in Int /\ c.size \in Int
  BY DEF Chunk, ChunkRecords

\* Behind the last chunk is the end marker, behind another one the next chunk, as far as it is on disk.
LEMMA WhatIsNext ==
    ASSUME Parsed, NEW k \in 0 .. Len(match.chunks), Behind(k), NEW left \in Seq(Int),
           left = SubSeq(OnDisk, reader.at, written)
    PROVE  /\ Len(left) = written + 1 - reader.at
           /\ left # <<>> => (left[1] = EndTimeCode <=> k = Len(match.chunks))
           /\ k < Len(match.chunks) =>
                 \A j \in 1 .. 5 : j <= Len(left) => left[j] = Chunk(match.chunks[k + 1])[j]
  <1> DEFINE n == Len(match.chunks)
             b == BodyStart
  <1>1. /\ match \in Matches /\ written \in Nat /\ b \in Nat \ {0} /\ n \in Nat
    BY FileSizes
  <1>2. reader.at = b + 1 + 5 * k /\ reader.at <= written + 1 /\ reader.at \in Nat \ {0}
    BY <1>1 DEF Behind, ChunkUnits
  <1>3. /\ Len(left) = written + 1 - reader.at
        /\ \A j \in 1 .. written + 1 - reader.at : left[j] = File(match)[reader.at + j - 1]
    BY ONLY <1>2, LeftOnDisk, Parsed, left = SubSeq(OnDisk, reader.at, written)
  <1>4. left # <<>> => 1 \in 1 .. written + 1 - reader.at
    <2>1. left # <<>> => Len(left) # 0
      OBVIOUS
    <2> QED BY <1>1, <1>2, <1>3, <2>1
  <1>5. ASSUME k = n, left # <<>> PROVE left[1] = EndTimeCode
    <2>1. File(match)[b + 5 * n + 1] = EndTimeCode
      BY <1>1, FileLayout DEF BodyStart, ChunkUnits
    <2>2. reader.at + 1 - 1 = b + 5 * n + 1
      <3> HIDE DEF n, b
      <3> QED BY ONLY <1>1, <1>2, <1>5
    <2>3. left[1] = File(match)[reader.at + 1 - 1]
      BY ONLY <1>3, <1>4, <1>5
    <2> QED BY <2>1, <2>2, <2>3
  <1>6. ASSUME k < n, NEW j \in 1 .. 5, j <= Len(left) PROVE left[j] = Chunk(match.chunks[k + 1])[j]
    <2>1. k + 1 \in 1 .. Len(match.chunks)
      BY <1>1, <1>6
    <2>2. File(match)[b + 5 * ((k + 1) - 1) + j] = Chunk(match.chunks[k + 1])[j]
      BY <1>1, <2>1, FileLayout DEF BodyStart, ChunkUnits
    <2>3. reader.at + j - 1 = b + 5 * ((k + 1) - 1) + j /\ j \in 1 .. written + 1 - reader.at
      <3> HIDE DEF n, b
      <3>1. Len(left) = written + 1 - reader.at
        BY <1>3
      <3> QED BY ONLY <1>1, <1>2, <1>6, <3>1
    <2>4. left[j] = File(match)[reader.at + j - 1]
      BY ONLY <1>3, <2>3
    <2> QED BY <2>2, <2>3, <2>4
  <1>7. ASSUME k < n, left # <<>> PROVE left[1] # EndTimeCode
    <2>1. left[1] = Chunk(match.chunks[k + 1])[1]
      BY <1>1, <1>2, <1>3, <1>4, <1>6, <1>7
    <2>2. match.chunks[k + 1] \in ChunkRecords
      BY <1>1, <1>7, MatchIsARecord
    <2> QED BY <2>1, <2>2, ChunkFields
  <1>8. k <= n /\ (k # n <=> k < n)
    BY <1>1
  <1> QED BY <1>3, <1>5, <1>6, <1>7, <1>8

\* What is left on disk is the front of the chunk behind the first k, or nothing.
IsNextChunk(left, k) ==
    /\ Behind(k) /\ Len(left) = written + 1 - reader.at
    /\ left # <<>> => k < Len(match.chunks) /\ Head(left) = left[1]
    /\ k < Len(match.chunks) =>
          LET chunk == match.chunks[k + 1] IN
             /\ chunk \in ChunkRecords /\ chunk.time \in Nat /\ chunk.type \in Int /\ chunk.size \in Int
             /\ Len(left) >= 1 => left[1] = chunk.time
             /\ Len(left) >= 2 => left[2] = chunk.type
             /\ Len(left) >= 3 => left[3] = chunk.size
             /\ Len(left) >= 5 => (left[5] = 0 <=> chunk.sound)

\* The body is read up to a place behind some chunks, and what is left from there, when there is
\* something and it is not the end marker, is the front of the next one.
LEMMA ChunkIsLeft ==
    ASSUME Parsed, ReadBodyChunk, NEW left, left = SubSeq(OnDisk, reader.at, written)
    PROVE  /\ SoundHeader /\ left \in Seq(Int)
           /\ \E k \in 0 .. Len(match.chunks) : IsNextChunk(left, k)
  <1> DEFINE n == Len(match.chunks)
  <1>2. match \in Matches /\ written \in Nat /\ BodyStart \in Nat \ {0} /\ n \in Nat
    BY FileSizes
  <1>3. reader \in [at : Nat, time : Nat, outcome : Outcomes] /\ reader.at > BodyStart /\ reader.at > 1
    BY <1>2 DEF Parsed, ReadBodyChunk
  <1>4. SoundHeader /\ \E k \in 0 .. n : Behind(k)
    BY <1>3 DEF Parsed
  <1>5. PICK k \in 0 .. n : Behind(k)
    BY <1>4
  <1>6. reader.at <= written + 1
    BY <1>5 DEF Behind
  <1>7. left \in Seq(Int)
    <2>1. reader.at \in Nat \ {0}
      BY <1>3
    <2> QED BY <1>6, <2>1, LeftOnDisk
  <1>8. left # <<>> => Head(left) # EndTimeCode
    BY DEF ReadBodyChunk
  <1>9. /\ Len(left) = written + 1 - reader.at
        /\ left # <<>> => (left[1] = EndTimeCode <=> k = n)
        /\ k < n => \A j \in 1 .. 5 : j <= Len(left) => left[j] = Chunk(match.chunks[k + 1])[j]
    BY ONLY Parsed, <1>5, <1>7, left = SubSeq(OnDisk, reader.at, written), WhatIsNext
  <1>10. left # <<>> => k < n /\ Head(left) = left[1]
    BY <1>2, <1>7, <1>8, <1>9
  <1> DEFINE chunk == match.chunks[k + 1]
  <1>11. ASSUME k < n
         PROVE  /\ chunk \in ChunkRecords /\ chunk.time \in Nat /\ chunk.type \in Int /\ chunk.size \in Int
                /\ Len(left) >= 1 => left[1] = chunk.time
                /\ Len(left) >= 2 => left[2] = chunk.type
                /\ Len(left) >= 3 => left[3] = chunk.size
                /\ Len(left) >= 5 => (left[5] = 0 <=> chunk.sound)
    <2>1. chunk \in ChunkRecords
      BY <1>2, <1>11, MatchIsARecord
    <2>2. \A j \in 1 .. 5 : j <= Len(left) => left[j] = Chunk(chunk)[j]
      BY <1>9, <1>11
    <2>3. Len(left) \in Nat
      BY <1>7
    <2> HIDE DEF chunk
    <2>4. /\ chunk.time \in Nat /\ chunk.type \in Int /\ chunk.size \in Int
          /\ Chunk(chunk)[1] = chunk.time /\ Chunk(chunk)[2] = chunk.type /\ Chunk(chunk)[3] = chunk.size
          /\ Chunk(chunk)[5] = 0 <=> chunk.sound
      BY <2>1, ChunkFields
    <2> QED BY ONLY <2>1, <2>2, <2>3, <2>4
  <1>12. IsNextChunk(left, k)
    BY <1>5, <1>9, <1>10, <1>11 DEF IsNextChunk
  <1> QED BY <1>4, <1>7, <1>12

\* A chunk of a sound file is accepted when all of it is there, which it is in a file that is whole.
LEMMA ChunkOfASoundFile ==
    ASSUME Parsed, ReadBodyChunk, WellFormed(match), NEW left, left = SubSeq(OnDisk, reader.at, written)
    PROVE  \/ ChunkOutcome(left, reader.at) = "ok"
           \/ ChunkOutcome(left, reader.at) = "torn" /\ written # Len(File(match))
  <1> DEFINE n == Len(match.chunks)
             f == Len(Footer(match.footer))
             b == BodyStart
  <1>1. /\ match \in Matches /\ written \in Nat /\ b \in Nat \ {0} /\ n \in Nat
        /\ Len(File(match)) = b + 5 * n + 1 + f
        /\ f \in Nat /\ f >= 4
    BY FileSizes DEF FooterMin
  <1>1a. PICK k \in 0 .. n : IsNextChunk(left, k)
    BY ChunkIsLeft
  <1>2. /\ Behind(k) /\ Len(left) = written + 1 - reader.at
        /\ left # <<>> => k < n /\ Head(left) = left[1]
        /\ k < n => LET chunk == match.chunks[k + 1] IN
                       /\ chunk \in ChunkRecords /\ chunk.time \in Nat
                       /\ chunk.type \in Int /\ chunk.size \in Int
                       /\ Len(left) >= 1 => left[1] = chunk.time
                       /\ Len(left) >= 2 => left[2] = chunk.type
                       /\ Len(left) >= 3 => left[3] = chunk.size
                       /\ Len(left) >= 5 => (left[5] = 0 <=> chunk.sound)
    BY <1>1a DEF IsNextChunk
  <1>3. left \in Seq(Int) /\ Len(left) \in Nat
    <2>1. left \in Seq(Int)
      BY ChunkIsLeft
    <2> QED BY ONLY <2>1
  <1>4. reader.at = b + 1 + 5 * k /\ reader.at \in Nat
    BY <1>2 DEF Behind, ChunkUnits, Parsed
  <1> DEFINE chunk == match.chunks[k + 1]
  <1>5. MaxChunk \in Nat /\ MaxBody \in Nat
    BY ParserAssumption
  <1>6. k < n => /\ chunk.type \in 1 .. 4 /\ chunk.size \in 0 .. MaxChunk /\ chunk.sound
                 /\ reader.at + 5 - 1 <= MaxBody
    <2>1. SUFFICES ASSUME k < n
                   PROVE  /\ chunk.type \in 1 .. 4 /\ chunk.size \in 0 .. MaxChunk /\ chunk.sound
                          /\ reader.at + 5 - 1 <= MaxBody
      OBVIOUS
    <2>2. k + 1 \in DOMAIN match.chunks
      <3>1. match.chunks \in Seq(ChunkRecords)
        BY <1>1, MatchIsARecord
      <3> QED BY <1>1, <2>1, <3>1
    <2>3. chunk.type \in 1 .. 4 /\ chunk.size \in 0 .. MaxChunk /\ chunk.sound /\ Len(File(match)) <= MaxBody
      BY <2>2 DEF WellFormed
    <2>4. reader.at + 5 - 1 <= Len(File(match))
      <3> HIDE DEF f, b, n
      <3> QED BY ONLY <1>1, <1>4, <2>1, k \in 0 .. n
    <2>5. Len(File(match)) \in Nat
      <3>1. File(match) \in Seq(Int)
        BY FileSizes
      <3> QED BY <3>1
    <2> QED BY <1>4, <1>5, <2>3, <2>4, <2>5
  <1> HIDE DEF chunk
  <1>7. k < n => /\ Len(left) >= 2 => left[2] = chunk.type
                 /\ Len(left) >= 3 => left[3] = chunk.size
                 /\ Len(left) >= 5 => (left[5] = 0 <=> chunk.sound)
    BY <1>2 DEF chunk
  <1>8. written = Len(File(match)) => left # <<>> /\ Len(left) >= 5
    <2>1. SUFFICES ASSUME written = Len(File(match)) PROVE left # <<>> /\ Len(left) >= 5
      OBVIOUS
    <2> HIDE DEF f, b, n
    <2>2. k \in Nat /\ k <= n /\ Len(left) = (b + 5 * n + 1 + f) + 1 - (b + 1 + 5 * k)
      BY <1>1, <1>2, <1>4, <2>1
    <2>3. Len(left) >= 5
      BY ONLY <1>1, <2>2
    <2>4. left # <<>>
      BY ONLY <1>3, <2>3
    <2> QED BY <2>3, <2>4
  <1>9. CASE left = <<>>
    BY <1>8, <1>9 DEF ChunkOutcome
  <1>10. CASE left # <<>>
    <2>1. k < n
      BY <1>2, <1>10
    <2>2. ~(Len(left) >= 2 /\ left[2] \notin 1 .. 4)
      BY <1>6, <1>7, <2>1
    <2>3. ~(Len(left) >= 3 /\ left[3] > MaxChunk) /\ ~(Len(left) >= 3 /\ left[3] < 0)
      BY ONLY <1>3, <1>5, <1>6, <1>7, <2>1
    <2>4. ~(Len(left) >= 5 /\ left[5] # 0)
      BY <1>6, <1>7, <2>1
    <2>5. ~(reader.at + 5 - 1 > MaxBody)
      BY <1>4, <1>5, <1>6, <2>1
    <2>6. Len(left) >= 5 => ChunkOutcome(left, reader.at) = "ok"
      BY <1>3, <1>10, <2>2, <2>3, <2>4, <2>5, SMTT(30) DEF ChunkOutcome, ChunkUnits
    <2>7. Len(left) < 5 => ChunkOutcome(left, reader.at) = "torn"
      BY <1>3, <1>10, <2>2, <2>3 DEF ChunkOutcome, ChunkUnits
    <2> QED BY <1>3, <1>8, <2>6, <2>7
  <1> QED BY <1>9, <1>10

\* A chunk is read only when all of it is there and sound.
LEMMA ChunkKeepsParsed == Parsed /\ ReadBodyChunk => Parsed'
  <1> SUFFICES ASSUME Parsed, ReadBodyChunk PROVE Parsed'
    OBVIOUS
  <1> DEFINE left == SubSeq(OnDisk, reader.at, written)
             n == Len(match.chunks)
             outcome == ChunkOutcome(left, reader.at)
  <1>1. match' = match /\ written' = written /\ synopsis' = synopsis /\ BodyStart' = BodyStart
    BY DEF ReadBodyChunk, BodyStart
  <1>2. match \in Matches /\ written \in Nat /\ BodyStart \in Nat \ {0} /\ n \in Nat
    BY FileSizes
  <1>3. /\ reader \in [at : Nat, time : Nat, outcome : Outcomes] /\ reader.outcome = "none"
        /\ reader.at > BodyStart /\ reader.at > 1
    BY <1>2 DEF Parsed, ReadBodyChunk, Reading
  <1>4. SoundHeader /\ left \in Seq(Int)
    BY ChunkIsLeft
  <1>4a. PICK k \in 0 .. n : IsNextChunk(left, k)
    BY ChunkIsLeft
  <1>5. /\ Behind(k) /\ Len(left) = written + 1 - reader.at
        /\ left # <<>> => k < n /\ Head(left) = left[1]
        /\ k < n => LET chunk == match.chunks[k + 1] IN
                       /\ chunk.time \in Nat /\ chunk.size \in Int
                       /\ Len(left) >= 1 => left[1] = chunk.time
                       /\ Len(left) >= 2 => left[2] = chunk.type
                       /\ Len(left) >= 3 => left[3] = chunk.size
                       /\ Len(left) >= 5 => (left[5] = 0 <=> chunk.sound)
    BY <1>4a DEF IsNextChunk
  <1>6. reader.at = BodyStart + 1 + 5 * k /\ reader.at <= written + 1
    BY <1>5 DEF Behind, ChunkUnits
  <1>7. /\ outcome = "ok" => reader' = [reader EXCEPT !.at = @ + 5, !.time = Head(left)]
        /\ outcome # "ok" => reader' = [reader EXCEPT !.outcome = outcome]
    BY DEF ReadBodyChunk, ChunkUnits, End
  <1> DEFINE chunk == match.chunks[k + 1]
  <1>8. /\ left # <<>> => k < n /\ Head(left) = left[1]
        /\ k < n => /\ chunk.time \in Nat /\ chunk.size \in Int
                    /\ Len(left) >= 1 => left[1] = chunk.time
                    /\ Len(left) >= 2 => left[2] = chunk.type
                    /\ Len(left) >= 3 => left[3] = chunk.size
                    /\ Len(left) >= 5 => (left[5] = 0 <=> chunk.sound)
    BY <1>5
  <1> HIDE DEF left, chunk
  <1>9. MaxChunk \in Nat /\ MaxBody \in Nat /\ Len(left) \in Nat /\ reader.at \in Nat
    BY <1>3, <1>4, ParserAssumption
  <1>10. CASE outcome # "ok"
    <2>1. outcome \in Outcomes
      BY DEF ChunkOutcome, Outcomes
    <2> HIDE DEF outcome
    <2>2. /\ reader' \in [at : Nat, time : Nat, outcome : Outcomes]
          /\ reader'.at = reader.at /\ reader'.time = reader.time /\ reader'.outcome = outcome
      BY <1>3, <1>7, <1>10, <2>1
    <2>3. SoundHeader' /\ Behind(k)'
      BY <1>1, <1>4, <1>5, <2>2 DEF SoundHeader, Behind
    <2>4. SynopsisIsWhole'
      BY <1>10, <2>2 DEF SynopsisIsWhole
    <2>5. match' \in Matches /\ written' \in 0 .. Len(File(match'))
      BY <1>1 DEF Parsed
    <2>6. \E i \in 0 .. Len(match.chunks)' : Behind(i)'
      BY <1>1, <2>3
    <2>7. ~(reader'.at <= 1)
      BY <1>3, <1>9, <2>2
    <2> QED BY ONLY <2>2, <2>3, <2>4, <2>5, <2>6, <2>7 DEF Parsed
  <1>11. CASE outcome = "ok"
    <2>1. left # <<>> /\ k < n
      <3>1. left # <<>>
        BY <1>11 DEF ChunkOutcome
      <3> QED BY <1>8, <3>1
    <2>2. /\ Len(left) >= 5 /\ left[2] \in 1 .. 4 /\ ~(left[3] > MaxChunk) /\ ~(left[3] < 0) /\ left[5] = 0
      BY <1>9, <1>11 DEF ChunkOutcome, ChunkUnits
    <2>3. chunk.type \in 1 .. 4 /\ chunk.size \in 0 .. MaxChunk /\ chunk.sound /\ Head(left) = chunk.time
            /\ chunk.time \in Nat
      <3>1. Len(left) \in Nat /\ Len(left) >= 5
        BY <1>9, <2>2
      <3>2. /\ left[1] = chunk.time /\ left[2] = chunk.type /\ left[3] = chunk.size /\ (left[5] = 0 <=> chunk.sound)
            /\ chunk.time \in Nat /\ chunk.size \in Int /\ Head(left) = left[1]
        BY ONLY <1>8, <2>1, <3>1
      <3>3. chunk.size \in 0 .. MaxChunk
        BY ONLY <1>9, <2>2, <3>2
      <3> QED BY ONLY <2>2, <3>2, <3>3
    <2>4. /\ reader' \in [at : Nat, time : Nat, outcome : Outcomes]
          /\ reader'.at = reader.at + 5 /\ reader'.time = chunk.time /\ reader'.outcome = "none"
      <3>1. reader' = [reader EXCEPT !.at = reader.at + 5, !.time = chunk.time]
        BY <1>7, <1>11, <2>3
      <3>2. reader.at + 5 \in Nat /\ chunk.time \in Nat
        BY <1>9, <2>3
      <3> QED BY ONLY <1>3, <3>1, <3>2
    <2>5. reader.at + 5 = BodyStart + 1 + 5 * (k + 1) /\ reader.at + 5 <= written + 1
      <3>1. Len(left) = written + 1 - reader.at
        BY <1>5 DEF left
      <3> QED BY <1>2, <1>6, <1>9, <2>2, <3>1
    <2>6. \A i \in 1 .. k + 1 : /\ match.chunks[i].type \in 1 .. 4 /\ match.chunks[i].size \in 0 .. MaxChunk
                                /\ match.chunks[i].sound
      <3>1. TAKE i \in 1 .. k + 1
      <3>2. CASE i = k + 1
        BY <2>3, <3>2 DEF chunk
      <3>3. CASE i # k + 1
        <4>1. i \in 1 .. k
          BY <3>3
        <4> QED BY <1>5, <4>1 DEF Behind
      <3> QED BY <3>2, <3>3
    <2>7. Behind(k + 1)'
      BY <1>1, <1>2, <2>4, <2>5, <2>6 DEF Behind, ChunkUnits, chunk
    <2>8. SoundHeader' /\ k + 1 \in 0 .. Len(match'.chunks)
      BY <1>1, <1>2, <1>4, <2>1 DEF SoundHeader
    <2>9. SynopsisIsWhole'
      BY <2>4 DEF SynopsisIsWhole
    <2>10. \E i \in 0 .. Len(match.chunks)' : Behind(i)'
      BY <1>1, <2>7, <2>8
    <2>11. match' \in Matches /\ written' \in 0 .. Len(File(match'))
      BY <1>1 DEF Parsed
    <2>12. ~(reader'.at <= 1)
      BY <1>3, <1>9, <2>4
    <2> QED BY ONLY <2>4, <2>8, <2>9, <2>10, <2>11, <2>12 DEF Parsed
  <1> QED BY <1>10, <1>11

\* The footer is read behind the last chunk, and what is left on disk is its front.
LEMMA FooterIsLeft ==
    ASSUME Parsed, Reading, reader.at > BodyStart, reader.at <= written, OnDisk[reader.at] = EndTimeCode,
           NEW rest, rest = SubSeq(OnDisk, reader.at + 1, written)
    PROVE  /\ Behind(Len(match.chunks)) /\ SoundHeader
           /\ rest \in Seq(Int) /\ Len(rest) = written - reader.at /\ Len(rest) <= Len(Footer(match.footer))
           /\ \A j \in 1 .. Len(rest) : rest[j] = Footer(match.footer)[j]
  <1> DEFINE n == Len(match.chunks)
             b == BodyStart
             footer == Footer(match.footer)
             file == File(match)
  <1>1. /\ match \in Matches /\ written \in Nat /\ b \in Nat \ {0} /\ n \in Nat /\ Len(footer) \in Nat
        /\ Len(file) = b + 5 * n + 1 + Len(footer) /\ written <= Len(file)
    BY FileSizes
  <1>2. reader.at \in Nat /\ ~(reader.at <= 1)
    BY <1>1 DEF Parsed
  <1>3. SoundHeader /\ \E k \in 0 .. n : Behind(k)
    BY <1>2 DEF Parsed
  <1>4. PICK k \in 0 .. n : Behind(k)
    BY <1>3
  <1>5. reader.at = b + 1 + 5 * k
    BY <1>4 DEF Behind, ChunkUnits
  <1>6. file[reader.at] = EndTimeCode
    <2>1. reader.at \in 1 .. written
      BY <1>1, <1>2
    <2> QED BY <2>1, FrontOnDisk
  <1>7. k = n
    <2>1. SUFFICES ASSUME k < n PROVE FALSE
      BY <1>1
    <2>2. k + 1 \in 1 .. Len(match.chunks) /\ 1 \in 1 .. 5
      BY <1>1, <2>1
    <2>3. file[b + 5 * ((k + 1) - 1) + 1] = Chunk(match.chunks[k + 1])[1]
      BY <1>1, <2>2, FileLayout DEF BodyStart, ChunkUnits
    <2>4. reader.at = b + 5 * ((k + 1) - 1) + 1
      BY <1>1, <1>5
    <2>5. match.chunks[k + 1] \in ChunkRecords
      BY <1>1, <2>2, MatchIsARecord
    <2> QED BY <1>6, <2>3, <2>4, <2>5, ChunkFields
  <1>8. /\ rest \in Seq(Int) /\ Len(rest) = written + 1 - (reader.at + 1)
        /\ \A j \in 1 .. written + 1 - (reader.at + 1) : rest[j] = file[(reader.at + 1) + j - 1]
    <2> DEFINE a == reader.at + 1
    <2>1. a \in Nat \ {0} /\ a <= written + 1
      BY <1>1, <1>2
    <2>2. rest = SubSeq(OnDisk, a, written)
      OBVIOUS
    <2> HIDE DEF a
    <2>3. /\ rest \in Seq(Int) /\ Len(rest) = written + 1 - a
          /\ \A j \in 1 .. written + 1 - a : rest[j] = file[a + j - 1]
      BY <2>1, <2>2, LeftOnDisk
    <2> QED BY <2>3 DEF a
  <1>9. Len(rest) = written - reader.at /\ Len(rest) <= Len(footer)
    <2> HIDE DEF n, b, footer, file
    <2>1. Len(rest) = written + 1 - (reader.at + 1)
      BY <1>8
    <2> QED BY ONLY <1>1, <1>2, <1>5, <1>7, <2>1
  <1>10. ASSUME NEW j \in 1 .. Len(rest)
         PROVE  rest[j] = footer[j]
    <2>1. j \in 1 .. Len(footer) /\ j \in 1 .. written + 1 - (reader.at + 1)
      BY <1>1, <1>8, <1>9
    <2>2. file[b + 5 * n + 1 + j] = footer[j]
      BY <1>1, <2>1, FileLayout DEF BodyStart, ChunkUnits
    <2>3. (reader.at + 1) + j - 1 = b + 5 * n + 1 + j
      <3> HIDE DEF n, b, footer, file
      <3> QED BY ONLY <1>1, <1>5, <1>7, j \in 1 .. Len(rest)
    <2> QED BY <1>8, <2>1, <2>2, <2>3
  <1> QED BY <1>3, <1>4, <1>7, <1>8, <1>9, <1>10

\* The checksum of a file that is there in whole is over all of the payload.
LEMMA PayloadOnDisk ==
    ASSUME Parsed, written = Len(File(match))
    PROVE  SubSeq(OnDisk, BodyStart + 1, written) = Payload(match)
  <1> DEFINE a == BodyStart + 1
             payload == Payload(match)
             part == SubSeq(OnDisk, a, written)
             file == File(match)
  <1>1. match \in Matches /\ written \in Nat /\ BodyStart \in Nat /\ BodyStart = Len(Header(match))
    BY FileSizes DEF BodyStart
  <1>2. /\ payload \in Seq(Int) /\ Len(payload) = 5 * Len(match.chunks) + 1 + Len(Footer(match.footer))
        /\ \A i \in 1 .. Len(payload) : file[Len(Header(match)) + i] = payload[i]
    BY <1>1, FileLayout DEF ChunkUnits
  <1>3. written = BodyStart + Len(payload) /\ Len(payload) \in Nat
    <2> HIDE DEF payload
    <2>5. payload \in Seq(Int)
      BY <1>2
    <2>1. Len(payload) \in Nat
      BY ONLY <2>5
    <2>2. /\ written = BodyStart + 5 * Len(match.chunks) + 1 + Len(Footer(match.footer))
          /\ Len(match.chunks) \in Nat /\ Len(Footer(match.footer)) \in Nat
      BY FileSizes
    <2>3. Len(payload) = 5 * Len(match.chunks) + 1 + Len(Footer(match.footer))
      BY <1>2
    <2>4. BodyStart \in Nat
      BY <1>1
    <2> DEFINE c == Len(match.chunks)
               f == Len(Footer(match.footer))
               p == Len(payload)
    <2>6. c \in Nat /\ f \in Nat /\ p \in Nat /\ p = 5 * c + 1 + f /\ written = BodyStart + 5 * c + 1 + f
      BY <2>1, <2>2, <2>3
    <2> HIDE DEF c, f, p
    <2>7. written = BodyStart + p
      BY ONLY <2>4, <2>6
    <2> QED BY <2>1, <2>7 DEF p
  <1>4. a \in Nat \ {0} /\ a <= written + 1 /\ written + 1 - a = Len(payload)
    <2> HIDE DEF payload
    <2> QED BY <1>1, <1>3
  <1> HIDE DEF payload, file
  <1>5. /\ part \in Seq(Int) /\ Len(part) = written + 1 - a
        /\ \A j \in 1 .. written + 1 - a : part[j] = file[a + j - 1]
    <2> HIDE DEF a
    <2> QED BY <1>4, LeftOnDisk DEF file
  <1> HIDE DEF part
  <1>6. ASSUME NEW i \in 1 .. Len(payload)
        PROVE  part[i] = payload[i]
    <2>1. a + i - 1 = BodyStart + i
      BY <1>1, <1>3
    <2> QED BY <1>1, <1>2, <1>4, <1>5, <2>1
  <1>7. part = payload
    BY <1>2, <1>4, <1>5, <1>6, SeqEqual
  <1> QED BY <1>7 DEF part, a, payload

\* Two players have the same team exactly when the lobby gave them one, and the same.
LEMMA TeamsAreThoseOfTheLobby ==
    ASSUME NEW m \in Matches, NEW i \in DOMAIN m.slots \cap DOMAIN m.players,
           NEW j \in DOMAIN m.slots \cap DOMAIN m.players, i # j
    PROVE  Teams(m)[i] = Teams(m)[j] <=> m.slots[i].team = m.slots[j].team /\ m.slots[i].team >= 0
  <1>1. m.slots \in Seq(SlotRecords) /\ m.players \in Seq(STRING)
    BY MatchIsARecord
  <1>2. i \in Nat \ {0} /\ j \in Nat \ {0}
    BY <1>1
  <1>3. m.slots[i] \in SlotRecords /\ m.slots[j] \in SlotRecords
    BY <1>1
  <1>4. /\ m.slots[i].team \in Int /\ m.slots[i].team < 8 /\ m.slots[j].team \in Int /\ m.slots[j].team < 8
    BY <1>3 DEF SlotRecords, MaxPlayers
  <1>5. Teams(m)[i] = Team(m.slots[i], i) /\ Teams(m)[j] = Team(m.slots[j], j)
    BY DEF Teams
  <1> QED BY <1>2, <1>4, <1>5 DEF Team, UnalliedTeamBase

\* The footer ends the parse, and what it accepts is a whole file.
LEMMA FooterKeepsParsed == Parsed /\ ReadFooter => Parsed'
  <1> SUFFICES ASSUME Parsed, ReadFooter PROVE Parsed'
    OBVIOUS
  <1> DEFINE rest == SubSeq(OnDisk, reader.at + 1, written)
             f == match.footer
             n == Len(match.chunks)
             outcome == IF written > MaxBody THEN "limit" ELSE FooterOutcome(rest, reader.time)
  <1>1. match' = match /\ written' = written /\ BodyStart' = BodyStart
    BY DEF ReadFooter, BodyStart
  <1>2. /\ Reading /\ reader.at > BodyStart /\ reader.at <= written /\ OnDisk[reader.at] = EndTimeCode
    BY DEF ReadFooter
  <1>3. /\ Behind(n) /\ SoundHeader /\ rest \in Seq(Int) /\ Len(rest) = written - reader.at
        /\ Len(rest) <= Len(Footer(f)) /\ \A j \in 1 .. Len(rest) : rest[j] = Footer(f)[j]
    <2> HIDE DEF rest
    <2>1. rest = SubSeq(OnDisk, reader.at + 1, written)
      BY DEF rest
    <2> QED BY <1>2, <2>1, FooterIsLeft
  <1>4. /\ reader' = [reader EXCEPT !.outcome = outcome]
        /\ outcome = "ok" => synopsis' = [payload |-> SubSeq(OnDisk, BodyStart + 1, written),
                                          teams |-> Teams(match), ticks |-> reader.time]
    BY DEF ReadFooter, End
  <1>5. outcome \in Outcomes
    BY DEF FooterOutcome, Outcomes
  <1>6. /\ match \in Matches /\ f \in FooterRecords /\ NotWholeBefore(f.data) /\ f.time \in Nat
    BY FileSizes, MatchIsARecord
  <1>7. /\ written \in Nat /\ BodyStart \in Nat \ {0} /\ n \in Nat /\ Len(Footer(f)) \in Nat
        /\ Len(File(match)) = BodyStart + 5 * n + 1 + Len(Footer(f)) /\ written <= Len(File(match))
    BY FileSizes
  <1>8. MaxBody \in Nat /\ reader \in [at : Nat, time : Nat, outcome : Outcomes]
    BY ParserAssumption DEF Parsed
  <1>9. reader.at = BodyStart + 1 + 5 * n /\ reader.time = IF n = 0 THEN 0 ELSE match.chunks[n].time
    BY <1>3 DEF Behind, ChunkUnits
  <1>10. reader.time = IF match.chunks = <<>> THEN 0 ELSE Last(match.chunks).time
    <2>1. match.chunks \in Seq(ChunkRecords)
      BY <1>6, MatchIsARecord
    <2>2. match.chunks = <<>> <=> n = 0
      BY <2>1
    <2>3. Last(match.chunks) = match.chunks[n]
      BY DEF Last
    <2> QED BY <1>9, <2>2, <2>3
  <1> HIDE DEF rest, f, n
  <1>11. ASSUME outcome = "ok"
         PROVE  /\ written = Len(File(match)) /\ WellFormed(match) /\ reader.time = f.time
    <2>1. FooterOutcome(rest, reader.time) = "ok" /\ ~(written > MaxBody)
      BY <1>11
    <2>2. Len(rest) = Len(Footer(f)) /\ f.length = Len(Footer(f)) /\ f.time = reader.time /\ DataIsRecognized(f.data)
      BY <1>3, <1>6, <2>1, AcceptedFooter
    <2>3. written = Len(File(match))
      <3> DEFINE left == Len(rest)
                 whole == Len(File(match))
                 end == Len(Footer(f))
                 base == BodyStart
      <3>1. left = written - reader.at /\ left = end
        BY <1>3, <2>2
      <3>2. /\ whole = base + 5 * n + 1 + end /\ written \in Nat
            /\ base \in Nat /\ n \in Nat /\ end \in Nat
        BY <1>7
      <3>3. reader.at = base + 1 + 5 * n
        BY <1>9
      <3> HIDE DEF left, whole, end, base
      <3>4. written = whole
        BY ONLY <3>1, <3>2, <3>3
      <3> QED BY <3>4 DEF whole
    <2>4. HeaderOutcome(match, Len(Header(match))) = "ok"
      <3>1. Len(Header(match)) \in Nat
        BY <1>6, HeaderIsASequence
      <3>2. HeaderOutcome(match, Len(Header(match))) =
               IF Len(Header(match)) < Len(Header(match)) THEN "torn" ELSE "ok"
        BY <1>3, <1>6, <3>1, FlawlessHeader DEF SoundHeader
      <3> QED BY <3>1, <3>2
    <2>5. \A i \in DOMAIN match.chunks : /\ match.chunks[i].type \in 1 .. 4 /\ match.chunks[i].size \in 0 .. MaxChunk
                                         /\ match.chunks[i].sound
      <3>1. DOMAIN match.chunks = 1 .. n
        BY <1>6, MatchIsARecord DEF n
      <3> QED BY <1>3, <3>1 DEF Behind
    <2>6. Len(File(match)) <= MaxBody
      BY <1>7, <1>8, <2>1, <2>3
    <2> QED BY <1>10, <2>2, <2>3, <2>4, <2>5, <2>6 DEF WellFormed, f
  <1> HIDE DEF outcome
  <1>13. /\ reader' \in [at : Nat, time : Nat, outcome : Outcomes]
         /\ reader'.at = reader.at /\ reader'.time = reader.time /\ reader'.outcome = outcome
    BY <1>4, <1>5, <1>8
  <1>14. SynopsisIsWhole'
    <2>1. SUFFICES ASSUME outcome = "ok"
                   PROVE  /\ WellFormed(match') /\ written' = Len(File(match'))
                          /\ synopsis'.payload = Payload(match')
                          /\ synopsis'.ticks = match'.footer.time
                          /\ \A i, j \in DOMAIN match'.slots \cap DOMAIN match'.players :
                                (i # j /\ synopsis'.teams[i] = synopsis'.teams[j])
                                    <=> (i # j /\ match'.slots[i].team = match'.slots[j].team
                                               /\ match'.slots[i].team >= 0)
      BY <1>13 DEF SynopsisIsWhole
    <2>2. written = Len(File(match)) /\ WellFormed(match) /\ reader.time = match.footer.time
      BY <1>11, <2>1 DEF f
    <2>3. synopsis' = [payload |-> SubSeq(OnDisk, BodyStart + 1, written), teams |-> Teams(match),
                       ticks |-> reader.time]
      BY <1>4, <2>1
    <2>4. synopsis'.payload = Payload(match)
      BY <2>2, <2>3, PayloadOnDisk
    <2>5. synopsis'.teams = Teams(match) /\ synopsis'.ticks = reader.time
      BY <2>3
    <2>6. \A i, j \in DOMAIN match.slots \cap DOMAIN match.players :
             (i # j /\ synopsis'.teams[i] = synopsis'.teams[j])
                 <=> (i # j /\ match.slots[i].team = match.slots[j].team /\ match.slots[i].team >= 0)
      BY <1>6, <2>5, TeamsAreThoseOfTheLobby
    <2> QED BY <1>1, <2>2, <2>4, <2>5, <2>6
  <1>16. SoundHeader' /\ Behind(n)'
    BY <1>1, <1>3, <1>13 DEF SoundHeader, Behind, n
  <1>17. match' \in Matches /\ written' \in 0 .. Len(File(match'))
    BY <1>1 DEF Parsed
  <1>18. \E i \in 0 .. Len(match.chunks)' : Behind(i)'
    BY <1>1, <1>7, <1>16 DEF n
  <1>19. ~(reader'.at <= 1)
    BY <1>2, <1>7, <1>8, <1>13
  <1> QED BY ONLY <1>13, <1>14, <1>16, <1>17, <1>18, <1>19 DEF Parsed

----------------------------------------------------------------------------
(* The theorems *)

\* What the parser holds, and has found, is right in every state.
THEOREM ParserIsRight == Spec => []Parsed
  <1>1. Init => Parsed
    BY ParsedInitially
  <1>2. Parsed /\ [Next]_vars => Parsed'
    <2> SUFFICES ASSUME Parsed, [Next]_vars PROVE Parsed'
      OBVIOUS
    <2>1. CASE ParserNext
      BY <2>1, WriteKeepsParsed, OpenKeepsParsed, HeaderKeepsParsed, ChunkKeepsParsed, FooterKeepsParsed DEF ParserNext
    <2>2. CASE UNCHANGED parserVars
      <3>1. match' = match /\ written' = written /\ reader' = reader /\ synopsis' = synopsis
        BY <2>2 DEF parserVars
      <3>2. SynopsisIsWhole'
        BY <3>1 DEF Parsed, SynopsisIsWhole
      <3>3. SoundHeader' = SoundHeader /\ \A k \in 0 .. Len(match.chunks) : Behind(k)' = Behind(k)
        BY <3>1 DEF SoundHeader, Behind, BodyStart
      <3> QED BY <3>1, <3>2, <3>3 DEF Parsed
    <2> QED BY <2>1, <2>2 DEF Next, Parse, Begin, AnalyzeChunk, Finish, vars
  <1> QED BY <1>1, <1>2, PTL DEF Spec

\* SynopsisParser: a file that is accepted was there in whole and is well-formed, the checksum covers the
\* payload to its last byte, and players are in one team when, and only when, the lobby put them there.
THEOREM SynopsesAreWhole == Spec => []SynopsisIsWhole
  <1>1. Parsed => SynopsisIsWhole
    BY DEF Parsed
  <1> QED BY <1>1, ParserIsRight, PTL

\* Of a sound file that is all on disk the quick look finds the footer, when that is within its window.
LEMMA QuickLookFindsTheFooter ==
    ASSUME Parsed, WellFormed(match), Len(Footer(match.footer)) <= Window, written = Len(File(match))
    PROVE  LooksComplete(OnDisk)
  <1> DEFINE f == match.footer
             size == Len(Footer(f))
             a == IF written > Window THEN written - Window + 1 ELSE 1
             tail == SubSeq(OnDisk, a, written)
  <1>1. /\ match \in Matches /\ f \in FooterRecords /\ f.length = Len(Footer(f))
    BY FileSizes, MatchIsARecord DEF WellFormed
  <1>2. /\ written \in Nat /\ size \in Nat /\ size >= 4 /\ size <= Window /\ Window \in Nat
        /\ BodyStart \in Nat /\ Len(match.chunks) \in Nat
        /\ written = BodyStart + 5 * Len(match.chunks) + 1 + size
    BY FileSizes, ParserAssumption DEF FooterMin
  <1>3. Len(OnDisk) = written
    BY FrontOnDisk
  <1>4. PICK front \in Nat : a \in Nat \ {0} /\ a <= written + 1 /\ written + 1 - a = front + size
    <2> HIDE DEF size, f
    <2>1. a \in Nat \ {0} /\ a <= written + 1
      BY <1>2
    <2>2. written + 1 - a - size \in Nat /\ written + 1 - a = (written + 1 - a - size) + size
      BY <1>2
    <2> HIDE DEF a
    <2> QED BY <2>1, <2>2
  <1> HIDE DEF a
  <1>5. /\ tail \in Seq(Int) /\ Len(tail) = written + 1 - a
        /\ \A j \in 1 .. written + 1 - a : tail[j] = File(match)[a + j - 1]
    BY <1>4, LeftOnDisk
  <1> HIDE DEF tail
  <1>6. ASSUME NEW i \in 1 .. size
        PROVE  tail[front + i] = Footer(f)[i]
    <2>1. File(match)[BodyStart + 5 * Len(match.chunks) + 1 + i] = Footer(f)[i]
      BY <1>1, FileLayout DEF BodyStart, ChunkUnits
    <2> HIDE DEF size, f
    <2>2. front + i \in 1 .. written + 1 - a /\ a + (front + i) - 1 = BodyStart + 5 * Len(match.chunks) + 1 + i
      <3> DEFINE base == BodyStart + 5 * Len(match.chunks) + 1
      <3>1. /\ base \in Nat /\ written \in Nat /\ written = base + size
        BY <1>2
      <3>2. size \in Nat
        BY <1>2
      <3> HIDE DEF base
      <3>3. front + i \in 1 .. written + 1 - a /\ a + (front + i) - 1 = base + i
        BY ONLY <1>4, <3>1, <3>2, i \in 1 .. size
      <3> QED BY <3>3 DEF base
    <2>3. tail[front + i] = File(match)[a + (front + i) - 1]
      BY <1>5, <2>2
    <2> QED BY <2>1, <2>2, <2>3
  <1>7. FooterAt(tail) = size
    <2>1. Len(tail) = front + size
      BY <1>4, <1>5
    <2> HIDE DEF f
    <2> QED BY <1>1, <1>5, <1>6, <2>1, FooterIsFound
  <1>8. SubSeq(OnDisk, IF Len(OnDisk) > Window THEN Len(OnDisk) - Window + 1 ELSE 1, Len(OnDisk)) = tail
    BY <1>3 DEF a, tail
  <1>9. Len(OnDisk) >= FooterMin
    <2> HIDE DEF size
    <2> QED BY <1>2, <1>3 DEF FooterMin
  <1> HIDE DEF size
  <1>10. size > 0
    BY <1>2
  <1>11. LooksComplete(OnDisk) <=>
            /\ Len(OnDisk) >= FooterMin
            /\ FooterAt(SubSeq(OnDisk, IF Len(OnDisk) > Window THEN Len(OnDisk) - Window + 1 ELSE 1, Len(OnDisk))) > 0
    BY DEF LooksComplete
  <1> QED BY <1>7, <1>8, <1>9, <1>10, <1>11

\* When the footer is longer than the window, what the quick look sees of the whole file ends in a
\* length that reaches beyond it.
LEMMA QuickLookMissesALongFooter ==
    ASSUME Parsed, WellFormed(match), Len(Footer(match.footer)) > Window, written = Len(File(match))
    PROVE  ~LooksComplete(OnDisk)
  <1> DEFINE f == match.footer
             size == Len(Footer(f))
             base == BodyStart + 5 * Len(match.chunks) + 1
             a == IF written > Window THEN written - Window + 1 ELSE 1
             tail == SubSeq(OnDisk, a, written)
  <1>1. /\ match \in Matches /\ f \in FooterRecords /\ f.length = size
    BY FileSizes, MatchIsARecord DEF WellFormed
  <1>2. /\ written \in Nat /\ size \in Nat /\ size >= 4 /\ size > Window /\ Window \in Nat
        /\ base \in Nat /\ written = base + size
    BY FileSizes, ParserAssumption, SMTT(30) DEF FooterMin
  <1>3. Len(OnDisk) = written
    BY FrontOnDisk
  <1>4. File(match)[written] = size
    <2>1. size \in 1 .. size
      BY <1>2
    <2>2. File(match)[base + size] = Footer(f)[size]
      BY <1>1, <2>1, FileLayout DEF BodyStart, ChunkUnits
    <2>3. Footer(f)[size] = f.length
      <3>1. Len(f.data) \in Nat /\ size = Len(f.data) + 3
        BY <1>1, FooterIsASequence DEF FooterRecords
      <3>2. Footer(f)[Len(f.data) + 3] = f.length
        BY <1>1, FooterIsASequence
      <3> QED BY <3>1, <3>2
    <2> QED BY <1>1, <1>2, <2>2, <2>3
  <1> HIDE DEF size, f, base
  <1>5. a \in Nat \ {0} /\ a <= written + 1 /\ written + 1 - a <= Window
    BY <1>2
  <1>6. SubSeq(OnDisk, IF Len(OnDisk) > Window THEN Len(OnDisk) - Window + 1 ELSE 1, Len(OnDisk)) = tail
    BY <1>3
  <1> HIDE DEF a
  <1>7. /\ tail \in Seq(Int) /\ Len(tail) = written + 1 - a
        /\ \A j \in 1 .. written + 1 - a : tail[j] = File(match)[a + j - 1]
    BY <1>5, LeftOnDisk
  <1> HIDE DEF tail
  <1>8. FooterAt(tail) = 0
    <2>1. CASE tail = <<>>
      BY <2>1 DEF FooterAt
    <2>2. CASE tail # <<>>
      <3>1. Len(tail) \in 1 .. written + 1 - a /\ Len(tail) <= Window /\ a + Len(tail) - 1 = written
        <4>1. Len(tail) \in Nat /\ Len(tail) # 0
          BY <1>7, <2>2
        <4> QED BY <1>2, <1>5, <1>7, <4>1
      <3>2. tail[Len(tail)] = size
        BY <1>4, <1>7, <3>1
      <3>3. Last(tail) \notin FooterMin .. Len(tail)
        BY <1>2, <3>1, <3>2 DEF Last
      <3> QED BY <2>2, <3>3 DEF FooterAt
    <2> QED BY <2>1, <2>2
  <1>9. ~(FooterAt(tail) > 0)
    BY ONLY <1>8
  <1>10. LooksComplete(OnDisk) =>
            FooterAt(SubSeq(OnDisk, IF Len(OnDisk) > Window THEN Len(OnDisk) - Window + 1 ELSE 1, Len(OnDisk))) > 0
    BY DEF LooksComplete
  <1> QED BY ONLY <1>6, <1>9, <1>10

\* What an attempt on a sound file does, but at the quick look.
GoesOn ==
    \/ reader'.outcome \in {"none", "ok"}
    \/ reader'.outcome = "torn" /\ written # Len(File(match))
    \/ reader'.outcome = "corrupt" /\ written # Len(File(match)) /\ EchoesFooter(match)

\* The header of a sound file is accepted once it is there.
LEMMA HeaderOfASoundFile == Parsed /\ WellFormed(match) /\ ParseHeader => GoesOn
  <1> SUFFICES ASSUME Parsed, WellFormed(match), ParseHeader PROVE GoesOn
    OBVIOUS
  <1>1. match \in Matches /\ written \in Nat
    BY FileSizes
  <1>2. Len(File(match)) >= BodyStart
    <2> DEFINE n == Len(match.chunks)
               f == Len(Footer(match.footer))
    <2>1. /\ BodyStart \in Nat /\ n \in Nat /\ f \in Nat
          /\ Len(File(match)) = BodyStart + 5 * n + 1 + f
      BY FileSizes
    <2> HIDE DEF n, f
    <2> QED BY <2>1
  <1>3. HeaderOutcome(match, Len(Header(match))) = "ok" /\ Len(Header(match)) \in Nat
    BY <1>1, HeaderIsASequence DEF WellFormed
  <1>4. match.offset = Len(AfterMark) /\ \A i \in DOMAIN Header(match) : Verdict(match, Header(match)[i]) = "ok"
    BY <1>1, <1>3, AcceptedHeader
  <1>5. HeaderOutcome(match, written) = IF written < Len(Header(match)) THEN "torn" ELSE "ok"
    BY <1>1, <1>4, FlawlessHeader
  <1>6. /\ reader.outcome = "none" /\ reader \in [at : Nat, time : Nat, outcome : Outcomes]
        /\ reader' = IF HeaderOutcome(match, written) = "ok" THEN [reader EXCEPT !.at = BodyStart + 1]
                     ELSE [reader EXCEPT !.outcome = HeaderOutcome(match, written)]
    BY DEF ParseHeader, Reading, Parsed
  <1>7. CASE written < Len(Header(match))
    <2>1. reader'.outcome = "torn"
      BY <1>5, <1>6, <1>7
    <2>2. written # Len(File(match))
      BY <1>1, <1>2, <1>3, <1>7 DEF BodyStart
    <2> QED BY <2>1, <2>2 DEF GoesOn
  <1>8. CASE ~(written < Len(Header(match)))
    BY <1>5, <1>6, <1>8 DEF GoesOn
  <1> QED BY <1>7, <1>8

\* So is each of its chunks.
LEMMA BodyOfASoundFile == Parsed /\ WellFormed(match) /\ ReadBodyChunk => GoesOn
  <1> SUFFICES ASSUME Parsed, WellFormed(match), ReadBodyChunk PROVE GoesOn
    OBVIOUS
  <1> DEFINE left == SubSeq(OnDisk, reader.at, written)
             outcome == ChunkOutcome(left, reader.at)
  <1>1. outcome = "ok" \/ (outcome = "torn" /\ written # Len(File(match)))
    BY ChunkOfASoundFile
  <1>2. /\ reader.outcome = "none" /\ reader \in [at : Nat, time : Nat, outcome : Outcomes]
        /\ \/ reader' = [reader EXCEPT !.at = @ + ChunkUnits, !.time = Head(left)] /\ outcome = "ok"
           \/ reader' = [reader EXCEPT !.outcome = outcome] /\ outcome # "ok"
    BY DEF ReadBodyChunk, Reading, Parsed, End
  <1> HIDE DEF outcome, left
  <1> QED BY <1>1, <1>2 DEF GoesOn

\* And so is its footer, once it is all there.
LEMMA EndOfASoundFile == Parsed /\ WellFormed(match) /\ ReadFooter => GoesOn
  <1> SUFFICES ASSUME Parsed, WellFormed(match), ReadFooter PROVE GoesOn
    OBVIOUS
  <1> DEFINE rest == SubSeq(OnDisk, reader.at + 1, written)
             f == match.footer
             n == Len(match.chunks)
             outcome == IF written > MaxBody THEN "limit" ELSE FooterOutcome(rest, reader.time)
  <1>1. /\ Behind(n) /\ rest \in Seq(Int) /\ Len(rest) = written - reader.at
        /\ Len(rest) <= Len(Footer(f)) /\ \A j \in 1 .. Len(rest) : rest[j] = Footer(f)[j]
    <2> HIDE DEF rest
    <2>1. rest = SubSeq(OnDisk, reader.at + 1, written)
      BY DEF rest
    <2>2. Reading /\ reader.at > BodyStart /\ reader.at <= written /\ OnDisk[reader.at] = EndTimeCode
      BY DEF ReadFooter
    <2> QED BY <2>1, <2>2, FooterIsLeft
  <1>2. /\ match \in Matches /\ written \in Nat /\ BodyStart \in Nat \ {0} /\ n \in Nat
        /\ Len(Footer(f)) \in Nat /\ written <= Len(File(match))
        /\ Len(File(match)) = BodyStart + 5 * n + 1 + Len(Footer(f))
    BY FileSizes
  <1>3. reader.at = BodyStart + 1 + 5 * n /\ reader.time = IF n = 0 THEN 0 ELSE match.chunks[n].time
    BY <1>1 DEF Behind, ChunkUnits
  <1>4. reader.time = f.time
    <2>1. match.chunks \in Seq(ChunkRecords)
      BY <1>2, MatchIsARecord
    <2>2. (match.chunks = <<>> <=> n = 0) /\ Last(match.chunks) = match.chunks[n]
      BY <2>1 DEF Last
    <2> QED BY <1>3, <2>2 DEF WellFormed
  <1>5. reader'.outcome = outcome
    <2>1. reader \in [at : Nat, time : Nat, outcome : Outcomes] /\ reader' = [reader EXCEPT !.outcome = outcome]
      BY DEF ReadFooter, End, Parsed
    <2> HIDE DEF outcome
    <2> QED BY <2>1
  <1>6. ~(written > MaxBody)
    <2> DEFINE whole == Len(File(match))
    <2>1. whole <= MaxBody /\ MaxBody \in Nat
      BY ParserAssumption DEF WellFormed
    <2>2. whole \in Nat
      <3>1. File(match) \in Seq(Int)
        BY FileSizes
      <3> QED BY <3>1
    <2>3. written \in Nat /\ written <= whole
      BY <1>2
    <2> HIDE DEF whole
    <2> QED BY ONLY <2>1, <2>2, <2>3
  <1>7. Len(rest) = Len(Footer(f)) <=> written = Len(File(match))
    <2> DEFINE left == Len(rest)
               whole == Len(File(match))
               end == Len(Footer(f))
               base == BodyStart
    <2>1. /\ left = written - reader.at /\ whole = base + 5 * n + 1 + end /\ reader.at = base + 1 + 5 * n
          /\ written \in Nat /\ base \in Nat /\ n \in Nat /\ end \in Nat
      BY <1>1, <1>2, <1>3
    <2> HIDE DEF left, whole, end, base, n
    <2>2. left = end <=> written = whole
      BY ONLY <2>1
    <2> QED BY <2>2 DEF left, whole, end
  <1>8. \/ FooterOutcome(rest, f.time) = "ok"
        \/ Len(rest) # Len(Footer(f)) /\ FooterOutcome(rest, f.time) = "torn"
        \/ Len(rest) # Len(Footer(f)) /\ FooterOutcome(rest, f.time) = "corrupt" /\ EchoesFooter(match)
    BY <1>1, <1>2, SoundFooter
  <1> HIDE DEF rest, f
  <1> QED BY <1>4, <1>5, <1>6, <1>7, <1>8 DEF GoesOn

\* SynopsisParser and its quick look: an attempt on a sound file that overtakes the game ends in torn data,
\* or gives it up where the cut footer echoes its own length. Once the file is whole no attempt fails but at
\* the quick look, and that one exactly when the footer is longer than its window.
THEOREM GrowingFilesAreTorn == Spec => GrowingFileIsTorn
  <1> DEFINE whole == written = Len(File(match))
             rightly ==
                /\ whole => (LooksComplete(OnDisk) <=> Len(Footer(match.footer)) <= Window)
                /\ \/ reader'.outcome \in {"none", "ok"}
                   \/ reader'.outcome = "torn" /\ (whole => ~Reading /\ ~LooksComplete(OnDisk))
                   \/ reader'.outcome = "corrupt" /\ ~whole /\ EchoesFooter(match)
  <1>1. Parsed /\ [Next]_vars => [WellFormed(match) => rightly]_reader
    <2> SUFFICES ASSUME Parsed, [Next]_vars, WellFormed(match), reader' # reader PROVE rightly
      OBVIOUS
    <2>1. whole => (LooksComplete(OnDisk) <=> Len(Footer(match.footer)) <= Window)
      <3>1. Len(Footer(match.footer)) \in Nat /\ Window \in Nat
        BY FileSizes, ParserAssumption
      <3>2. Len(Footer(match.footer)) <= Window \/ Len(Footer(match.footer)) > Window
        BY <3>1
      <3>3. ~(Len(Footer(match.footer)) <= Window /\ Len(Footer(match.footer)) > Window)
        BY <3>1
      <3> QED BY <3>2, <3>3, QuickLookFindsTheFooter, QuickLookMissesALongFooter
    <2>2. Open \/ ParseHeader \/ ReadBodyChunk \/ ReadFooter
      <3>1. Write => reader' = reader
        BY DEF Write
      <3>2. UNCHANGED parserVars => reader' = reader
        BY DEF parserVars
      <3> QED BY <3>1, <3>2 DEF Next, Parse, ParserNext, Begin, AnalyzeChunk, Finish, vars
    <2>3. CASE Open
      <3>1. ~Reading
        BY <2>3 DEF Open
      <3>2. reader'.outcome = "none" \/ (reader'.outcome = "torn" /\ ~LooksComplete(OnDisk))
        BY <2>3 DEF Open, Idle
      <3> QED BY <2>1, <3>1, <3>2
    <2>4. ASSUME GoesOn
          PROVE  rightly
      BY <2>1, <2>4 DEF GoesOn
    <2> QED BY <2>2, <2>3, <2>4, HeaderOfASoundFile, BodyOfASoundFile, EndOfASoundFile
  <1> QED BY <1>1, ParserIsRight, PTL DEF Spec, GrowingFileIsTorn

----------------------------------------------------------------------------
(* Framing: the scanners *)

\* The upper half of a byte, from which a command says how many words follow.
LEMMA Sixteenth ==
    ASSUME NEW x \in Byte
    PROVE  x \div 16 \in 0 .. 15
  BY DEF Byte

\* The hops of StandardScan: what becomes of each position.
Ends(e, buf, first) ==
    e = [pos \in first .. first + 65 * Len(buf) |->
            IF pos >= Len(buf) THEN None
            ELSE IF At(buf, pos) = Terminator THEN pos + 1
            ELSE e[pos + 4 * ((At(buf, pos) \div 16) + 1) + 1]]

\* StandardScan is where its hops end.
LEMMA StandardScanHops ==
    ASSUME NEW buf \in Seq(Byte), NEW first \in Nat \ {0}, Len(buf) >= 2
    PROVE  \E e \in [first .. first + 65 * Len(buf) -> {None} \cup 1 .. Len(buf)] :
              Ends(e, buf, first) /\ StandardScan(buf, first) = e[first]
  <1> DEFINE n == Len(buf)
             b == first + 65 * n
             D == first .. b
             V == {None} \cup 1 .. n
             hop(pos) == pos + 4 * ((At(buf, pos) \div 16) + 1) + 1
             Body(g) == [pos \in D |-> IF pos >= n THEN None
                                       ELSE IF At(buf, pos) = Terminator THEN pos + 1 ELSE g[hop(pos)]]
             Phi == [g \in [D -> V] |-> Body(g)]
  <1>1. n \in Nat /\ n >= 2
    OBVIOUS
  <1>2. ASSUME NEW pos \in D, pos < n
        PROVE  hop(pos) \in pos + 1 .. b /\ hop(pos) \in D /\ pos + 1 \in 1 .. n
    <2> DEFINE q == At(buf, pos) \div 16
    <2>1. pos + 1 \in 1 .. Len(buf)
      BY <1>1, <1>2
    <2>2. buf[pos + 1] \in Byte
      BY ONLY buf \in Seq(Byte), <2>1
    <2>3. At(buf, pos) \in Byte
      BY ONLY <2>2 DEF At
    <2>4. q \in 0 .. 15
      BY ONLY <2>3, Sixteenth
    <2> HIDE DEF n, q
    <2>5. n \in Nat /\ pos \in Int /\ first \in Nat \ {0} /\ pos >= first /\ pos <= first + 65 * n
      BY <1>1, <1>2
    <2>6. /\ pos + 4 * (q + 1) + 1 \in pos + 1 .. first + 65 * n
          /\ pos + 4 * (q + 1) + 1 \in first .. first + 65 * n
          /\ pos + 1 \in 1 .. n
      BY ONLY <2>4, <2>5, pos < n
    <2> QED BY ONLY <2>6 DEF q
  <1> HIDE DEF n, hop
  <1>3. b \in Nat /\ first <= b
    BY <1>1
  <1>4. ASSUME NEW g \in [D -> V]
        PROVE  Body(g) \in [D -> V]
    <2> SUFFICES ASSUME NEW pos \in D
                 PROVE  (IF pos >= n THEN None ELSE IF At(buf, pos) = Terminator THEN pos + 1 ELSE g[hop(pos)]) \in V
      OBVIOUS
    <2>1. CASE pos >= n
      BY <2>1
    <2>2. CASE ~(pos >= n)
      <3>1. pos < n
        BY <1>1, <1>3, <2>2
      <3>2. hop(pos) \in D /\ pos + 1 \in 1 .. n
        BY <1>2, <3>1
      <3> HIDE DEF D
      <3>3. g[hop(pos)] \in V /\ pos + 1 \in V
        BY <3>2
      <3> QED BY <3>3
    <2> QED BY <2>1, <2>2
  <1>5. Phi \in [[D -> V] -> [D -> V]]
    <2> HIDE DEF D, V, Body
    <2> QED BY <1>4
  <1>6. ASSUME NEW g \in [D -> V], NEW h \in [D -> V], NEW x \in D, \A y \in x + 1 .. b : g[y] = h[y]
        PROVE  Phi[g][x] = Phi[h][x]
    <2>1. Phi[g] = Body(g) /\ Phi[h] = Body(h)
      BY <1>6
    <2> HIDE DEF Phi
    <2>2. x < n => g[hop(x)] = h[hop(x)]
      BY <1>2, <1>6
    <2>3. x >= n \/ x < n
      BY <1>1, <1>3
    <2> QED BY <2>1, <2>2, <2>3
  <1>7. \E f \in [D -> V] : f = Phi[f]
    <2>1. V # {} /\ first \in Int /\ b \in Int
      BY <1>3
    <2>2. LooksAbove(Phi, first, b, V)
      <3> HIDE DEF Phi, V, b
      <3> QED BY <1>5, <1>6 DEF LooksAbove
    <2> HIDE DEF Phi, V, b
    <2>3. \E f : IsFixpoint(f, Phi, first, b, V)
      BY ONLY <1>3, <2>1, <2>2, DownwardRecursion
    <2> QED BY <2>3 DEF IsFixpoint
  <1>8. PICK f \in [D -> V] : f = Body(f)
    <2> HIDE DEF Body, D, V
    <2> QED BY <1>7
  <1> DEFINE end[pos \in first .. first + 65 * Len(buf)] ==
            IF pos >= Len(buf) THEN None
            ELSE IF At(buf, pos) = Terminator THEN pos + 1
            ELSE end[pos + 4 * ((At(buf, pos) \div 16) + 1) + 1]
  <1>9. StandardScan(buf, first) = end[first]
    <2>1. ~(Len(buf) < 2)
      BY <1>1 DEF n
    <2> QED BY <2>1, Zenon DEF StandardScan
  <1>10. Ends(f, buf, first)
    BY <1>8, Zenon DEF n, hop, Ends
  <1>11. Ends(end, buf, first)
    <2>1. end = CHOOSE e : Ends(e, buf, first)
      BY Zenon DEF end, Ends
    <2> HIDE DEF end
    <2> QED BY <1>10, <2>1
  <1> HIDE DEF end
  <1>12. end = Body(end)
    BY <1>11, Zenon DEF n, hop, Ends
  <1>13. end \in [D -> V]
    <2> DEFINE T == {pos \in first .. b : end[pos] \in V}
    <2>1. ASSUME NEW pos \in first .. b, \A y \in pos + 1 .. b : y \in T
          PROVE  pos \in T
      <3> DEFINE v == IF pos >= n THEN None ELSE IF At(buf, pos) = Terminator THEN pos + 1 ELSE end[hop(pos)]
      <3>1. end[pos] = v
        BY <1>12
      <3>2. pos < n => end[hop(pos)] \in V /\ pos + 1 \in V
        BY <1>2, <2>1
      <3>3. pos < n \/ pos >= n
        BY <1>1, <1>3
      <3>4. v \in V
        BY <3>2, <3>3
      <3> QED BY <3>1, <3>4
    <2> HIDE DEF T
    <2>2. T = first .. b
      <3>1. T \in SUBSET (first .. b) /\ first \in Int /\ b \in Int
        BY <1>3 DEF T
      <3> HIDE DEF b
      <3> QED BY ONLY <2>1, <3>1, DownwardInduction
    <2>3. \A pos \in D : end[pos] \in V
      BY <2>2 DEF T
    <2> HIDE DEF V, D
    <2>4. end = [pos \in D |-> end[pos]]
      BY <1>12
    <2> QED BY ONLY <2>3, <2>4
  <1> QED BY <1>9, <1>11, <1>13 DEF n

\* A scanner that finds the end of a command finds one in the buffer.
LEMMA StandardScanIsWithin ==
    ASSUME NEW buf \in Seq(Byte), NEW first \in Nat \ {0}
    PROVE  StandardScan(buf, first) \in {None} \cup 1 .. Len(buf)
  <1>1. CASE Len(buf) < 2
    <2>1. StandardScan(buf, first) = None
      BY ONLY <1>1 DEF StandardScan
    <2> QED BY <2>1
  <1>2. CASE Len(buf) >= 2
    <2>1. PICK e \in [first .. first + 65 * Len(buf) -> {None} \cup 1 .. Len(buf)] :
                 StandardScan(buf, first) = e[first]
      BY ONLY <1>2, buf \in Seq(Byte), first \in Nat \ {0}, StandardScanHops
    <2>2. Len(buf) \in Nat
      OBVIOUS
    <2>3. first \in first .. first + 65 * Len(buf)
      BY ONLY <2>2, first \in Nat \ {0}
    <2> QED BY ONLY <2>1, <2>3
  <1>3. Len(buf) \in Nat
    OBVIOUS
  <1> QED BY ONLY <1>1, <1>2, <1>3

\* A byte of a chunk is a number.
LEMMA ByteAt ==
    ASSUME NEW buf \in Seq(Byte), NEW i \in Nat, i < Len(buf)
    PROVE  At(buf, i) \in Nat
  <1>1. i + 1 \in 1 .. Len(buf)
    OBVIOUS
  <1>2. buf[i + 1] \in Byte
    BY ONLY <1>1, buf \in Seq(Byte)
  <1> QED BY ONLY <1>2 DEF At, Byte

\* No scanner of the table looks before the byte behind the id.
LEMMA TableEntries ==
    /\ \A id \in DOMAIN StandardAt : StandardAt[id] \in Nat \ {0}
    /\ \A id \in DOMAIN FixedLength : FixedLength[id] \in Nat \ {0}
    /\ \A id \in DOMAIN ArrayLayout :
          /\ ArrayLayout[id].count \in Nat /\ ArrayLayout[id].record \in Nat
          /\ ArrayLayout[id].extra \in Nat \ {0} /\ ArrayLayout[id].bias \in Nat
  <1>1. \A id \in DOMAIN StandardAt : StandardAt[id] \in Nat \ {0}
    BY DEF StandardAt, StandardAt2
  <1>2. \A id \in DOMAIN FixedLength : FixedLength[id] \in Nat \ {0}
    BY DEF FixedLength, FixedIds
  <1>3. \A id \in DOMAIN ArrayLayout :
          /\ ArrayLayout[id].count \in Nat /\ ArrayLayout[id].record \in Nat
          /\ ArrayLayout[id].extra \in Nat \ {0} /\ ArrayLayout[id].bias \in Nat
    BY DEF ArrayLayout
  <1> QED BY <1>1, <1>2, <1>3

\* What scanCommand returns is the length of a command that is not empty and ends in the buffer.
LEMMA ScanIsWithin ==
    ASSUME NEW buf \in Seq(Byte), Len(buf) >= 1
    PROVE  ScanCommand(buf) \in {None} \cup 1 .. Len(buf)
  <1> DEFINE n == Len(buf)
             id == At(buf, 0)
             V == {None} \cup 1 .. n
  <1>1. n \in Nat /\ n >= 1
    OBVIOUS
  <1>2. ASSUME NEW i \in Nat, i < n PROVE At(buf, i) \in Nat
    BY <1>2, ByteAt
  <1>3. ASSUME NEW len \in Nat \ {0} PROVE Within(buf, len) \in V
    BY <1>1, <1>3 DEF Within
  <1> HIDE DEF n, V
  <1>4. id \in DOMAIN StandardAt => StandardScan(buf, StandardAt[id]) \in V
    <2> SUFFICES ASSUME id \in DOMAIN StandardAt PROVE StandardScan(buf, StandardAt[id]) \in V
      OBVIOUS
    <2>1. StandardAt[id] \in Nat \ {0}
      BY TableEntries
    <2> QED BY <2>1, StandardScanIsWithin DEF V, n
  <1>5. id \in DOMAIN FixedLength => FixedScan(buf, FixedLength[id]) \in V
    BY <1>3, TableEntries DEF FixedScan
  <1>6. id \in DOMAIN ArrayLayout => ArrayScan(buf, ArrayLayout[id]) \in V
    <2> SUFFICES ASSUME id \in DOMAIN ArrayLayout PROVE ArrayScan(buf, ArrayLayout[id]) \in V
      OBVIOUS
    <2> DEFINE l == ArrayLayout[id]
    <2>1. l.count \in Nat /\ l.record \in Nat /\ l.extra \in Nat \ {0} /\ l.bias \in Nat
      BY TableEntries
    <2> HIDE DEF l, id
    <2>2. CASE n <= l.count
      BY <2>2 DEF ArrayScan, V, n, l
    <2>3. CASE ~(n <= l.count)
      <3>1. At(buf, l.count) \in Nat
        <4>1. l.count \in Nat /\ l.count < n
          BY <1>1, <2>1, <2>3
        <4> QED BY ONLY <1>2, <4>1
      <3>2. (At(buf, l.count) + l.bias) * l.record + l.extra \in Nat \ {0}
        <4> DEFINE records == At(buf, l.count) + l.bias
        <4>1. records \in Nat
          BY ONLY <2>1, <3>1
        <4> HIDE DEF records
        <4>2. records * l.record \in Nat
          BY <2>1, <4>1
        <4>3. records * l.record + l.extra \in Nat \ {0}
          BY <2>1, <4>2
        <4> QED BY <4>3 DEF records
      <3>3. ArrayScan(buf, l) = Within(buf, (At(buf, l.count) + l.bias) * l.record + l.extra)
        BY <2>3, Zenon DEF ArrayScan, n
      <3>4. ArrayScan(buf, l) \in V
        BY <1>3, <3>2, <3>3
      <3> QED BY <3>4 DEF l
    <2> QED BY <2>2, <2>3
  <1>7. Scan0x2D(buf) \in V
    <2>1. CASE n < 8
      BY <2>1 DEF Scan0x2D, V, n
    <2>2. CASE ~(n < 8)
      BY <1>3, <2>2 DEF Scan0x2D, n
    <2> QED BY <2>1, <2>2
  <1>8. Scan0x8B(buf) \in V
    <2> DEFINE second == At(buf, 3) + 5
    <2>1. CASE n < 4
      BY <2>1 DEF Scan0x8B, V, n
    <2>2. CASE ~(n < 4)
      <3>1. second \in Nat
        <4>1. 3 \in Nat /\ 3 < n
          BY <1>1, <2>2
        <4>2. At(buf, 3) \in Nat
          BY ONLY <1>2, <4>1
        <4> QED BY ONLY <4>2
      <3>2. Scan0x8B(buf) = IF n <= second THEN None ELSE Within(buf, second + 2 * At(buf, second) + 2 + 5)
        BY <2>2, Zenon DEF Scan0x8B, n
      <3> HIDE DEF second
      <3>3. CASE n <= second
        BY <3>2, <3>3 DEF V
      <3>4. CASE ~(n <= second)
        <4>1. At(buf, second) \in Nat
          BY <1>1, <1>2, <3>1, <3>4
        <4>2. second + 2 * At(buf, second) + 2 + 5 \in Nat \ {0}
          BY ONLY <3>1, <4>1
        <4> QED BY <1>3, <3>2, <3>4, <4>2
      <3> QED BY <3>3, <3>4
    <2> QED BY <2>1, <2>2
  <1>9. None \in V
    BY DEF V
  <1> HIDE DEF id
  <1>10. ScanCommand(buf) \in V
    BY <1>4, <1>5, <1>6, <1>7, <1>8, <1>9 DEF ScanCommand, id
  <1> QED BY <1>10 DEF V, n

\* What is left of a sequence from a place on.
LEMMA Rest ==
    ASSUME NEW S, NEW s \in Seq(S), NEW i \in 0 .. Len(s)
    PROVE  /\ From(s, i) \in Seq(S) /\ Len(From(s, i)) = Len(s) - i
           /\ \A j \in 1 .. Len(s) - i : From(s, i)[j] = s[i + j]
  <1> DEFINE n == Len(s)
             u == SubSeq(s, i + 1, n)
  <1>1. n \in Nat /\ \A j \in i + 1 .. n : s[j] \in S
    OBVIOUS
  <1>2. i + 1 \in Int /\ n \in Int /\ (i + 1 <= n => n - (i + 1) + 1 = n - i) /\ (~(i + 1 <= n) => n - i = 0)
    BY <1>1
  <1>3. /\ u \in Seq(S) /\ Len(u) = IF i + 1 <= n THEN n - (i + 1) + 1 ELSE 0
        /\ \A j \in 1 .. n - (i + 1) + 1 : u[j] = s[(i + 1) + j - 1]
    BY ONLY <1>1, <1>2, SubSeqProperties
  <1> HIDE DEF n, u
  <1>4. ASSUME NEW j \in 1 .. n - i PROVE u[j] = s[i + j]
    <2>1. j \in 1 .. n - (i + 1) + 1 /\ (i + 1) + j - 1 = i + j
      BY <1>1
    <2> QED BY <1>3, <2>1
  <1>5. From(s, i) = u
    BY DEF From, u, n
  <1>6. Len(u) = n - i
    BY <1>2, <1>3
  <1> QED BY <1>3, <1>4, <1>5, <1>6 DEF n

\* The front of what is left is a part of the whole.
LEMMA FrontOfRest ==
    ASSUME NEW S, NEW s \in Seq(S), NEW p \in 0 .. Len(s), NEW l \in Nat, p + l <= Len(s)
    PROVE  SubSeq(From(s, p), 1, l) = SubSeq(s, p + 1, p + l)
  <1> DEFINE rest == From(s, p)
             u == SubSeq(rest, 1, l)
             v == SubSeq(s, p + 1, p + l)
  <1>1. /\ rest \in Seq(S) /\ Len(rest) = Len(s) - p
        /\ \A j \in 1 .. Len(s) - p : rest[j] = s[p + j]
    BY ONLY s \in Seq(S), p \in 0 .. Len(s), Rest
  <1>2. Len(s) \in Nat /\ \A j \in 1 .. Len(s) : s[j] \in S
    OBVIOUS
  <1> HIDE DEF rest
  <1>3. /\ l \in Nat /\ \A j \in 1 .. l : rest[j] \in S
    BY <1>1, <1>2
  <1>4. 1 \in Int /\ l \in Int /\ l - 1 + 1 = l /\ (1 <= l \/ l = 0)
    OBVIOUS
  <1>5. u \in Seq(S) /\ Len(u) = (IF 1 <= l THEN l - 1 + 1 ELSE 0) /\ \A j \in 1 .. l - 1 + 1 : u[j] = rest[1 + j - 1]
    BY ONLY <1>3, <1>4, SubSeqProperties
  <1>6. p + 1 \in Int /\ p + l \in Int /\ \A j \in p + 1 .. p + l : s[j] \in S
    BY <1>2
  <1>7. /\ v \in Seq(S) /\ Len(v) = (IF p + 1 <= p + l THEN (p + l) - (p + 1) + 1 ELSE 0)
        /\ \A j \in 1 .. (p + l) - (p + 1) + 1 : v[j] = s[(p + 1) + j - 1]
    BY ONLY <1>6, SubSeqProperties
  <1> HIDE DEF u, v
  <1>8. Len(u) = l /\ Len(v) = l
    BY <1>4, <1>5, <1>7
  <1>9. ASSUME NEW j \in 1 .. l PROVE u[j] = v[j]
    <2>1. /\ j \in 1 .. l - 1 + 1 /\ 1 + j - 1 = j /\ j \in 1 .. Len(s) - p
          /\ j \in 1 .. (p + l) - (p + 1) + 1 /\ (p + 1) + j - 1 = p + j
      BY <1>2
    <2> QED BY <1>1, <1>5, <1>7, <2>1
  <1>10. u = v
    BY ONLY <1>5, <1>7, <1>8, <1>9, SeqEqual
  <1> QED BY <1>10 DEF u, v, rest

\* The loop of CommandFrameAnalyzer: what is framed from each position on.
Ended(desync) == [commands |-> <<>>, desync |-> desync]
Framed(buf, pos, len, rest) == [rest EXCEPT !.commands = <<SubSeq(buf, pos + 1, pos + len)>> \o @]
Frames(e, buf) ==
    e = [pos \in SubheaderSize .. Len(buf) |->
            IF pos = Len(buf) THEN Ended(FALSE)
            ELSE IF ScanCommand(From(buf, pos)) = None THEN Ended(TRUE)
            ELSE Framed(buf, pos, ScanCommand(From(buf, pos)), e[pos + ScanCommand(From(buf, pos))])]

\* CommandFrameAnalyzer finds what its loop finds from the subheader on.
LEMMA FramesAreFound ==
    ASSUME NEW buf \in Seq(Byte), Len(buf) >= SubheaderSize
    PROVE  \E e : Frames(e, buf) /\ FramesFrom(buf) = e[SubheaderSize]
  <1> DEFINE b == Len(buf)
             D == SubheaderSize .. b
             V == [commands : Seq(Seq(Byte)), desync : BOOLEAN]
             scan(pos) == ScanCommand(From(buf, pos))
             Body(g) == [pos \in D |-> IF pos = b THEN Ended(FALSE)
                                       ELSE IF scan(pos) = None THEN Ended(TRUE)
                                       ELSE Framed(buf, pos, scan(pos), g[pos + scan(pos)])]
             Phi == [g \in [D -> V] |-> Body(g)]
  <1>1. b \in Nat /\ SubheaderSize \in Nat /\ SubheaderSize <= b
    BY DEF SubheaderSize
  <1>2. ASSUME NEW pos \in D, pos # b, scan(pos) # None
        PROVE  /\ scan(pos) \in Nat \ {0} /\ pos + scan(pos) \in pos + 1 .. b /\ pos + scan(pos) \in D
               /\ SubSeq(buf, pos + 1, pos + scan(pos)) \in Seq(Byte)
    <2> DEFINE len == scan(pos)
               rest == From(buf, pos)
    <2>1. pos \in 0 .. Len(buf) /\ pos \in Nat /\ pos < b
      BY <1>1, <1>2
    <2>2. rest \in Seq(Byte) /\ Len(rest) = Len(buf) - pos
      BY ONLY <2>1, buf \in Seq(Byte), Rest
    <2>3. Len(rest) >= 1
      BY <1>1, <2>1, <2>2
    <2> HIDE DEF rest
    <2>4. ScanCommand(rest) \in {None} \cup 1 .. Len(rest)
      BY ONLY <2>2, <2>3, ScanIsWithin
    <2>5. len = ScanCommand(rest)
      BY DEF rest
    <2> HIDE DEF len
    <2>6. len # None
      BY <1>2 DEF len
    <2>7. len \in 1 .. b - pos
      BY <2>2, <2>4, <2>5, <2>6
    <2> HIDE DEF b
    <2>8. len \in Nat \ {0} /\ pos + len \in pos + 1 .. b /\ pos + len \in D
      BY <1>1, <2>1, <2>7
    <2>9. \A j \in pos + 1 .. pos + len : buf[j] \in Byte
      BY <1>1, <2>1, <2>8 DEF b
    <2>10. pos + 1 \in Int /\ pos + len \in Int
      BY <2>1, <2>8
    <2>11. SubSeq(buf, pos + 1, pos + len) \in Seq(Byte)
      BY ONLY <2>9, <2>10, SubSeqProperties
    <2> QED BY <2>8, <2>11 DEF len
  <1> HIDE DEF b, scan
  <1>3. Ended(FALSE) \in V /\ Ended(TRUE) \in V
    BY DEF Ended
  <1>4. ASSUME NEW pos \in D, pos # b, scan(pos) # None, NEW v \in V
        PROVE  Framed(buf, pos, scan(pos), v) \in V
    <2> DEFINE c == SubSeq(buf, pos + 1, pos + scan(pos))
    <2>1. c \in Seq(Byte)
      BY <1>2, <1>4
    <2> HIDE DEF c
    <2>2. <<c>> \in Seq(Seq(Byte)) /\ v.commands \in Seq(Seq(Byte)) /\ v.desync \in BOOLEAN
      BY <2>1
    <2>3. <<c>> \o v.commands \in Seq(Seq(Byte))
      BY ONLY <2>2, ConcatProperties
    <2> DEFINE joined == <<c>> \o v.commands
    <2>4. Framed(buf, pos, scan(pos), v) = [v EXCEPT !.commands = joined]
      BY DEF Framed, c
    <2> HIDE DEF joined
    <2>5. joined \in Seq(Seq(Byte))
      BY <2>3 DEF joined
    <2> QED BY <2>4, <2>5
  <1> HIDE DEF V
  <1>5. ASSUME NEW g \in [D -> V]
        PROVE  Body(g) \in [D -> V]
    <2> SUFFICES ASSUME NEW pos \in D
                 PROVE  (IF pos = b THEN Ended(FALSE) ELSE IF scan(pos) = None THEN Ended(TRUE)
                         ELSE Framed(buf, pos, scan(pos), g[pos + scan(pos)])) \in V
      OBVIOUS
    <2> HIDE DEF D
    <2>1. pos # b /\ scan(pos) # None => Framed(buf, pos, scan(pos), g[pos + scan(pos)]) \in V
      BY <1>2, <1>4
    <2> QED BY <1>3, <2>1
  <1>6. Phi \in [[D -> V] -> [D -> V]]
    <2> HIDE DEF D, V, Body
    <2> QED BY <1>5
  <1>7. ASSUME NEW g \in [D -> V], NEW h \in [D -> V], NEW x \in D, \A y \in x + 1 .. b : g[y] = h[y]
        PROVE  Phi[g][x] = Phi[h][x]
    <2>1. Phi[g] = Body(g) /\ Phi[h] = Body(h)
      BY <1>7
    <2> HIDE DEF Phi
    <2>2. x # b /\ scan(x) # None => g[x + scan(x)] = h[x + scan(x)]
      BY <1>2, <1>7
    <2> HIDE DEF D
    <2> DEFINE of(k) == IF x = b THEN Ended(FALSE) ELSE IF scan(x) = None THEN Ended(TRUE)
                        ELSE Framed(buf, x, scan(x), k[x + scan(x)])
    <2>3. Phi[g][x] = of(g) /\ Phi[h][x] = of(h)
      BY ONLY <2>1, x \in D
    <2>4. of(g) = of(h)
      BY ONLY <2>2
    <2> QED BY ONLY <2>3, <2>4
  <1>8. \E f \in [D -> V] : f = Phi[f]
    <2>1. V # {} /\ SubheaderSize \in Int /\ b \in Int /\ SubheaderSize <= b
      <3>1. V # {}
        BY ONLY <1>3
      <3>2. SubheaderSize \in Int /\ b \in Int
        BY ONLY <1>1
      <3> QED BY ONLY <1>1, <3>1, <3>2
    <2>2. LooksAbove(Phi, SubheaderSize, b, V)
      <3> HIDE DEF Phi
      <3> QED BY <1>6, <1>7 DEF LooksAbove
    <2> HIDE DEF Phi
    <2>3. \E f : IsFixpoint(f, Phi, SubheaderSize, b, V)
      BY ONLY <2>1, <2>2, DownwardRecursion
    <2> QED BY <2>3 DEF IsFixpoint
  <1>9. PICK f \in [D -> V] : f = Body(f)
    <2> HIDE DEF Body, D
    <2> QED BY <1>8
  <1>10. Frames(f, buf)
    BY <1>9, Zenon DEF b, scan, Frames
  <1> DEFINE frames[pos \in SubheaderSize .. Len(buf)] ==
            IF pos = Len(buf) THEN [commands |-> <<>>, desync |-> FALSE]
            ELSE LET len == ScanCommand(From(buf, pos)) IN
                 IF len = None THEN [commands |-> <<>>, desync |-> TRUE]
                 ELSE LET rest == frames[pos + len] IN
                      [rest EXCEPT !.commands = <<SubSeq(buf, pos + 1, pos + len)>> \o @]
  <1>11. FramesFrom(buf) = frames[SubheaderSize]
    BY Zenon DEF FramesFrom
  <1>12. Frames(frames, buf)
    <2>1. frames = CHOOSE e : Frames(e, buf)
      BY Zenon DEF frames, Frames, Ended, Framed
    <2> HIDE DEF frames
    <2> QED BY <1>10, <2>1
  <1> HIDE DEF frames
  <1> QED BY <1>11, <1>12

----------------------------------------------------------------------------
(* Framing: the commands of a chunk *)

\* Which scanner the table has for the commands below.
LEMMA Scanners ==
    ASSUME NEW buf
    PROVE  /\ At(buf, 0) \in {1, 18} => ScanCommand(buf) = StandardScan(buf, 2)
           /\ At(buf, 0) = 245 => ScanCommand(buf) = StandardScan(buf, 4)
           /\ At(buf, 0) = 119 => ScanCommand(buf) = FixedScan(buf, 3)
           /\ At(buf, 0) = 40 => ScanCommand(buf) = ArrayScan(buf, [count |-> 17, record |-> 4, extra |-> 32, bias |-> 1])
           /\ At(buf, 0) = 45 => ScanCommand(buf) = Scan0x2D(buf)
           /\ At(buf, 0) = 139 => ScanCommand(buf) = Scan0x8B(buf)
           /\ At(buf, 0) = 0 => ScanCommand(buf) = None
  <1> DEFINE id == At(buf, 0)
  <1>1. DOMAIN StandardAt = StandardAt2 \cup {38, 39, 43, 245, 246, 248} /\ DOMAIN FixedLength = FixedIds /\ DOMAIN ArrayLayout = {40, 49}
    BY DEF StandardAt, FixedLength, ArrayLayout
  <1>2. StandardAt[1] = 2 /\ StandardAt[18] = 2 /\ StandardAt[245] = 4
    BY DEF StandardAt, StandardAt2
  <1>3. FixedLength[119] = 3
    BY DEF FixedLength, FixedIds
  <1>4. ArrayLayout[40] = [count |-> 17, record |-> 4, extra |-> 32, bias |-> 1]
    BY DEF ArrayLayout
  <1>5. /\ {1, 18, 245} \subseteq DOMAIN StandardAt /\ 1 \notin FixedIds /\ 18 \notin FixedIds /\ 245 \notin FixedIds
    BY <1>1 DEF StandardAt2, FixedIds
  <1>6. /\ 119 \notin DOMAIN StandardAt /\ 40 \notin DOMAIN StandardAt /\ 45 \notin DOMAIN StandardAt
        /\ 139 \notin DOMAIN StandardAt /\ 0 \notin DOMAIN StandardAt
    BY <1>1 DEF StandardAt2
  <1>7. 119 \in FixedIds /\ 40 \notin FixedIds /\ 45 \notin FixedIds /\ 139 \notin FixedIds /\ 0 \notin FixedIds
    BY DEF FixedIds
  <1>8. CASE id \in {1, 18, 245}
    BY <1>1, <1>2, <1>5, <1>8 DEF ScanCommand
  <1>9. CASE id = 119
    BY <1>1, <1>3, <1>6, <1>7, <1>9 DEF ScanCommand
  <1>10. CASE id = 40
    BY <1>1, <1>4, <1>6, <1>7, <1>10 DEF ScanCommand
  <1>11. CASE id = 45
    BY <1>1, <1>6, <1>7, <1>11 DEF ScanCommand
  <1>12. CASE id = 139
    BY <1>1, <1>6, <1>7, <1>12 DEF ScanCommand
  <1>13. CASE id = 0
    BY <1>1, <1>6, <1>7, <1>13 DEF ScanCommand
  <1> QED BY <1>8, <1>9, <1>10, <1>11, <1>12, <1>13

\* How long each command is.
Lengths == [short |-> 3, words |-> 17, late |-> 5, fixed |-> 3, records |-> 40, brief |-> 8, long |-> 26,
            strings |-> 16, watcher |-> 3, nobody |-> 3, unknown |-> 2, cut |-> 5]

\* A command is as many bytes as that.
LEMMA EncodingsAreBytes ==
    ASSUME NEW c \in DOMAIN Encoding
    PROVE  Encoding[c] \in Seq(Byte) /\ Len(Encoding[c]) = Lengths[c] /\ Lengths[c] \in Nat \ {0, 1}
  <1>1. c \in {"short", "words", "late", "fixed", "records", "brief", "long", "strings", "watcher", "nobody", "unknown", "cut"}
    BY DEF Encoding
  <1>2. ASSUME NEW n \in Nat, NEW e \in [1 .. n -> Byte] PROVE e \in Seq(Byte) /\ Len(e) = n
    OBVIOUS
  <1>3. CASE c = "short"
    BY <1>3 DEF Encoding, Lengths, Byte
  <1>4. CASE c = "words"
    <2> DEFINE e == Encoding[c]
    <2>1. e \in [1 .. 17 -> Byte]
      BY <1>4 DEF Encoding, Byte, Terminator
    <2>2. e \in Seq(Byte) /\ Len(e) = 17
      BY ONLY <1>2, <2>1, 17 \in Nat
    <2> QED BY <1>4, <2>2 DEF Lengths
  <1>5. CASE c = "late"
    BY <1>5 DEF Encoding, Lengths, Byte
  <1>6. CASE c = "fixed"
    BY <1>6 DEF Encoding, Lengths, Byte
  <1>7. CASE c = "records"
    <2> DEFINE e == Encoding[c]
    <2>1. e \in [1 .. 40 -> Byte]
      BY <1>7 DEF Encoding, Byte
    <2>2. e \in Seq(Byte) /\ Len(e) = 40
      BY ONLY <1>2, <2>1, 40 \in Nat
    <2> QED BY <1>7, <2>2 DEF Lengths
  <1>8. CASE c = "brief"
    BY <1>8 DEF Encoding, Lengths, Byte
  <1>9. CASE c = "long"
    <2> DEFINE e == Encoding[c]
    <2>1. e \in [1 .. 26 -> Byte]
      BY <1>9 DEF Encoding, Byte
    <2>2. e \in Seq(Byte) /\ Len(e) = 26
      BY ONLY <1>2, <2>1, 26 \in Nat
    <2> QED BY <1>9, <2>2 DEF Lengths
  <1>10. CASE c = "strings"
    BY <1>10 DEF Encoding, Lengths, Byte
  <1>11. CASE c = "watcher"
    BY <1>11 DEF Encoding, Lengths, Byte
  <1>12. CASE c = "nobody"
    BY <1>12 DEF Encoding, Lengths, Byte
  <1>13. CASE c = "unknown"
    BY <1>13 DEF Encoding, Lengths, Byte
  <1>14. CASE c = "cut"
    BY <1>14 DEF Encoding, Lengths, Byte
  <1> QED BY <1>1, <1>3, <1>4, <1>5, <1>6, <1>7, <1>8, <1>9, <1>10, <1>11, <1>12, <1>13, <1>14

\* A command's bytes are where the framing looks for them, whatever comes behind.
LEMMA CommandInFront ==
    ASSUME NEW c \in DOMAIN Encoding, NEW rest \in Seq(Byte)
    PROVE  LET buf == Encoding[c] \o rest IN
              /\ buf \in Seq(Byte) /\ Len(buf) = Lengths[c] + Len(rest)
              /\ \A i \in 0 .. Lengths[c] - 1 : At(buf, i) = Encoding[c][i + 1]
              /\ \A i \in 1 .. Len(rest) : buf[Lengths[c] + i] = rest[i]
              /\ SubSeq(buf, 1, Lengths[c]) = Encoding[c]
  <1> DEFINE e == Encoding[c]
             n == Lengths[c]
             buf == e \o rest
  <1>1. e \in Seq(Byte) /\ Len(e) = n /\ n \in Nat \ {0, 1}
    BY EncodingsAreBytes
  <1> HIDE DEF e, n
  <1>2. buf \in Seq(Byte) /\ Len(buf) = n + Len(rest)
    BY <1>1
  <1>3. \A i \in 1 .. n : buf[i] = e[i]
    BY <1>1
  <1>4. \A i \in 1 .. Len(rest) : buf[n + i] = rest[i]
    BY <1>1
  <1>5. Len(rest) \in Nat
    OBVIOUS
  <1> HIDE DEF buf
  <1>6. ASSUME NEW i \in 0 .. n - 1 PROVE At(buf, i) = e[i + 1]
    <2>1. i + 1 \in 1 .. n
      BY <1>1
    <2> QED BY <1>3, <2>1 DEF At
  <1>7. SubSeq(buf, 1, n) = e
    <2> DEFINE u == SubSeq(buf, 1, n)
    <2>1. 1 \in Int /\ n \in Int /\ 1 <= n /\ n - 1 + 1 = n
      BY <1>1
    <2>2. \A i \in 1 .. n : buf[i] \in Byte
      BY <1>1, <1>3
    <2>3. /\ u \in Seq(Byte) /\ Len(u) = IF 1 <= n THEN n - 1 + 1 ELSE 0
          /\ \A i \in 1 .. n - 1 + 1 : u[i] = buf[1 + i - 1]
      BY ONLY <2>1, <2>2, SubSeqProperties
    <2> HIDE DEF u
    <2>4. Len(u) = n
      BY <2>1, <2>3
    <2>5. ASSUME NEW i \in 1 .. n PROVE u[i] = e[i]
      <3>1. i \in 1 .. n - 1 + 1 /\ 1 + i - 1 = i
        BY <2>1
      <3> QED BY <1>3, <2>3, <3>1
    <2>6. u = e
      BY <1>1, <2>3, <2>4, <2>5, SeqEqual
    <2> QED BY <2>6 DEF u
  <1> QED BY <1>2, <1>4, <1>6, <1>7 DEF buf, e, n

\* The bytes that say how long a command is.
LEMMA BytesThatCount ==
    /\ Encoding.short[1] = 1 /\ Encoding.short[3] = Terminator
    /\ Encoding.watcher[1] = 1 /\ Encoding.watcher[3] = Terminator
    /\ Encoding.nobody[1] = 1 /\ Encoding.nobody[3] = Terminator
    /\ Encoding.late[1] = 245 /\ Encoding.late[5] = Terminator
    /\ Encoding.words[1] = 18 /\ Encoding.words[3] = 16 /\ Encoding.words[12] = 0 /\ Encoding.words[17] = Terminator
    /\ Encoding.cut[1] = 18 /\ Encoding.cut[3] = 16
    /\ Encoding.fixed[1] = 119
    /\ Encoding.records[1] = 40 /\ Encoding.records[18] = 1
    /\ Encoding.brief[1] = 45 /\ Encoding.brief[8] = Terminator
    /\ Encoding.long[1] = 45 /\ Encoding.long[8] = 0
    /\ Encoding.strings[1] = 139 /\ Encoding.strings[4] = 2 /\ Encoding.strings[8] = 1
    /\ Encoding.unknown[1] = 0
  <1>1. Encoding.short[1] = 1 /\ Encoding.short[3] = Terminator
    BY DEF Encoding, Terminator
  <1>2. Encoding.watcher[1] = 1 /\ Encoding.watcher[3] = Terminator
    BY DEF Encoding, Terminator
  <1>3. Encoding.nobody[1] = 1 /\ Encoding.nobody[3] = Terminator
    BY DEF Encoding, Terminator
  <1>4. Encoding.late[1] = 245 /\ Encoding.late[5] = Terminator
    BY DEF Encoding, Terminator
  <1>5. Encoding.words[1] = 18 /\ Encoding.words[3] = 16 /\ Encoding.words[12] = 0 /\ Encoding.words[17] = Terminator
    BY DEF Encoding, Terminator
  <1>6. Encoding.cut[1] = 18 /\ Encoding.cut[3] = 16
    BY DEF Encoding
  <1>7. Encoding.fixed[1] = 119
    BY DEF Encoding
  <1>8. Encoding.records[1] = 40 /\ Encoding.records[18] = 1
    BY DEF Encoding
  <1>9. Encoding.brief[1] = 45 /\ Encoding.brief[8] = Terminator
    BY DEF Encoding, Terminator
  <1>10. Encoding.long[1] = 45 /\ Encoding.long[8] = 0
    BY DEF Encoding
  <1>11. Encoding.strings[1] = 139 /\ Encoding.strings[4] = 2 /\ Encoding.strings[8] = 1
    BY DEF Encoding
  <1>12. Encoding.unknown[1] = 0
    BY DEF Encoding
  <1> QED BY <1>1, <1>2, <1>3, <1>4, <1>5, <1>6, <1>7, <1>8, <1>9, <1>10, <1>11, <1>12

\* Every command that is known is framed as long as it is, whatever comes behind; the others are not framed.
LEMMA CommandsAreFramed ==
    ASSUME NEW c \in DOMAIN Encoding, NEW rest \in Seq(Byte), c = "cut" => rest = <<>>
    PROVE  ScanCommand(Encoding[c] \o rest) = IF c \in Unreadable THEN None ELSE Lengths[c]
  <1> DEFINE buf == Encoding[c] \o rest
             n == Lengths[c]
             l == Len(rest)
  <1>1. buf \in Seq(Byte) /\ Len(buf) = n + l /\ l \in Nat
    BY CommandInFront
  <1>2. \A i \in 0 .. n - 1 : At(buf, i) = Encoding[c][i + 1]
    BY CommandInFront
  <1>20. /\ At(buf, 0) = Encoding[c][1] /\ (n > 2 => At(buf, 2) = Encoding[c][3]) /\ (n > 3 => At(buf, 3) = Encoding[c][4])
         /\ (n > 4 => At(buf, 4) = Encoding[c][5]) /\ (n > 7 => At(buf, 7) = Encoding[c][8])
         /\ (n > 11 => At(buf, 11) = Encoding[c][12]) /\ (n > 16 => At(buf, 16) = Encoding[c][17])
         /\ (n > 17 => At(buf, 17) = Encoding[c][18])
    <2>1. ASSUME NEW i \in 0 .. n - 1 PROVE At(buf, i) = Encoding[c][i + 1]
      BY <1>2
    <2>2. n \in Nat \ {0, 1}
      BY EncodingsAreBytes
    <2> HIDE DEF n, buf
    <2>3. At(buf, 0) = Encoding[c][1]
      BY ONLY <2>1, <2>2
    <2>4. n > 2 => At(buf, 2) = Encoding[c][3]
      BY ONLY <2>1, <2>2
    <2>5. n > 3 => At(buf, 3) = Encoding[c][4]
      BY ONLY <2>1, <2>2
    <2>6. n > 4 => At(buf, 4) = Encoding[c][5]
      BY ONLY <2>1, <2>2
    <2>7. n > 7 => At(buf, 7) = Encoding[c][8]
      BY ONLY <2>1, <2>2
    <2>8. n > 11 => At(buf, 11) = Encoding[c][12]
      BY ONLY <2>1, <2>2
    <2>9. n > 16 => At(buf, 16) = Encoding[c][17]
      BY ONLY <2>1, <2>2
    <2>10. n > 17 => At(buf, 17) = Encoding[c][18]
      BY ONLY <2>1, <2>2
    <2> QED BY ONLY <2>3, <2>4, <2>5, <2>6, <2>7, <2>8, <2>9, <2>10
  <1>3. c \in {"short", "words", "late", "fixed", "records", "brief", "long", "strings", "watcher", "nobody", "unknown", "cut"}
    BY DEF Encoding
  <1>4. n \in Nat \ {0, 1}
    BY EncodingsAreBytes
  <1> HIDE DEF buf, l
  <1>5. ASSUME NEW first \in Nat \ {0}
        PROVE  \E e : /\ StandardScan(buf, first) = e[first]
                      /\ \A pos \in first .. first + 65 * (n + l) :
                            e[pos] = IF pos >= n + l THEN None
                                     ELSE IF At(buf, pos) = Terminator THEN pos + 1
                                     ELSE e[pos + 4 * ((At(buf, pos) \div 16) + 1) + 1]
    <2>1. Len(buf) >= 2
      BY <1>1, <1>4
    <2>2. PICK e : Ends(e, buf, first) /\ StandardScan(buf, first) = e[first]
      BY ONLY <1>1, <2>1, first \in Nat \ {0}, StandardScanHops
    <2>3. e = [pos \in first .. first + 65 * (n + l) |->
                  IF pos >= n + l THEN None
                  ELSE IF At(buf, pos) = Terminator THEN pos + 1
                  ELSE e[pos + 4 * ((At(buf, pos) \div 16) + 1) + 1]]
      BY <1>1, <2>2 DEF Ends
    <2> QED BY <2>2, <2>3
  <1>6. ASSUME c \in {"short", "watcher", "nobody"}
        PROVE  ScanCommand(buf) = 3
    <2>1. n = 3 /\ At(buf, 0) = 1 /\ At(buf, 2) = Terminator
      BY <1>20, <1>6, BytesThatCount DEF Lengths
    <2>2. PICK e : /\ StandardScan(buf, 2) = e[2]
                   /\ \A pos \in 2 .. 2 + 65 * (n + l) :
                            e[pos] = IF pos >= n + l THEN None
                                     ELSE IF At(buf, pos) = Terminator THEN pos + 1
                                     ELSE e[pos + 4 * ((At(buf, pos) \div 16) + 1) + 1]
      BY <1>5
    <2>3. e[2] = 3
      BY <1>1, <2>1, <2>2
    <2> QED BY <2>1, <2>2, <2>3, Scanners
  <1>7. ASSUME c = "late"
        PROVE  ScanCommand(buf) = 5
    <2>1. n = 5 /\ At(buf, 0) = 245 /\ At(buf, 4) = Terminator
      BY <1>20, <1>7, BytesThatCount DEF Lengths
    <2>2. PICK e : /\ StandardScan(buf, 4) = e[4]
                   /\ \A pos \in 4 .. 4 + 65 * (n + l) :
                            e[pos] = IF pos >= n + l THEN None
                                     ELSE IF At(buf, pos) = Terminator THEN pos + 1
                                     ELSE e[pos + 4 * ((At(buf, pos) \div 16) + 1) + 1]
      BY <1>5
    <2>3. e[4] = 5
      BY <1>1, <2>1, <2>2
    <2> QED BY <2>1, <2>2, <2>3, Scanners
  <1>8. ASSUME c = "words"
        PROVE  ScanCommand(buf) = 17
    <2>1. n = 17 /\ At(buf, 0) = 18 /\ At(buf, 2) = 16 /\ At(buf, 11) = 0 /\ At(buf, 16) = Terminator
      BY <1>20, <1>8, BytesThatCount DEF Lengths
    <2>2. PICK e : /\ StandardScan(buf, 2) = e[2]
                   /\ \A pos \in 2 .. 2 + 65 * (n + l) :
                            e[pos] = IF pos >= n + l THEN None
                                     ELSE IF At(buf, pos) = Terminator THEN pos + 1
                                     ELSE e[pos + 4 * ((At(buf, pos) \div 16) + 1) + 1]
      BY <1>5
    <2>3. /\ 2 \in 2 .. 2 + 65 * (n + l) /\ 11 \in 2 .. 2 + 65 * (n + l) /\ 16 \in 2 .. 2 + 65 * (n + l)
          /\ ~(2 >= n + l) /\ ~(11 >= n + l) /\ ~(16 >= n + l)
      BY <1>1, <2>1
    <2>4. e[16] = 17
      BY <2>1, <2>2, <2>3
    <2>5. e[11] = e[11 + 4 * ((0 \div 16) + 1) + 1]
      <3>1. At(buf, 11) = 0 /\ At(buf, 11) # Terminator
        BY <2>1 DEF Terminator
      <3>2. e[11] = e[11 + 4 * ((At(buf, 11) \div 16) + 1) + 1]
        BY ONLY <2>2, <2>3, <3>1
      <3> QED BY ONLY <3>1, <3>2
    <2>6. e[2] = e[2 + 4 * ((16 \div 16) + 1) + 1]
      <3>1. At(buf, 2) = 16 /\ At(buf, 2) # Terminator
        BY <2>1 DEF Terminator
      <3>2. e[2] = e[2 + 4 * ((At(buf, 2) \div 16) + 1) + 1]
        BY ONLY <2>2, <2>3, <3>1
      <3> QED BY ONLY <3>1, <3>2
    <2>7. 11 + 4 * ((0 \div 16) + 1) + 1 = 16 /\ 2 + 4 * ((16 \div 16) + 1) + 1 = 11
      OBVIOUS
    <2> QED BY <2>1, <2>2, <2>4, <2>5, <2>6, <2>7, Scanners
  <1>9. ASSUME c = "cut"
        PROVE  ScanCommand(buf) = None
    <2>1. n = 5 /\ l = 0 /\ At(buf, 0) = 18 /\ At(buf, 2) = 16
      BY <1>20, <1>9, BytesThatCount DEF Lengths, l
    <2>2. PICK e : /\ StandardScan(buf, 2) = e[2]
                   /\ \A pos \in 2 .. 2 + 65 * (n + l) :
                            e[pos] = IF pos >= n + l THEN None
                                     ELSE IF At(buf, pos) = Terminator THEN pos + 1
                                     ELSE e[pos + 4 * ((At(buf, pos) \div 16) + 1) + 1]
      BY <1>5
    <2>3. /\ 2 \in 2 .. 2 + 65 * (n + l) /\ 11 \in 2 .. 2 + 65 * (n + l) /\ ~(2 >= n + l) /\ 11 >= n + l
      BY <2>1
    <2>4. e[11] = None
      BY <2>2, <2>3
    <2>5. e[2] = e[2 + 4 * ((16 \div 16) + 1) + 1]
      <3>1. At(buf, 2) = 16 /\ At(buf, 2) # Terminator
        BY <2>1 DEF Terminator
      <3>2. e[2] = e[2 + 4 * ((At(buf, 2) \div 16) + 1) + 1]
        BY ONLY <2>2, <2>3, <3>1
      <3> QED BY ONLY <3>1, <3>2
    <2>6. 2 + 4 * ((16 \div 16) + 1) + 1 = 11
      OBVIOUS
    <2> QED BY <2>1, <2>2, <2>4, <2>5, <2>6, Scanners
  <1>10. ASSUME c = "fixed"
         PROVE  ScanCommand(buf) = 3
    <2>1. n = 3 /\ At(buf, 0) = 119
      BY <1>20, <1>10, BytesThatCount DEF Lengths
    <2> QED BY <1>1, <2>1, Scanners DEF FixedScan, Within
  <1>11. ASSUME c = "records"
         PROVE  ScanCommand(buf) = 40
    <2>1. n = 40 /\ At(buf, 0) = 40 /\ At(buf, 17) = 1
      BY <1>20, <1>11, BytesThatCount DEF Lengths
    <2>2. ~(Len(buf) <= 17) /\ 40 <= Len(buf)
      BY <1>1, <2>1
    <2>3. ArrayScan(buf, [count |-> 17, record |-> 4, extra |-> 32, bias |-> 1]) = 40
      BY <2>1, <2>2 DEF ArrayScan, Within
    <2> QED BY <2>1, <2>3, Scanners
  <1>12. ASSUME c = "brief"
         PROVE  ScanCommand(buf) = 8
    <2>1. n = 8 /\ At(buf, 0) = 45 /\ At(buf, 7) = Terminator
      BY <1>20, <1>12, BytesThatCount DEF Lengths
    <2>2. ScanCommand(buf) = Scan0x2D(buf)
      BY ONLY <2>1, Scanners
    <2>3. ~(Len(buf) < 8) /\ 8 <= Len(buf)
      BY <1>1, <2>1
    <2>4. Scan0x2D(buf) = 8
      BY ONLY <2>1, <2>3 DEF Scan0x2D, Within, Terminator
    <2> QED BY ONLY <2>2, <2>4
  <1>13. ASSUME c = "long"
         PROVE  ScanCommand(buf) = 26
    <2>1. n = 26 /\ At(buf, 0) = 45 /\ At(buf, 7) # Terminator
      BY <1>20, <1>13, BytesThatCount DEF Lengths, Terminator
    <2>2. ScanCommand(buf) = Scan0x2D(buf)
      BY ONLY <2>1, Scanners
    <2>3. ~(Len(buf) < 8) /\ 26 <= Len(buf)
      BY <1>1, <2>1
    <2>4. Scan0x2D(buf) = 26
      BY ONLY <2>1, <2>3 DEF Scan0x2D, Within, Terminator
    <2> QED BY ONLY <2>2, <2>4
  <1>14. ASSUME c = "strings"
         PROVE  ScanCommand(buf) = 16
    <2>1. n = 16 /\ At(buf, 0) = 139 /\ At(buf, 3) = 2 /\ At(buf, 7) = 1
      BY <1>20, <1>14, BytesThatCount DEF Lengths
    <2>2. ~(Len(buf) < 4) /\ ~(Len(buf) <= 2 + 5) /\ 16 <= Len(buf)
      BY <1>1, <2>1
    <2>3. Scan0x8B(buf) = 16
      BY <2>1, <2>2 DEF Scan0x8B, Within
    <2> QED BY <2>1, <2>3, Scanners
  <1>15. ASSUME c = "unknown"
         PROVE  ScanCommand(buf) = None
    <2>1. At(buf, 0) = 0
      BY <1>20, <1>15, BytesThatCount DEF Lengths
    <2> QED BY <2>1, Scanners
  <1> DEFINE scan == ScanCommand(buf)
  <1> HIDE DEF scan
  <1>16. scan = IF c \in Unreadable THEN None ELSE Lengths[c]
    BY <1>3, <1>6, <1>7, <1>8, <1>9, <1>10, <1>11, <1>12, <1>13, <1>14, <1>15 DEF Unreadable, Lengths, scan
  <1> QED BY <1>16 DEF scan, buf

\* Where the commands of a chunk are.
LEMMA BytesInARow ==
    ASSUME NEW commands \in Seq(DOMAIN Encoding)
    PROVE  /\ \A i \in 1 .. Len(commands) + 1 : Bytes(commands)[i] \in Seq(Byte)
           /\ Bytes(commands)[Len(commands) + 1] = <<>>
           /\ \A i \in 1 .. Len(commands) :
                 Bytes(commands)[i] = Encoding[commands[i]] \o Bytes(commands)[i + 1]
  <1> DEFINE n == Len(commands)
             b == n + 1
             D == 1 .. b
             V == Seq(Byte)
             Body(g) == [i \in D |-> IF i > n THEN <<>> ELSE Encoding[commands[i]] \o g[i + 1]]
             Phi == [g \in [D -> V] |-> Body(g)]
             Flat(e) == e = [i \in 1 .. Len(commands) + 1 |->
                                IF i > Len(commands) THEN <<>> ELSE Encoding[commands[i]] \o e[i + 1]]
  <1>1. n \in Nat /\ \A i \in 1 .. n : commands[i] \in DOMAIN Encoding
    OBVIOUS
  <1>2. ASSUME NEW i \in 1 .. n PROVE Encoding[commands[i]] \in V
    BY <1>1, EncodingsAreBytes
  <1>3. <<>> \in V
    OBVIOUS
  <1>4. ASSUME NEW s \in V, NEW t \in V PROVE s \o t \in V
    BY ONLY <1>4, ConcatProperties
  <1> HIDE DEF n, V
  <1>5. ASSUME NEW i \in D, ~(i > n) PROVE i \in 1 .. n /\ i + 1 \in D /\ i + 1 \in i + 1 .. b
    BY <1>1, <1>5
  <1>6. ASSUME NEW g \in [D -> V]
        PROVE  Body(g) \in [D -> V]
    <2> SUFFICES ASSUME NEW i \in D PROVE (IF i > n THEN <<>> ELSE Encoding[commands[i]] \o g[i + 1]) \in V
      OBVIOUS
    <2>1. ~(i > n) => Encoding[commands[i]] \o g[i + 1] \in V
      <3> SUFFICES ASSUME ~(i > n) PROVE Encoding[commands[i]] \o g[i + 1] \in V
        OBVIOUS
      <3>1. i \in 1 .. n /\ i + 1 \in D
        BY <1>5
      <3> HIDE DEF D
      <3>2. Encoding[commands[i]] \in V /\ g[i + 1] \in V
        BY <1>2, <3>1
      <3> QED BY ONLY <1>4, <3>2
    <2> QED BY <1>3, <2>1
  <1>7. Phi \in [[D -> V] -> [D -> V]]
    <2> HIDE DEF D, Body
    <2> QED BY <1>6
  <1>8. ASSUME NEW g \in [D -> V], NEW h \in [D -> V], NEW x \in D, \A y \in x + 1 .. b : g[y] = h[y]
        PROVE  Phi[g][x] = Phi[h][x]
    <2>1. Phi[g] = Body(g) /\ Phi[h] = Body(h)
      BY <1>8
    <2> HIDE DEF Phi
    <2>2. ~(x > n) => g[x + 1] = h[x + 1]
      BY <1>5, <1>8
    <2> DEFINE of(k) == IF x > n THEN <<>> ELSE Encoding[commands[x]] \o k[x + 1]
    <2>3. Phi[g][x] = of(g) /\ Phi[h][x] = of(h)
      BY ONLY <2>1, x \in D
    <2>4. of(g) = of(h)
      BY ONLY <2>2
    <2> QED BY ONLY <2>3, <2>4
  <1>9. \E f \in [D -> V] : f = Phi[f]
    <2>1. V # {} /\ 1 \in Int /\ b \in Int /\ 1 <= b
      <3>1. V # {}
        BY ONLY <1>3
      <3> QED BY <1>1, <3>1
    <2>2. LooksAbove(Phi, 1, b, V)
      <3> HIDE DEF Phi, b
      <3> QED BY <1>7, <1>8 DEF LooksAbove
    <2> HIDE DEF Phi, b
    <2>3. \E f : IsFixpoint(f, Phi, 1, b, V)
      BY ONLY <2>1, <2>2, DownwardRecursion
    <2> QED BY <2>3 DEF IsFixpoint
  <1>10. PICK f \in [D -> V] : f = Body(f)
    <2> HIDE DEF Body, D
    <2> QED BY <1>9
  <1>11. Flat(f)
    BY <1>10, Zenon DEF n
  <1> DEFINE from[i \in 1 .. Len(commands) + 1] ==
                IF i > Len(commands) THEN <<>> ELSE Encoding[commands[i]] \o from[i + 1]
  <1>12. Bytes(commands) = from
    BY Zenon DEF Bytes
  <1>13. Flat(from)
    <2>1. from = CHOOSE e : Flat(e)
      BY Zenon DEF from
    <2> HIDE DEF from, Flat
    <2> QED BY <1>11, <2>1
  <1> HIDE DEF from
  <1>14. from = Body(from)
    BY <1>13, Zenon DEF n
  <1>15. ASSUME NEW i \in 1 .. n PROVE from[i] = Encoding[commands[i]] \o from[i + 1]
    <2>1. i \in D /\ ~(i > n)
      BY <1>1
    <2> HIDE DEF D
    <2> QED BY ONLY <1>14, <2>1
  <1>16. from[b] = <<>>
    <2>1. b \in D /\ b > n
      BY <1>1
    <2> HIDE DEF D, b
    <2> QED BY ONLY <1>14, <2>1
  <1>17. \A i \in 1 .. b : from[i] \in V
    <2> DEFINE T == {i \in 1 .. b : from[i] \in V}
    <2>1. ASSUME NEW i \in 1 .. b, \A y \in i + 1 .. b : y \in T
          PROVE  i \in T
      <3>1. CASE i > n
        <4>1. i = b
          BY <1>1, <3>1
        <4> QED BY <1>3, <1>16, <4>1
      <3>2. CASE ~(i > n)
        <4>1. i \in 1 .. n /\ i + 1 \in i + 1 .. b
          BY <1>5, <3>2
        <4>2. Encoding[commands[i]] \in V /\ from[i + 1] \in V
          BY <1>2, <2>1, <4>1
        <4>3. from[i] \in V
          BY ONLY <1>4, <1>15, <4>1, <4>2
        <4> QED BY <4>3
      <3> QED BY <3>1, <3>2
    <2> HIDE DEF T
    <2>2. T \in SUBSET (1 .. b) /\ 1 \in Int /\ b \in Int
      BY <1>1 DEF T
    <2> HIDE DEF b
    <2>3. T = 1 .. b
      BY ONLY <2>1, <2>2, DownwardInduction
    <2> QED BY <2>3 DEF T
  <1> QED BY <1>12, <1>15, <1>16, <1>17 DEF n, V

\* Two bytes make the number they were taken from.
LEMMA Halves ==
    ASSUME NEW x \in {n \in Nat : n < 256 * 256}
    PROVE  x % 256 \in Byte /\ x \div 256 \in Byte /\ (x % 256) + 256 * (x \div 256) = x
  BY DEF Byte

\* The subheader and the commands behind it.
LEMMA BufferOfCommands ==
    ASSUME NEW c \in ChunkRecords
    PROVE  /\ Buffer(c) \in Seq(Byte) /\ Len(Buffer(c)) = SubheaderSize + Len(Bytes(c.commands)[1])
           /\ From(Buffer(c), SubheaderSize) = Bytes(c.commands)[1]
           /\ At(Buffer(c), 0) = c.lead /\ Announced(Buffer(c)) = c.announced
  <1> DEFINE head == <<c.lead, c.announced % 256, c.announced \div 256, 0, 0>>
             tail == Bytes(c.commands)[1]
             buf == head \o tail
  <1>1. c.lead \in Byte /\ c.announced \in {n \in Nat : n < 256 * 256} /\ c.commands \in Seq(DOMAIN Encoding)
    BY DEF ChunkRecords
  <1>2. head \in Seq(Byte) /\ Len(head) = 5 /\ head[1] = c.lead /\ head[2] = c.announced % 256 /\ head[3] = c.announced \div 256
    <2> DEFINE low == c.announced % 256
               high == c.announced \div 256
    <2>1. low \in Byte /\ high \in Byte /\ 0 \in Byte
      BY <1>1, Halves DEF Byte
    <2> HIDE DEF low, high
    <2>2. <<c.lead, low, high, 0, 0>> \in Seq(Byte) /\ Len(<<c.lead, low, high, 0, 0>>) = 5
      BY ONLY <1>1, <2>1
    <2>3. <<c.lead, low, high, 0, 0>>[1] = c.lead /\ <<c.lead, low, high, 0, 0>>[2] = low /\ <<c.lead, low, high, 0, 0>>[3] = high
      OBVIOUS
    <2> QED BY <2>2, <2>3 DEF low, high
  <1>3. tail \in Seq(Byte) /\ Len(tail) \in Nat
    <2>1. 1 \in 1 .. Len(c.commands) + 1
      BY <1>1
    <2>2. tail \in Seq(Byte)
      BY ONLY <1>1, <2>1, BytesInARow
    <2> HIDE DEF tail
    <2> QED BY <2>2
  <1> HIDE DEF head, tail
  <1>4. buf \in Seq(Byte) /\ Len(buf) = 5 + Len(tail) /\ \A i \in 1 .. 5 : buf[i] = head[i]
    <2>1. head \in Seq(Byte) /\ tail \in Seq(Byte)
      BY <1>2, <1>3
    <2>2. head \o tail \in Seq(Byte) /\ Len(head \o tail) = Len(head) + Len(tail)
      BY ONLY <2>1, Concatenated
    <2>3. \A i \in 1 .. Len(head) : (head \o tail)[i] = head[i]
      BY ONLY <2>1, Concatenated
    <2> QED BY <1>2, <2>2, <2>3
  <1>5. \A i \in 1 .. Len(tail) : buf[5 + i] = tail[i]
    <2>1. head \in Seq(Byte) /\ tail \in Seq(Byte)
      BY <1>2, <1>3
    <2>2. \A i \in 1 .. Len(tail) : (head \o tail)[Len(head) + i] = tail[i]
      BY ONLY <2>1, Concatenated
    <2> QED BY <1>2, <2>2
  <1>6. Buffer(c) = buf
    BY DEF Buffer, head, tail
  <1> HIDE DEF buf
  <1>7. From(buf, 5) = tail
    <2> DEFINE u == From(buf, 5)
    <2>1. 5 \in 0 .. Len(buf) /\ Len(buf) - 5 = Len(tail)
      BY ONLY <1>3, <1>4
    <2>2. /\ u \in Seq(Byte) /\ Len(u) = Len(buf) - 5
          /\ \A j \in 1 .. Len(buf) - 5 : u[j] = buf[5 + j]
      BY ONLY <1>4, <2>1, Rest
    <2> HIDE DEF u
    <2>3. Len(u) = Len(tail) /\ \A j \in 1 .. Len(u) : u[j] = tail[j]
      BY <1>5, <2>1, <2>2
    <2>4. u = tail
      BY ONLY <1>3, <2>2, <2>3, SeqEqual
    <2> QED BY <2>4 DEF u
  <1>8. At(buf, 0) = c.lead /\ At(buf, 1) = c.announced % 256 /\ At(buf, 2) = c.announced \div 256
    BY <1>2, <1>4 DEF At
  <1>9. (c.announced % 256) + 256 * (c.announced \div 256) = c.announced
    BY <1>1, Halves
  <1> QED BY <1>4, <1>6, <1>7, <1>8, <1>9 DEF SubheaderSize, Announced, tail

\* The framing of a chunk finds its commands, up to the first that has no known end.
THEOREM FramesAreCommands ==
    ASSUME NEW c \in ChunkRecords, CutIsLast(c.commands)
    PROVE  \E k \in Nat :
              /\ k <= Len(c.commands) /\ Readable(c) = 1 .. k
              /\ FramesFrom(Buffer(c)).commands = [i \in 1 .. k |-> Encoding[c.commands[i]]]
  <1> DEFINE commands == c.commands
             n == Len(commands)
             from == Bytes(commands)
             buf == Buffer(c)
             place(i) == Len(buf) - Len(from[i])
  <1>1. commands \in Seq(DOMAIN Encoding) /\ n \in Nat /\ \A i \in 1 .. n : commands[i] \in DOMAIN Encoding
    <2>1. commands \in Seq(DOMAIN Encoding)
      BY DEF ChunkRecords
    <2> HIDE DEF commands
    <2> QED BY <2>1
  <1>2. /\ \A i \in 1 .. n + 1 : from[i] \in Seq(Byte)
        /\ from[n + 1] = <<>>
        /\ \A i \in 1 .. n : from[i] = Encoding[commands[i]] \o from[i + 1]
    <2> HIDE DEF commands
    <2> QED BY ONLY <1>1, BytesInARow
  <1>3. /\ buf \in Seq(Byte) /\ Len(buf) = SubheaderSize + Len(from[1]) /\ From(buf, SubheaderSize) = from[1]
    BY BufferOfCommands
  <1>4. PICK e : Frames(e, buf) /\ FramesFrom(buf) = e[SubheaderSize]
    <2>1. Len(from[1]) \in Nat
      <3>1. from[1] \in Seq(Byte)
        BY <1>1, <1>2
      <3> HIDE DEF from
      <3> QED BY <3>1
    <2>2. Len(buf) >= SubheaderSize
      BY <1>3, <2>1 DEF SubheaderSize
    <2> HIDE DEF buf
    <2> QED BY ONLY <1>3, <2>2, FramesAreFound
  <1> HIDE DEF n, from, buf, commands
  <1>5. \A i \in 1 .. n + 1 : Len(from[i]) \in Nat
    BY <1>2
  <1>6. Len(buf) \in Nat /\ SubheaderSize \in Nat /\ place(1) = SubheaderSize
    <2>1. Len(from[1]) \in Nat
      BY <1>1, <1>5
    <2> QED BY <1>3, <2>1 DEF SubheaderSize
  <1>7. ASSUME NEW i \in 1 .. n
        PROVE  /\ Len(from[i]) = Lengths[commands[i]] + Len(from[i + 1]) /\ Lengths[commands[i]] \in Nat \ {0, 1}
               /\ place(i + 1) = place(i) + Lengths[commands[i]]
               /\ \A j \in 1 .. Len(from[i + 1]) : from[i][Lengths[commands[i]] + j] = from[i + 1][j]
               /\ SubSeq(from[i], 1, Lengths[commands[i]]) = Encoding[commands[i]]
    <2> DEFINE l == Lengths[commands[i]]
               first == from[i]
               rest == from[i + 1]
    <2>1. i + 1 \in 1 .. n + 1 /\ i \in 1 .. n + 1 /\ commands[i] \in DOMAIN Encoding
      BY <1>1
    <2>2. rest \in Seq(Byte) /\ first = Encoding[commands[i]] \o rest /\ Len(rest) \in Nat /\ Len(first) \in Nat
      BY <1>2, <1>5, <2>1
    <2>3. l \in Nat \ {0, 1}
      BY <2>1, EncodingsAreBytes
    <2> HIDE DEF first, rest, l
    <2>4. /\ Len(first) = Lengths[commands[i]] + Len(rest)
          /\ \A j \in 1 .. Len(rest) : first[Lengths[commands[i]] + j] = rest[j]
          /\ SubSeq(first, 1, Lengths[commands[i]]) = Encoding[commands[i]]
      BY ONLY <2>1, <2>2, CommandInFront
    <2>5. place(i + 1) = place(i) + l
      <3>1. Len(first) = l + Len(rest)
        BY <2>4 DEF l
      <3> QED BY <1>6, <2>2, <2>3, <3>1 DEF first, rest
    <2> QED BY <2>3, <2>4, <2>5 DEF l, first, rest
  <1>8. ASSUME NEW i \in 1 .. n + 1
        PROVE  place(i) \in SubheaderSize .. Len(buf) /\ From(buf, place(i)) = from[i]
    <2> DEFINE Found(j) == place(j) \in SubheaderSize .. Len(buf) /\ From(buf, place(j)) = from[j]
               T == {j \in 1 .. n + 1 : Found(j)}
    <2>1. ASSUME NEW j \in 1 .. n, Found(j) PROVE Found(j + 1)
      <3> DEFINE l == Lengths[commands[j]]
                 p == place(j)
                 u == From(buf, p + l)
      <3>1. l \in Nat \ {0, 1} /\ place(j + 1) = p + l /\ Len(from[j]) = l + Len(from[j + 1])
        BY <1>7
      <3>2. p \in SubheaderSize .. Len(buf) /\ From(buf, p) = from[j]
        BY <2>1
      <3>3. j + 1 \in 1 .. n + 1 /\ j \in 1 .. n + 1
        BY <1>1
      <3>4. Len(from[j + 1]) \in Nat /\ Len(from[j]) \in Nat
        BY <1>5, <3>3
      <3>5. p + l = Len(buf) - Len(from[j + 1]) /\ Len(buf) - p = Len(from[j])
        BY <1>6, <3>1, <3>4
      <3> HIDE DEF l, p, place
      <3>6. p \in 0 .. Len(buf) /\ p + l \in 0 .. Len(buf) /\ p + l \in SubheaderSize .. Len(buf)
            /\ Len(buf) - (p + l) = Len(from[j + 1])
        <4> DEFINE size == Len(buf)
                   r == Len(from[j + 1])
                   s == SubheaderSize
        <4>1. size \in Nat /\ s \in Nat /\ r \in Nat /\ l \in Nat /\ p \in s .. size /\ p + l = size - r
          BY <1>6, <3>1, <3>2, <3>4, <3>5
        <4> HIDE DEF size, r, s
        <4>2. p \in 0 .. size /\ p + l \in 0 .. size /\ p + l \in s .. size /\ size - (p + l) = r
          BY ONLY <4>1
        <4> QED BY ONLY <4>2 DEF size, r, s
      <3>7. \A i_1 \in 1 .. Len(buf) - p : From(buf, p)[i_1] = buf[p + i_1]
        BY ONLY <1>3, <3>6, Rest
      <3>8. /\ u \in Seq(Byte) /\ Len(u) = Len(buf) - (p + l)
            /\ \A i_1 \in 1 .. Len(buf) - (p + l) : u[i_1] = buf[(p + l) + i_1]
        BY ONLY <1>3, <3>6, Rest
      <3> HIDE DEF u
      <3>9. ASSUME NEW k \in 1 .. Len(u) PROVE u[k] = from[j + 1][k]
        <4>1. k \in 1 .. Len(from[j + 1]) /\ l + k \in 1 .. Len(buf) - p /\ (p + l) + k = p + (l + k)
          <5> DEFINE size == Len(buf)
                     r == Len(from[j + 1])
                     a == Len(from[j])
          <5>1. size \in Nat /\ r \in Nat /\ l \in Nat /\ a = l + r /\ p + l = size - r /\ size - p = a
            BY <1>6, <3>1, <3>4, <3>5
          <5>2. k \in 1 .. r
            BY <3>6, <3>8
          <5>3. p \in Int
            BY <3>6
          <5> HIDE DEF size, r, a
          <5>4. k \in 1 .. r /\ l + k \in 1 .. size - p /\ (p + l) + k = p + (l + k)
            BY ONLY <5>1, <5>2, <5>3
          <5> QED BY ONLY <5>4 DEF size, r
        <4>2. u[k] = buf[p + (l + k)]
          BY <3>6, <3>8, <4>1
        <4>3. from[j][l + k] = buf[p + (l + k)]
          BY <3>2, <3>7, <4>1
        <4>4. from[j][l + k] = from[j + 1][k]
          BY <1>7, <4>1 DEF l
        <4> QED BY <4>2, <4>3, <4>4
      <3>10. from[j + 1] \in Seq(Byte)
        BY <1>2, <3>3
      <3>11. u = from[j + 1]
        <4> DEFINE v == from[j + 1]
        <4>1. u \in Seq(Byte) /\ v \in Seq(Byte)
          BY ONLY <3>8, <3>10
        <4>2. Len(u) = Len(v)
          BY ONLY <3>6, <3>8
        <4> HIDE DEF v
        <4>3. \A k \in 1 .. Len(u) : u[k] = v[k]
          BY ONLY <3>9 DEF v
        <4>4. u = v
          BY ONLY <4>1, <4>2, <4>3, SeqEqual
        <4> QED BY ONLY <4>4 DEF v
      <3> QED BY <3>1, <3>6, <3>11 DEF u
    <2>2. Found(1)
      <3>1. Len(from[1]) \in Nat
        BY <1>1, <1>5
      <3>2. place(1) \in SubheaderSize .. Len(buf)
        BY <1>3, <1>6, <3>1
      <3> HIDE DEF place
      <3> QED BY <1>3, <1>6, <3>2
    <2> HIDE DEF Found
    <2>3. ASSUME NEW x \in 1 .. n + 1, \A y \in 1 .. x - 1 : y \in T PROVE x \in T
      <3>1. CASE x = 1
        BY <2>2, <3>1
      <3>2. CASE x # 1
        <4>1. x - 1 \in 1 .. n /\ x - 1 \in 1 .. x - 1 /\ (x - 1) + 1 = x
          BY <1>1, <3>2
        <4>2. Found(x - 1)
          BY <2>3, <4>1
        <4> QED BY <2>1, <4>1, <4>2
      <3> QED BY <3>1, <3>2
    <2> HIDE DEF T
    <2>4. T \in SUBSET (1 .. n + 1) /\ 1 \in Int /\ n + 1 \in Int
      BY <1>1 DEF T
    <2>5. T = 1 .. n + 1
      BY ONLY <2>3, <2>4, UpwardInduction
    <2>6. Found(i)
      BY <2>5 DEF T
    <2> QED BY <2>6 DEF Found
  <1> DEFINE Known(i, k) == /\ i + k <= n + 1 /\ \A j \in i .. i + k - 1 : commands[j] \notin Unreadable
                            /\ i + k <= n => commands[i + k] \in Unreadable
             Listed(i, k) == [j \in 1 .. k |-> Encoding[commands[i + j - 1]]]
             Right(i) == \E k \in Nat : /\ Known(i, k)
                                        /\ \E d \in BOOLEAN : e[place(i)] = [commands |-> Listed(i, k), desync |-> d]
  <1>9. ASSUME NEW pos \in SubheaderSize .. Len(buf)
        PROVE  e[pos] = IF pos = Len(buf) THEN Ended(FALSE)
                        ELSE IF ScanCommand(From(buf, pos)) = None THEN Ended(TRUE)
                        ELSE Framed(buf, pos, ScanCommand(From(buf, pos)), e[pos + ScanCommand(From(buf, pos))])
    BY <1>4 DEF Frames
  <1>10. Right(n + 1)
    <2>1. place(n + 1) = Len(buf) /\ place(n + 1) \in SubheaderSize .. Len(buf)
      <3>1. n + 1 \in 1 .. n + 1
        BY <1>1
      <3>2. Len(from[n + 1]) = 0
        BY <1>2
      <3> QED BY <1>6, <1>8, <3>1, <3>2
    <2>2. e[place(n + 1)] = Ended(FALSE)
      BY <1>9, <2>1
    <2>3. Listed(n + 1, 0) = <<>>
      OBVIOUS
    <2>4. Known(n + 1, 0)
      BY <1>1
    <2> HIDE DEF place, Known, Listed
    <2> QED BY <2>2, <2>3, <2>4 DEF Ended
  <1>11. ASSUME NEW i \in 1 .. n, Right(i + 1) PROVE Right(i)
    <2> DEFINE p == place(i)
               l == Lengths[commands[i]]
               c_i == commands[i]
    <2>1. i \in 1 .. n + 1 /\ i + 1 \in 1 .. n + 1 /\ c_i \in DOMAIN Encoding /\ i \in Nat
      BY <1>1
    <2>2. p \in SubheaderSize .. Len(buf) /\ From(buf, p) = from[i]
      BY <1>8, <2>1
    <2>3. /\ Len(from[i]) = l + Len(from[i + 1]) /\ l \in Nat \ {0, 1}
          /\ place(i + 1) = p + l /\ SubSeq(from[i], 1, l) = Encoding[c_i]
      BY <1>7
    <2>4. Len(from[i]) \in Nat /\ Len(from[i + 1]) \in Nat
      BY <1>5, <2>1
    <2>5. p # Len(buf) /\ p + l <= Len(buf)
      <3> DEFINE size == Len(buf)
                 a == Len(from[i])
                 r == Len(from[i + 1])
      <3>1. size \in Nat /\ p = size - a /\ a = l + r /\ l \in Nat \ {0, 1} /\ r \in Nat
        BY <1>6, <2>3, <2>4
      <3> HIDE DEF size, a, r, p, l
      <3>2. p # size /\ p + l <= size
        BY ONLY <3>1
      <3> QED BY ONLY <3>2 DEF size
    <2>6. ScanCommand(from[i]) = IF c_i \in Unreadable THEN None ELSE l
      <3>1. from[i + 1] \in Seq(Byte) /\ from[i] = Encoding[c_i] \o from[i + 1]
        BY <1>2, <2>1
      <3>2. c_i = "cut" => from[i + 1] = <<>>
        <4>1. c_i = "cut" => ~(i \in 1 .. n - 1)
          BY DEF CutIsLast, n, commands
        <4>2. c_i = "cut" => i = n
          BY <1>1, <4>1
        <4> QED BY <1>2, <4>2
      <3> HIDE DEF c_i
      <3>3. ScanCommand(Encoding[c_i] \o from[i + 1]) = IF c_i \in Unreadable THEN None ELSE Lengths[c_i]
        BY ONLY <2>1, <3>1, <3>2, CommandsAreFramed
      <3> QED BY <3>1, <3>3 DEF c_i
    <2>7. CASE c_i \in Unreadable
      <3>1. e[p] = Ended(TRUE)
        BY <1>9, <2>2, <2>5, <2>6, <2>7
      <3>2. Listed(i, 0) = <<>>
        OBVIOUS
      <3>3. Known(i, 0)
        BY <1>1, <2>1, <2>7
      <3> HIDE DEF place, Known, Listed
      <3> QED BY <3>1, <3>2, <3>3 DEF Ended
    <2>8. CASE c_i \notin Unreadable
      <3>1. PICK k \in Nat, d \in BOOLEAN :
              Known(i + 1, k) /\ e[place(i + 1)] = [commands |-> Listed(i + 1, k), desync |-> d]
        BY <1>11
      <3>2. l # None
        BY <2>3 DEF None
      <3>3. e[p] = Framed(buf, p, l, e[p + l])
        BY <1>9, <2>2, <2>5, <2>6, <2>8, <3>2
      <3>4. SubSeq(buf, p + 1, p + l) = Encoding[c_i]
        <4>1. p \in 0 .. Len(buf) /\ l \in Nat /\ p + l <= Len(buf)
          BY <1>6, <2>2, <2>3, <2>5
        <4> HIDE DEF p, l
        <4>2. SubSeq(From(buf, p), 1, l) = SubSeq(buf, p + 1, p + l)
          BY ONLY <1>3, <4>1, FrontOfRest
        <4> QED BY <2>2, <2>3, <4>2
      <3>5. Listed(i + 1, k) \in Seq(Seq(Byte)) /\ <<Encoding[c_i]>> \o Listed(i + 1, k) = Listed(i, k + 1)
        <4> DEFINE s == Listed(i + 1, k)
                   t == Listed(i, k + 1)
                   h == <<Encoding[c_i]>>
        <4>1. ASSUME NEW j \in 1 .. n PROVE Encoding[commands[j]] \in Seq(Byte)
          BY <1>1, EncodingsAreBytes
        <4>2. i \in Nat /\ k \in Nat /\ n \in Nat /\ i + 1 + k <= n + 1
          BY <1>1, <2>1, <3>1
        <4>3. s \in [1 .. k -> Seq(Byte)]
          BY <4>1, <4>2
        <4>4. t \in [1 .. k + 1 -> Seq(Byte)]
          BY <4>1, <4>2
        <4>5. s \in Seq(Seq(Byte)) /\ Len(s) = k
          <5> HIDE DEF s
          <5> QED BY <4>2, <4>3
        <4>6. t \in Seq(Seq(Byte)) /\ Len(t) = k + 1
          <5> HIDE DEF t
          <5> QED BY <4>2, <4>4
        <4>7. h \in Seq(Seq(Byte)) /\ Len(h) = 1 /\ h[1] = Encoding[c_i]
          BY <2>1, EncodingsAreBytes
        <4>8. t[1] = Encoding[c_i]
          BY <4>2
        <4>9. ASSUME NEW j \in 1 .. k PROVE t[1 + j] = s[j]
          <5>1. 1 + j \in 1 .. k + 1 /\ i + (1 + j) - 1 = i + 1 + j - 1
            BY <4>2
          <5> QED BY <5>1
        <4> HIDE DEF s, t, h
        <4>16. h \in Seq(Seq(Byte)) /\ s \in Seq(Seq(Byte))
          BY <4>5, <4>7
        <4>10. h \o s \in Seq(Seq(Byte)) /\ Len(h \o s) = Len(h) + Len(s)
          BY ONLY <4>16, Concatenated
        <4>11. \A j \in 1 .. Len(h) : (h \o s)[j] = h[j]
          BY ONLY <4>16, Concatenated
        <4>12. \A j \in 1 .. Len(s) : (h \o s)[Len(h) + j] = s[j]
          BY ONLY <4>16, Concatenated
        <4>13. ASSUME NEW j \in 1 .. k + 1 PROVE (h \o s)[j] = t[j]
          <5>1. CASE j = 1
            BY <4>7, <4>8, <4>11, <5>1
          <5>2. CASE j # 1
            <6>1. j - 1 \in 1 .. k /\ 1 + (j - 1) = j
              BY <4>2, <5>2
            <6>2. (h \o s)[1 + (j - 1)] = s[j - 1]
              BY ONLY <4>5, <4>7, <4>12, <6>1
            <6>3. t[1 + (j - 1)] = s[j - 1]
              BY <4>9, <6>1
            <6> QED BY <6>1, <6>2, <6>3
          <5> QED BY <5>1, <5>2
        <4>14. Len(h \o s) = k + 1
          BY <4>2, <4>5, <4>7, <4>10
        <4>15. h \o s = t
          BY ONLY <4>6, <4>10, <4>13, <4>14, SeqEqual
        <4> QED BY <4>5, <4>15 DEF s, t, h
      <3>6. Known(i, k + 1) /\ k + 1 \in Nat
        <4>1. /\ (i + 1) + k <= n + 1 /\ \A j \in i + 1 .. (i + 1) + k - 1 : commands[j] \notin Unreadable
              /\ (i + 1) + k <= n => commands[(i + 1) + k] \in Unreadable
          BY <3>1
        <4>2. (i + 1) + k = i + (k + 1) /\ k + 1 \in Nat
          BY <2>1
        <4>3. ASSUME NEW j \in i .. i + (k + 1) - 1 PROVE commands[j] \notin Unreadable
          <5>1. j = i \/ j \in i + 1 .. (i + 1) + k - 1
            BY <2>1
          <5> QED BY <2>8, <4>1, <5>1
        <4> QED BY <4>1, <4>2, <4>3
      <3> DEFINE v == [commands |-> Listed(i + 1, k), desync |-> d]
                 w == [commands |-> Listed(i, k + 1), desync |-> d]
      <3>7. e[p] = Framed(buf, p, l, v)
        BY <2>3, <3>1, <3>3
      <3>8. Framed(buf, p, l, v) = w
        <4> HIDE DEF Listed
        <4>1. v.commands = Listed(i + 1, k)
          OBVIOUS
        <4>2. Framed(buf, p, l, v) = [v EXCEPT !.commands = <<Encoding[c_i]>> \o Listed(i + 1, k)]
          BY ONLY <3>4, <4>1 DEF Framed
        <4>3. Framed(buf, p, l, v) = [v EXCEPT !.commands = Listed(i, k + 1)]
          BY ONLY <3>5, <4>2
        <4> QED BY ONLY <4>3
      <3> HIDE DEF Known, Listed
      <3> QED BY <3>6, <3>7, <3>8
    <2> QED BY <2>7, <2>8
  <1>12. Right(1)
    <2> DEFINE T == {i \in 1 .. n + 1 : Right(i)}
    <2> HIDE DEF Right
    <2>1. ASSUME NEW i \in 1 .. n + 1, \A y \in i + 1 .. n + 1 : y \in T PROVE i \in T
      <3>1. CASE i = n + 1
        BY <1>10, <3>1
      <3>2. CASE i # n + 1
        <4>1. i \in 1 .. n /\ i + 1 \in i + 1 .. n + 1
          BY <1>1, <3>2
        <4>2. Right(i + 1)
          BY <2>1, <4>1
        <4> QED BY <1>11, <4>1, <4>2
      <3> QED BY <3>1, <3>2
    <2> HIDE DEF T
    <2>2. T \in SUBSET (1 .. n + 1) /\ 1 \in Int /\ n + 1 \in Int
      BY <1>1 DEF T
    <2>3. T = 1 .. n + 1
      BY ONLY <2>1, <2>2, DownwardInduction
    <2>4. 1 \in 1 .. n + 1
      BY <1>1
    <2> QED BY <2>3, <2>4 DEF T
  <1>13. PICK k \in Nat, d \in BOOLEAN : Known(1, k) /\ e[place(1)] = [commands |-> Listed(1, k), desync |-> d]
    BY <1>12
  <1>14. FramesFrom(buf).commands = Listed(1, k)
    <2> HIDE DEF place, Listed
    <2>1. e[SubheaderSize] = [commands |-> Listed(1, k), desync |-> d]
      BY ONLY <1>6, <1>13
    <2> QED BY ONLY <1>4, <2>1
  <1>15. Listed(1, k) = [i \in 1 .. k |-> Encoding[commands[i]]]
    <2>1. \A i \in 1 .. k : 1 + i - 1 = i
      OBVIOUS
    <2> QED BY <2>1
  <1>16. k <= n /\ Readable(c) = 1 .. k
    <2> DEFINE bad == {i \in DOMAIN c.commands : c.commands[i] \in Unreadable}
    <2>1. /\ DOMAIN c.commands = 1 .. n /\ bad = {i \in 1 .. n : commands[i] \in Unreadable}
          /\ Readable(c) = {i \in 1 .. n : \A j \in bad : i < j}
      BY <1>1 DEF commands, n, Readable
    <2>2. /\ k <= n /\ \A j \in 1 .. k : commands[j] \notin Unreadable
          /\ 1 + k <= n => commands[1 + k] \in Unreadable
      BY <1>1, <1>13
    <2> HIDE DEF bad
    <2>3. ASSUME NEW i \in 1 .. k PROVE i \in Readable(c)
      <3>1. i \in 1 .. n
        BY <1>1, <2>2
      <3>2. \A j \in bad : i < j
        BY <1>1, <2>1, <2>2
      <3> QED BY <2>1, <3>1, <3>2
    <2>4. ASSUME NEW i \in Readable(c) PROVE i \in 1 .. k
      <3>1. i \in 1 .. n /\ \A j \in bad : i < j
        BY <2>1
      <3>2. 1 + k <= n => 1 + k \in bad
        BY <1>1, <2>1, <2>2
      <3> QED BY <1>1, <3>1, <3>2
    <2> QED BY <2>2, <2>3, <2>4
  <1> QED BY <1>14, <1>15, <1>16 DEF buf, commands, n

----------------------------------------------------------------------------
(* Counting: what the ApmAnalyzer holds *)

\* The actions of a player in the chunks up to the k-th that is counted, and those that belong to a window.
Actions(m, p, k) ==
    {at \in (Counted(m) \cap 1 .. k) \X UNION {Readable(m.chunks[i]) : i \in Counted(m)} :
        at[2] \in Readable(m.chunks[at[1]]) /\ Owner[m.chunks[at[1]].commands[at[2]]] = p - 1}
ActionsIn(m, p, k, w) == {at \in Actions(m, p, k) : LatestWindow(m, at[1]) = w}
ActionsBefore(m, p, k, w) == {at \in Actions(m, p, k) : LatestWindow(m, at[1]) < w}

\* The window that is open once the chunks up to the k-th are counted.
OpenWindow(m, k) == IF Counted(m) \cap 1 .. k = {} THEN 0 ELSE LatestWindow(m, k)

\* The players a plot has lines for.
Named(m) == {p \in DOMAIN m.players : m.players[p] # ""}

\* What the ApmAnalyzer holds once the chunks up to the k-th are counted.
Tallied(a, m, k) ==
    /\ DOMAIN a.plot = Named(m) /\ DOMAIN a.leading = Named(m) /\ DOMAIN a.trailing = Named(m)
    /\ \A p \in Named(m) :
          /\ IsFiniteSet(Actions(m, p, k))
          /\ a.leading[p] = Cardinality(Actions(m, p, k))
          /\ a.trailing[p] = Cardinality(ActionsBefore(m, p, k, OpenWindow(m, k)))
          /\ a.plot[p] = [w \in 1 .. OpenWindow(m, k) |-> Cardinality(ActionsIn(m, p, k, w - 1))]

\* While the analysis runs, what it holds is what the chunks before the next one say.
Analysis ==
    /\ match \in Matches
    /\ analysis.state \in {"none", "running", "done"}
    /\ analysis.state = "running" =>
          /\ analysis.next \in 1 .. Len(match.chunks) + 1
          /\ \A j \in 1 .. analysis.next - 1 :
                match.chunks[j].type = 1 => match.chunks[j].lead = 1 /\ match.chunks[j].announced <= MaxCommands
          /\ analysis = [state |-> "running", next |-> analysis.next, leading |-> analysis.leading,
                         trailing |-> analysis.trailing, plot |-> analysis.plot]
          /\ Tallied(analysis, match, analysis.next - 1)
    /\ ActionsAreCounted

\* The byte behind a command's id is that of its player.
LEMMA OwnersAreMangled ==
    ASSUME NEW c \in DOMAIN Encoding
    PROVE  UnmanglePlayerIdx(At(Encoding[c], 1)) = Owner[c]
  <1>1. c \in {"short", "words", "late", "fixed", "records", "brief", "long", "strings", "watcher", "nobody", "unknown", "cut"}
    BY DEF Encoding
  <1>2. At(Encoding[c], 1) = Encoding[c][2]
    BY DEF At
  <1>3. Encoding[c][2] = CASE c \in {"words", "fixed", "brief", "strings"} -> 32 [] c = "watcher" -> 40
                           [] c = "nobody" -> 16 [] OTHER -> 24
    <2>1. /\ Encoding.short[2] = 24 /\ Encoding.late[2] = 24 /\ Encoding.unknown[2] = 24 /\ Encoding.cut[2] = 24
          /\ Encoding.fixed[2] = 32 /\ Encoding.brief[2] = 32 /\ Encoding.strings[2] = 32
          /\ Encoding.watcher[2] = 40 /\ Encoding.nobody[2] = 16
      BY DEF Encoding
    <2>2. Encoding.words[2] = 32 /\ Encoding.records[2] = 24 /\ Encoding.long[2] = 24
      BY DEF Encoding
    <2> QED BY <1>1, <2>1, <2>2
  <1>4. Owner[c] = CASE c \in {"words", "fixed", "brief", "strings"} -> 1 [] c = "watcher" -> 2
                     [] c = "nobody" -> None [] OTHER -> 0
    BY <1>1 DEF Owner
  <1>5. /\ UnmanglePlayerIdx(24) = 0 /\ UnmanglePlayerIdx(32) = 1 /\ UnmanglePlayerIdx(40) = 2
        /\ UnmanglePlayerIdx(16) = None
    BY DEF UnmanglePlayerIdx
  <1> QED BY <1>1, <1>2, <1>3, <1>4, <1>5

\* Count adds to each player what the readable commands of the chunk say are that player's.
LEMMA ReadableIsCounted ==
    ASSUME NEW c \in ChunkRecords, CutIsLast(c.commands), NEW p
    PROVE  LET commands == FramesFrom(Buffer(c)).commands IN
              /\ {i \in DOMAIN commands : UnmanglePlayerIdx(At(commands[i], 1)) = p - 1}
                    = {j \in Readable(c) : Owner[c.commands[j]] = p - 1}
              /\ IsFiniteSet(Readable(c)) /\ Readable(c) \subseteq Nat
  <1> DEFINE commands == FramesFrom(Buffer(c)).commands
  <1>1. PICK k \in Nat : /\ k <= Len(c.commands) /\ Readable(c) = 1 .. k
                         /\ commands = [i \in 1 .. k |-> Encoding[c.commands[i]]]
    BY FramesAreCommands
  <1> HIDE DEF commands
  <1>2. c.commands \in Seq(DOMAIN Encoding)
    BY DEF ChunkRecords
  <1>3. ASSUME NEW i \in 1 .. k PROVE UnmanglePlayerIdx(At(commands[i], 1)) = Owner[c.commands[i]]
    <2>1. c.commands[i] \in DOMAIN Encoding
      BY <1>1, <1>2
    <2>2. commands[i] = Encoding[c.commands[i]]
      BY <1>1
    <2> QED BY <2>1, <2>2, OwnersAreMangled
  <1>4. DOMAIN commands = 1 .. k
    BY <1>1
  <1>5. IsFiniteSet(1 .. k)
    <2>1. 1 \in Int /\ k \in Int
      OBVIOUS
    <2> QED BY ONLY <2>1, FS_Interval
  <1> QED BY <1>1, <1>3, <1>4, <1>5 DEF commands

\* What the chunks of a match are, and those that are counted.
LEMMA CountedChunks ==
    ASSUME NEW m \in Matches
    PROVE  /\ Len(m.chunks) \in Nat /\ DOMAIN m.chunks = 1 .. Len(m.chunks)
           /\ Counted(m) \subseteq 1 .. Len(m.chunks)
           /\ \A i \in 1 .. Len(m.chunks) :
                 m.chunks[i] \in ChunkRecords /\ CutIsLast(m.chunks[i].commands) /\ WindowOf(m.chunks[i].time) \in Nat
  <1>1. m \in MatchRecords /\ \A i \in DOMAIN m.chunks : CutIsLast(m.chunks[i].commands)
    BY MatchAssumption
  <1>2. m.chunks \in Seq(ChunkRecords)
    BY <1>1 DEF MatchRecords
  <1>3. ASSUME NEW c \in ChunkRecords PROVE WindowOf(c.time) \in Nat
    <2>1. c.time \in Nat /\ TicksPerWindow \in Nat \ {0}
      BY AnalysisAssumption DEF ChunkRecords
    <2> QED BY <2>1 DEF WindowOf
  <1> QED BY <1>1, <1>2, <1>3 DEF Counted

\* Of the windows of the chunks up to a place, one is the latest.
LEMMA LatestExists ==
    ASSUME NEW m \in Matches, NEW k \in Nat, Counted(m) \cap 1 .. k # {}
    PROVE  \E j \in Counted(m) \cap 1 .. k : \A i \in Counted(m) \cap 1 .. k :
              WindowOf(m.chunks[i].time) <= WindowOf(m.chunks[j].time)
  <1> DEFINE C == Counted(m)
             W(i) == WindowOf(m.chunks[i].time)
             Has(n) == C \cap 1 .. n = {} \/ \E j \in C \cap 1 .. n : \A i \in C \cap 1 .. n : W(i) <= W(j)
  <1>1. \A i \in C : W(i) \in Nat /\ i \in Nat
    BY CountedChunks
  <1> HIDE DEF C, W
  <1>2. Has(0)
    OBVIOUS
  <1>3. ASSUME NEW n \in Nat, Has(n) PROVE Has(n + 1)
    <2>1. 1 .. n + 1 = (1 .. n) \cup {n + 1}
      OBVIOUS
    <2>2. CASE n + 1 \notin C
      <3>1. C \cap 1 .. n + 1 = C \cap 1 .. n
        BY <2>1, <2>2
      <3> QED BY <1>3, <3>1
    <2>3. CASE n + 1 \in C
      <3>1. C \cap 1 .. n + 1 = (C \cap 1 .. n) \cup {n + 1}
        BY <2>1, <2>3
      <3> DEFINE D == C \cap 1 .. n
      <3>2. D \subseteq C
        OBVIOUS
      <3>3. D = {} \/ \E j \in D : \A i \in D : W(i) <= W(j)
        BY <1>3
      <3> HIDE DEF D
      <3>4. \E j \in D \cup {n + 1} : \A i \in D \cup {n + 1} : W(i) <= W(j)
        <4>1. CASE D = {}
          BY <1>1, <2>3, <4>1
        <4>2. CASE D # {}
          <5>1. PICK j \in D : \A i \in D : W(i) <= W(j)
            BY <3>3, <4>2
          <5>2. CASE W(n + 1) <= W(j)
            BY <5>1, <5>2
          <5>3. CASE ~(W(n + 1) <= W(j))
            BY <1>1, <2>3, <3>2, <5>1, <5>3
          <5> QED BY <5>2, <5>3
        <4> QED BY <4>1, <4>2
      <3> QED BY <3>1, <3>4 DEF D
    <2> QED BY <2>2, <2>3
  <1>4. Has(k)
    <2> DEFINE T == {n \in 0 .. k : Has(n)}
    <2> HIDE DEF Has
    <2>1. ASSUME NEW x \in 0 .. k, \A y \in 0 .. x - 1 : y \in T PROVE x \in T
      <3>1. CASE x = 0
        BY <1>2, <3>1
      <3>2. CASE x # 0
        <4>1. x - 1 \in 0 .. x - 1 /\ x - 1 \in Nat /\ x - 1 + 1 = x
          BY <3>2
        <4>2. Has(x - 1)
          BY <2>1, <4>1
        <4>3. Has(x - 1 + 1)
          BY <1>3, <4>1, <4>2
        <4> QED BY <4>1, <4>3
      <3> QED BY <3>1, <3>2
    <2>2. T \in SUBSET (0 .. k) /\ 0 \in Int /\ k \in Int
      OBVIOUS
    <2> HIDE DEF T
    <2>3. T = 0 .. k
      BY ONLY <2>1, <2>2, UpwardInduction
    <2> QED BY <2>3 DEF T
  <1> QED BY <1>4 DEF C, W

\* LatestWindow is the window of a chunk that is counted, and none of them has a later one.
LEMMA LatestIsLatest ==
    ASSUME NEW m \in Matches, NEW k \in Nat, Counted(m) \cap 1 .. k # {}
    PROVE  /\ LatestWindow(m, k) \in Nat
           /\ \E j \in Counted(m) \cap 1 .. k : LatestWindow(m, k) = WindowOf(m.chunks[j].time)
           /\ \A i \in Counted(m) \cap 1 .. k : WindowOf(m.chunks[i].time) <= LatestWindow(m, k)
  <1> DEFINE D == Counted(m) \cap 1 .. k
             windows == {WindowOf(m.chunks[j].time) : j \in D}
  <1>1. \E w \in windows : \A v \in windows : v <= w
    BY LatestExists
  <1>2. LatestWindow(m, k) = CHOOSE w \in windows : \A v \in windows : v <= w
    BY DEF LatestWindow
  <1>3. LatestWindow(m, k) \in windows /\ \A v \in windows : v <= LatestWindow(m, k)
    <2> HIDE DEF windows
    <2> QED BY <1>1, <1>2
  <1>4. \A j \in D : WindowOf(m.chunks[j].time) \in Nat
    BY CountedChunks
  <1> HIDE DEF D
  <1>5. LatestWindow(m, k) \in Nat /\ \A i \in D : WindowOf(m.chunks[i].time) <= LatestWindow(m, k)
    BY <1>3, <1>4
  <1>6. \E j \in D : LatestWindow(m, k) = WindowOf(m.chunks[j].time)
    BY <1>3
  <1> QED BY <1>5, <1>6 DEF D

\* How the window that is open moves from a chunk to the next.
LEMMA OpenWindowMoves ==
    ASSUME NEW m \in Matches, NEW k \in Nat
    PROVE  /\ OpenWindow(m, k) \in Nat
           /\ \A i \in Counted(m) \cap 1 .. k : LatestWindow(m, i) \in Nat /\ LatestWindow(m, i) <= OpenWindow(m, k)
           /\ k + 1 \notin Counted(m) => OpenWindow(m, k + 1) = OpenWindow(m, k)
           /\ k + 1 \in Counted(m) =>
                 LET w == WindowOf(m.chunks[k + 1].time) IN
                    /\ LatestWindow(m, k + 1) = OpenWindow(m, k + 1)
                    /\ OpenWindow(m, k + 1) = IF w <= OpenWindow(m, k) THEN OpenWindow(m, k) ELSE w
  <1> DEFINE C == Counted(m)
             W(i) == WindowOf(m.chunks[i].time)
  <1>1. \A i \in C : W(i) \in Nat /\ i \in Nat /\ i >= 1
    BY CountedChunks
  <1>2. ASSUME NEW n \in Nat, C \cap 1 .. n # {}
        PROVE  /\ LatestWindow(m, n) \in Nat
               /\ \E j \in C \cap 1 .. n : LatestWindow(m, n) = W(j)
               /\ \A i \in C \cap 1 .. n : W(i) <= LatestWindow(m, n)
    BY <1>2, LatestIsLatest
  <1> HIDE DEF C, W
  <1>3. OpenWindow(m, k) \in Nat
    BY <1>2 DEF OpenWindow, C
  <1>4. ASSUME NEW i \in C \cap 1 .. k PROVE LatestWindow(m, i) \in Nat /\ LatestWindow(m, i) <= OpenWindow(m, k)
    <2>1. i \in Nat /\ i \in C \cap 1 .. i /\ C \cap 1 .. i \subseteq C \cap 1 .. k
      BY <1>1
    <2>2. LatestWindow(m, i) \in Nat /\ \E j \in C \cap 1 .. i : LatestWindow(m, i) = W(j)
      BY <1>2, <2>1
    <2>3. OpenWindow(m, k) = LatestWindow(m, k)
      BY DEF OpenWindow, C
    <2>4. \A j \in C \cap 1 .. k : W(j) <= LatestWindow(m, k)
      BY <1>2
    <2> QED BY <2>1, <2>2, <2>3, <2>4
  <1>5. 1 .. k + 1 = (1 .. k) \cup {k + 1}
    OBVIOUS
  <1>6. ASSUME k + 1 \notin C PROVE OpenWindow(m, k + 1) = OpenWindow(m, k)
    <2>1. C \cap 1 .. k + 1 = C \cap 1 .. k
      BY <1>5, <1>6
    <2>2. LatestWindow(m, k + 1) = LatestWindow(m, k)
      BY <2>1 DEF LatestWindow, C
    <2> QED BY <2>1, <2>2 DEF OpenWindow, C
  <1>7. ASSUME k + 1 \in C
        PROVE  /\ LatestWindow(m, k + 1) = OpenWindow(m, k + 1)
               /\ OpenWindow(m, k + 1) = IF W(k + 1) <= OpenWindow(m, k) THEN OpenWindow(m, k) ELSE W(k + 1)
    <2> DEFINE D == C \cap 1 .. k
               L == LatestWindow(m, k + 1)
    <2>1. C \cap 1 .. k + 1 = D \cup {k + 1}
      BY <1>5, <1>7
    <2>2. OpenWindow(m, k + 1) = L
      BY <2>1 DEF OpenWindow, C
    <2>3. L \in Nat /\ (\E j \in D \cup {k + 1} : L = W(j)) /\ \A i \in D \cup {k + 1} : W(i) <= L
      <3>1. C \cap 1 .. k + 1 # {} /\ k + 1 \in Nat
        BY <2>1
      <3> QED BY <1>2, <2>1, <3>1
    <2>4. W(k + 1) \in Nat
      BY <1>1, <1>7
    <2>5. CASE D = {}
      <3>1. OpenWindow(m, k) = 0
        BY <2>5 DEF OpenWindow, C
      <3>2. L = W(k + 1)
        BY <2>3, <2>5
      <3> QED BY <2>2, <2>4, <3>1, <3>2
    <2>6. CASE D # {}
      <3> DEFINE O == OpenWindow(m, k)
      <3>1. O = LatestWindow(m, k)
        BY <2>6 DEF OpenWindow, C
      <3>2. O \in Nat /\ (\E j \in D : O = W(j)) /\ \A i \in D : W(i) <= O
        BY <1>2, <2>6, <3>1
      <3> HIDE DEF O, L, D
      <3>3. L = IF W(k + 1) <= O THEN O ELSE W(k + 1)
        <4>1. W(k + 1) <= L /\ O <= L
          BY <2>3, <3>2
        <4>2. L = W(k + 1) \/ L <= O
          BY <2>3, <3>2
        <4> QED BY <2>3, <2>4, <3>2, <4>1, <4>2
      <3> QED BY <2>2, <3>3 DEF O, L
    <2> QED BY <2>5, <2>6
  <1> QED BY <1>3, <1>4, <1>6, <1>7 DEF C, W

\* A pair of a place and each element of a finite set: as many as the set has.
LEMMA PairsAreAsMany ==
    ASSUME NEW J, IsFiniteSet(J), NEW k
    PROVE  IsFiniteSet({k} \X J) /\ Cardinality({k} \X J) = Cardinality(J)
  <1> DEFINE f == [j \in J |-> <<k, j>>]
             P == {k} \X J
  <1>1. f \in Bijection(J, P)
    <2>1. f \in [J -> P]
      OBVIOUS
    <2>2. \A a, b \in J : f[a] = f[b] => a = b
      OBVIOUS
    <2>3. \A t \in P : \E s \in J : f[s] = t
      OBVIOUS
    <2> HIDE DEF f, P
    <2> QED BY <2>1, <2>2, <2>3 DEF Bijection, Injection, Surjection, IsInjective
  <1>2. ExistsBijection(J, P)
    BY <1>1 DEF ExistsBijection
  <1> HIDE DEF f, P
  <1>3. IsFiniteSet(P) /\ Cardinality(P) = Cardinality(J)
    BY ONLY <1>2, IsFiniteSet(J), FS_Bijection
  <1> QED BY <1>3 DEF P

\* The actions of a chunk that is counted join those of the chunks before it.
LEMMA ActionsJoin ==
    ASSUME NEW m \in Matches, NEW k \in Nat, NEW p
    PROVE  /\ k + 1 \notin Counted(m) => Actions(m, p, k + 1) = Actions(m, p, k)
           /\ k + 1 \in Counted(m) =>
                 LET c == m.chunks[k + 1] IN
                    Actions(m, p, k + 1)
                       = Actions(m, p, k) \cup ({k + 1} \X {j \in Readable(c) : Owner[c.commands[j]] = p - 1})
  <1> DEFINE C == Counted(m)
             U == UNION {Readable(m.chunks[i]) : i \in C}
             Is(i, j) == j \in Readable(m.chunks[i]) /\ Owner[m.chunks[i].commands[j]] = p - 1
             J == {j \in Readable(m.chunks[k + 1]) : Owner[m.chunks[k + 1].commands[j]] = p - 1}
  <1>1. \A n : Actions(m, p, n) = {at \in (C \cap 1 .. n) \X U : Is(at[1], at[2])}
    BY DEF Actions
  <1>2. 1 .. k + 1 = (1 .. k) \cup {k + 1}
    OBVIOUS
  <1>3. \A i \in C : \A j : Is(i, j) => j \in U
    OBVIOUS
  <1>4. \A j : j \in J <=> Is(k + 1, j)
    OBVIOUS
  <1> HIDE DEF C, U, Is, J
  <1>5. ASSUME k + 1 \notin C PROVE Actions(m, p, k + 1) = Actions(m, p, k)
    <2>1. C \cap 1 .. k + 1 = C \cap 1 .. k
      BY <1>2, <1>5
    <2> QED BY <1>1, <2>1
  <1>6. ASSUME k + 1 \in C PROVE Actions(m, p, k + 1) = Actions(m, p, k) \cup ({k + 1} \X J)
    <2> DEFINE D == C \cap 1 .. k
    <2>1. C \cap 1 .. k + 1 = D \cup {k + 1}
      BY <1>2, <1>6
    <2>2. \A j : Is(k + 1, j) => j \in U
      BY <1>3, <1>6
    <2>3. /\ Actions(m, p, k + 1) = {at \in (D \cup {k + 1}) \X U : Is(at[1], at[2])}
          /\ Actions(m, p, k) = {at \in D \X U : Is(at[1], at[2])}
      BY <1>1, <2>1
    <2> HIDE DEF D
    <2>4. {at \in (D \cup {k + 1}) \X U : Is(at[1], at[2])} = {at \in D \X U : Is(at[1], at[2])} \cup ({k + 1} \X J)
      BY <1>4, <2>2
    <2> QED BY <2>3, <2>4
  <1> QED BY <1>5, <1>6 DEF C, J

\* Every action is one of a chunk that is counted, and in a window up to the one that is open.
LEMMA ActionsAreInWindows ==
    ASSUME NEW m \in Matches, NEW k \in Nat, NEW p, NEW at \in Actions(m, p, k)
    PROVE  /\ at[1] \in Counted(m) \cap 1 .. k
           /\ LatestWindow(m, at[1]) \in Nat /\ LatestWindow(m, at[1]) <= OpenWindow(m, k)
  <1>1. at[1] \in Counted(m) \cap 1 .. k
    BY DEF Actions
  <1> QED BY <1>1, OpenWindowMoves

\* The actions of the window that is open are those that are not before it; later windows have none.
LEMMA ActionsOfTheOpenWindow ==
    ASSUME NEW m \in Matches, NEW k \in Nat, NEW p, IsFiniteSet(Actions(m, p, k))
    PROVE  LET open == OpenWindow(m, k)
               all == Actions(m, p, k)
           IN /\ Cardinality(all) \in Nat
              /\ Cardinality(ActionsIn(m, p, k, open)) = Cardinality(all) - Cardinality(ActionsBefore(m, p, k, open))
              /\ \A w \in Nat : w > open => /\ Cardinality(ActionsIn(m, p, k, w)) = 0
                                            /\ ActionsBefore(m, p, k, w) = all
  <1> DEFINE open == OpenWindow(m, k)
             A == Actions(m, p, k)
             B == ActionsBefore(m, p, k, open)
             I == ActionsIn(m, p, k, open)
             L(at) == LatestWindow(m, at[1])
  <1>1. open \in Nat
    BY OpenWindowMoves
  <1>2. \A at \in A : L(at) \in Nat /\ L(at) <= open
    BY ActionsAreInWindows
  <1>3. B = {at \in A : L(at) < open} /\ I = {at \in A : L(at) = open}
    BY DEF ActionsBefore, ActionsIn
  <1>4. \A w : ActionsIn(m, p, k, w) = {at \in A : L(at) = w} /\ ActionsBefore(m, p, k, w) = {at \in A : L(at) < w}
    BY DEF ActionsBefore, ActionsIn
  <1> HIDE DEF open, A, B, I, L
  <1>5. B \subseteq A /\ I = A \ B
    BY <1>1, <1>2, <1>3
  <1>6. IsFiniteSet(A)
    BY DEF A
  <1>7. Cardinality(A) \in Nat
    BY ONLY <1>6, FS_CardinalityType
  <1>8. Cardinality(A \ B) = Cardinality(A) - Cardinality(A \cap B)
    BY ONLY <1>6, FS_Difference
  <1>9. A \cap B = B
    BY <1>5
  <1>10. Cardinality(I) = Cardinality(A) - Cardinality(B)
    BY ONLY <1>5, <1>8, <1>9
  <1>11. ASSUME NEW w \in Nat, w > open
         PROVE  Cardinality(ActionsIn(m, p, k, w)) = 0 /\ ActionsBefore(m, p, k, w) = A
    <2>1. ActionsIn(m, p, k, w) = {} /\ ActionsBefore(m, p, k, w) = A
      BY <1>1, <1>2, <1>4, <1>11
    <2>2. Cardinality({}) = 0
      BY ONLY FS_EmptySet
    <2> QED BY ONLY <2>1, <2>2
  <1> QED BY <1>7, <1>10, <1>11 DEF open, A, B, I

\* What a chunk adds to the actions is as many as its commands of that player, all in the window it opens.
LEMMA ActionsOfAChunk ==
    ASSUME NEW m \in Matches, NEW k \in Nat, NEW p, k + 1 \in Counted(m), IsFiniteSet(Actions(m, p, k))
    PROVE  LET open == OpenWindow(m, k + 1)
               c == m.chunks[k + 1]
           IN /\ IsFiniteSet(Actions(m, p, k + 1))
              /\ Cardinality(Actions(m, p, k + 1))
                    = Cardinality(Actions(m, p, k)) + Cardinality({j \in Readable(c) : Owner[c.commands[j]] = p - 1})
              /\ Cardinality({j \in Readable(c) : Owner[c.commands[j]] = p - 1}) \in Nat
              /\ \A w : w # open => ActionsIn(m, p, k + 1, w) = ActionsIn(m, p, k, w)
              /\ ActionsBefore(m, p, k + 1, open) = ActionsBefore(m, p, k, open)
  <1> DEFINE open == OpenWindow(m, k + 1)
             c == m.chunks[k + 1]
             J == {j \in Readable(c) : Owner[c.commands[j]] = p - 1}
             A == Actions(m, p, k)
             N == {k + 1} \X J
             L(at) == LatestWindow(m, at[1])
  <1>1. open \in Nat /\ LatestWindow(m, k + 1) = open
    BY OpenWindowMoves
  <1>2. c \in ChunkRecords /\ CutIsLast(c.commands)
    BY CountedChunks
  <1>3. IsFiniteSet(Readable(c))
    BY <1>2, ReadableIsCounted
  <1>4. J \in SUBSET Readable(c)
    OBVIOUS
  <1>5. Actions(m, p, k + 1) = A \cup N
    BY ActionsJoin
  <1>6. \A at \in A : at[1] \in 1 .. k
    BY ActionsAreInWindows
  <1>7. \A at \in N : at[1] = k + 1 /\ L(at) = open
    BY <1>1
  <1>8. A \cap N = {}
    BY <1>6, <1>7
  <1>9. \A w : /\ ActionsIn(m, p, k, w) = {at \in A : L(at) = w}
               /\ ActionsIn(m, p, k + 1, w) = {at \in A \cup N : L(at) = w}
               /\ ActionsBefore(m, p, k, w) = {at \in A : L(at) < w}
               /\ ActionsBefore(m, p, k + 1, w) = {at \in A \cup N : L(at) < w}
    BY <1>5 DEF ActionsIn, ActionsBefore
  <1> HIDE DEF open, c, J, A, L
  <1>10. IsFiniteSet(J)
    BY ONLY <1>3, <1>4, FS_Subset
  <1>11. IsFiniteSet(N) /\ Cardinality(N) = Cardinality(J)
    BY ONLY <1>10, PairsAreAsMany
  <1>12. IsFiniteSet(A)
    BY DEF A
  <1> HIDE DEF N
  <1>13. IsFiniteSet(A \cup N) /\ Cardinality(A \cup N) = Cardinality(A) + Cardinality(N) - Cardinality(A \cap N)
    BY ONLY <1>11, <1>12, FS_Union
  <1>14. Cardinality(A) \in Nat
    BY ONLY <1>12, FS_CardinalityType
  <1>15. Cardinality(J) \in Nat
    BY ONLY <1>10, FS_CardinalityType
  <1>16. Cardinality(A \cap N) = 0
    BY ONLY <1>8, FS_EmptySet
  <1>17. Cardinality(A \cup N) = Cardinality(A) + Cardinality(J)
    BY ONLY <1>11, <1>13, <1>14, <1>15, <1>16, SMT
  <1>18. ASSUME NEW w, w # open PROVE ActionsIn(m, p, k + 1, w) = ActionsIn(m, p, k, w)
    <2>1. /\ ActionsIn(m, p, k, w) = {at \in A : L(at) = w}
          /\ ActionsIn(m, p, k + 1, w) = {at \in A \cup N : L(at) = w}
      BY ONLY <1>9
    <2>2. {at \in A \cup N : L(at) = w} = {at \in A : L(at) = w}
      BY ONLY <1>7, <1>18
    <2> QED BY ONLY <2>1, <2>2
  <1>19. ActionsBefore(m, p, k + 1, open) = ActionsBefore(m, p, k, open)
    <2>1. /\ ActionsBefore(m, p, k, open) = {at \in A : L(at) < open}
          /\ ActionsBefore(m, p, k + 1, open) = {at \in A \cup N : L(at) < open}
      BY ONLY <1>9
    <2>2. {at \in A \cup N : L(at) < open} = {at \in A : L(at) < open}
      BY ONLY <1>1, <1>7
    <2> QED BY ONLY <2>1, <2>2
  <1> QED BY <1>5, <1>13, <1>15, <1>17, <1>18, <1>19 DEF open, c, J, A

\* The players who are named come first, and are those the analysis is made for.
LEMMA NamedComeFirst ==
    ASSUME NEW m \in Matches
    PROVE  /\ DOMAIN Analysed(m.players) = Named(m)
           /\ Named(m) # {} => 1 \in Named(m)
           /\ Named(m) \subseteq Nat \ {0}
  <1> DEFINE s == m.players
             n == Len(s)
  <1>1. s \in Seq(STRING)
    BY MatchAssumption DEF MatchRecords
  <1>2. Named(m) = {p \in DOMAIN s : s[p] # ""}
    BY DEF Named
  <1>3. \A p \in 1 .. n - 1 : s[p] # ""
    BY MatchAssumption DEF OthersAreNamed
  <1> HIDE DEF s
  <1>4. n \in Nat /\ DOMAIN s = 1 .. n
    BY <1>1
  <1>5. CASE s = <<>>
    BY <1>2, <1>5 DEF Analysed, s
  <1>6. CASE s # <<>>
    <2>1. n >= 1
      BY <1>1, <1>4, <1>6
    <2>2. Last(s) = s[n]
      BY DEF Last
    <2>3. CASE s[n] = ""
      <3>1. Analysed(s) = SubSeq(s, 1, n - 1)
        BY <1>6, <2>2, <2>3 DEF Analysed, Front
      <3>2. DOMAIN SubSeq(s, 1, n - 1) = 1 .. n - 1
        BY <1>1, <1>4, <2>1
      <3>3. \A p \in 1 .. n : s[p] # "" <=> p \in 1 .. n - 1
        <4> HIDE DEF n
        <4>1. n \notin 1 .. n - 1 /\ \A p \in 1 .. n : p = n \/ p \in 1 .. n - 1
          BY ONLY <1>4, <2>1
        <4> QED BY ONLY <1>3, <2>3, <4>1
      <3>4. Named(m) = 1 .. n - 1
        <4>1. \A p : p \in 1 .. n - 1 => p \in 1 .. n
          BY ONLY <1>4
        <4> QED BY ONLY <1>2, <1>4, <3>3, <4>1
      <3> HIDE DEF n
      <3> QED BY <1>4, <3>1, <3>2, <3>4 DEF s
    <2>4. CASE s[n] # ""
      <3>1. Analysed(s) = s
        BY <2>2, <2>4 DEF Analysed
      <3>2. Named(m) = 1 .. n
        <4> HIDE DEF n
        <4>1. \A p \in 1 .. n : p = n \/ p \in 1 .. n - 1
          BY ONLY <1>4, <2>1
        <4>2. \A p \in 1 .. n : s[p] # ""
          BY ONLY <1>3, <2>4, <4>1
        <4> QED BY ONLY <1>2, <1>4, <4>2
      <3> HIDE DEF n
      <3> QED BY <1>4, <2>1, <3>1, <3>2 DEF s
    <2> QED BY <2>3, <2>4
  <1> QED BY <1>5, <1>6

\* The parts of what the ApmAnalyzer holds.
Tally(a) == a = [state |-> a.state, next |-> a.next, leading |-> a.leading, trailing |-> a.trailing, plot |-> a.plot]

\* Windows are closed with what was counted since the one before, up to the window of the chunk.
LEMMA AdvanceClosesWindows ==
    ASSUME NEW m \in Matches, NEW k \in Nat, k + 1 \in Counted(m), NEW a, Tally(a), Tallied(a, m, k)
    PROVE  LET b == Advance(a, m.chunks[k + 1].time)
               open == OpenWindow(m, k + 1)
           IN /\ Tally(b) /\ b.state = a.state /\ b.next = a.next /\ b.leading = a.leading
              /\ DOMAIN b.plot = Named(m) /\ DOMAIN b.trailing = Named(m)
              /\ \A p \in Named(m) :
                    /\ b.trailing[p] = Cardinality(ActionsBefore(m, p, k, open))
                    /\ b.plot[p] = [w \in 1 .. open |-> Cardinality(ActionsIn(m, p, k, w - 1))]
  <1> DEFINE time == m.chunks[k + 1].time
             closed == IF a.plot = <<>> THEN 0 ELSE Len(a.plot[1])
             missing == WindowOf(time) - closed
             points(p) == [w \in 1 .. missing |-> IF w = 1 THEN a.leading[p] - a.trailing[p] ELSE 0]
             b == Advance(a, time)
             plot == [p \in DOMAIN a.plot |-> a.plot[p] \o points(p)]
             old == OpenWindow(m, k)
             open == OpenWindow(m, k + 1)
             N == Named(m)
  <1>1. b = IF missing <= 0 THEN a ELSE [a EXCEPT !.plot = plot, !.trailing = a.leading]
    BY DEF Advance
  <1>2. old \in Nat /\ WindowOf(time) \in Nat /\ open = IF WindowOf(time) <= old THEN old ELSE WindowOf(time)
    BY OpenWindowMoves, CountedChunks
  <1>3. DOMAIN a.plot = N /\ DOMAIN a.leading = N /\ DOMAIN a.trailing = N
    BY DEF Tallied
  <1>4. \A p \in N : /\ IsFiniteSet(Actions(m, p, k))
                     /\ a.leading[p] = Cardinality(Actions(m, p, k))
                     /\ a.trailing[p] = Cardinality(ActionsBefore(m, p, k, old))
                     /\ a.plot[p] = [w \in 1 .. old |-> Cardinality(ActionsIn(m, p, k, w - 1))]
    BY DEF Tallied
  <1>5. N # {} => closed = old
    <2>1. SUFFICES ASSUME N # {} PROVE closed = old
      OBVIOUS
    <2>2. 1 \in N
      BY <2>1, NamedComeFirst
    <2>3. a.plot # <<>>
      <3>1. DOMAIN <<>> = {}
        OBVIOUS
      <3> HIDE DEF N
      <3> QED BY <1>3, <2>2, <3>1
    <2>4. Len(a.plot[1]) = old
      <3> DEFINE f == [w \in 1 .. old |-> Cardinality(ActionsIn(m, 1, k, w - 1))]
      <3>1. a.plot[1] = f
        BY <1>4, <2>2
      <3>2. DOMAIN f = 1 .. old
        OBVIOUS
      <3> HIDE DEF f, old
      <3> QED BY <1>2, <3>1, <3>2
    <2> QED BY <2>3, <2>4
  <1> HIDE DEF closed, points, old, open, N, b
  <1>6. CASE missing <= 0
    <2>1. b = a
      BY <1>1, <1>6
    <2>2. N # {} => open = old
      <3> HIDE DEF time
      <3> QED BY <1>2, <1>5, <1>6
    <2>3. \A p \in N : open = old
      BY <2>2
    <2> QED BY <1>3, <1>4, <2>1, <2>3 DEF b, time, open, N
  <1>7. CASE ~(missing <= 0)
    <2> HIDE DEF plot, missing
    <2>1. b = [a EXCEPT !.plot = plot, !.trailing = a.leading]
      BY <1>1, <1>7
    <2>2. b = [state |-> a.state, next |-> a.next, leading |-> a.leading, trailing |-> a.leading, plot |-> plot]
      BY <2>1 DEF Tally
    <2>3. DOMAIN plot = N
      BY <1>3 DEF plot
    <2>4. ASSUME NEW p \in N
          PROVE  /\ a.leading[p] = Cardinality(ActionsBefore(m, p, k, open))
                 /\ plot[p] = [w \in 1 .. open |-> Cardinality(ActionsIn(m, p, k, w - 1))]
      <3> DEFINE all == Cardinality(Actions(m, p, k))
                 before == Cardinality(ActionsBefore(m, p, k, old))
                 In(w) == Cardinality(ActionsIn(m, p, k, w))
                 f == [w \in 1 .. old |-> In(w - 1)]
                 g == [w \in 1 .. missing |-> IF w = 1 THEN all - before ELSE 0]
      <3>1. closed = old /\ open = WindowOf(time) /\ open > old /\ missing = open - old
        <4>1. closed = old
          BY <1>5, <2>4
        <4>2. missing = WindowOf(time) - closed
          BY DEF missing
        <4> HIDE DEF time
        <4> QED BY <1>2, <1>7, <4>1, <4>2
      <3>2. /\ all \in Nat /\ In(old) = all - before
            /\ \A w \in Nat : w > old => In(w) = 0 /\ ActionsBefore(m, p, k, w) = Actions(m, p, k)
        BY <1>4, <2>4, ActionsOfTheOpenWindow DEF old
      <3>3. open \in Nat
        BY <1>2
      <3>4. a.leading[p] = all /\ a.leading[p] = Cardinality(ActionsBefore(m, p, k, open))
        BY <1>4, <2>4, <3>1, <3>2, <3>3
      <3>5. plot[p] = f \o g
        BY <1>3, <1>4, <2>4 DEF plot, points
      <3> HIDE DEF all, before, In
      <3>6. \A w \in 1 .. old : f[w] = In(w - 1)
        OBVIOUS
      <3>7. \A w \in 1 .. missing : g[w] = IF w = 1 THEN all - before ELSE 0
        OBVIOUS
      <3>8. f \in Seq({In(w) : w \in Int}) /\ Len(f) = old
        <4>1. f \in [1 .. old -> {In(w) : w \in Int}]
          BY <1>2
        <4> HIDE DEF f
        <4> QED BY <1>2, <4>1
      <3>9. g \in Seq({all - before, 0}) /\ Len(g) = missing
        <4>1. g \in [1 .. missing -> {all - before, 0}]
          OBVIOUS
        <4>2. missing \in Nat
          BY <1>2, <3>1, <3>3
        <4> HIDE DEF g
        <4> QED BY <4>1, <4>2
      <3> HIDE DEF f, g
      <3>10. f \o g = [w \in 1 .. open |-> In(w - 1)]
        <4> DEFINE S == {In(w) : w \in Int} \cup {all - before, 0}
                   h == [w \in 1 .. open |-> In(w - 1)]
        <4>1. f \in Seq(S) /\ g \in Seq(S)
          BY <3>8, <3>9
        <4> HIDE DEF S
        <4>2. /\ f \o g \in Seq(S) /\ Len(f \o g) = Len(f) + Len(g)
              /\ \A i \in 1 .. Len(f) : (f \o g)[i] = f[i]
              /\ \A i \in 1 .. Len(g) : (f \o g)[Len(f) + i] = g[i]
          BY ONLY <4>1, Concatenated
        <4> DEFINE fg == f \o g
        <4> HIDE DEF fg
        <4>3. fg \in Seq(S) /\ Len(fg) = open
          BY <1>2, <3>1, <3>3, <3>8, <3>9, <4>2 DEF fg
        <4>4. ASSUME NEW w \in 1 .. open PROVE fg[w] = In(w - 1)
          <5>1. CASE w \in 1 .. old
            BY <3>6, <3>8, <4>2, <5>1 DEF fg
          <5>2. CASE w \notin 1 .. old
            <6>1. w - old \in 1 .. missing /\ old + (w - old) = w /\ w - 1 \in Nat
              BY <1>2, <3>1, <3>3, <5>2
            <6>2. fg[w] = g[w - old]
              <7>1. fg[Len(f) + (w - old)] = g[w - old]
                BY <3>9, <4>2, <6>1 DEF fg
              <7> QED BY <3>8, <6>1, <7>1
            <6>3. CASE w - old = 1
              <7>1. w - 1 = old
                BY <1>2, <6>3
              <7> QED BY <3>2, <3>7, <6>1, <6>2, <6>3, <7>1
            <6>4. CASE w - old # 1
              <7>1. w - 1 > old
                BY <1>2, <3>1, <3>3, <5>2, <6>4
              <7>2. In(w - 1) = 0
                BY <3>2, <6>1, <7>1
              <7> QED BY <3>7, <6>1, <6>2, <6>4, <7>2
            <6> QED BY <6>3, <6>4
          <5> QED BY <5>1, <5>2
        <4>5. fg = [w \in 1 .. open |-> In(w - 1)]
          <5>1. fg = [w \in DOMAIN fg |-> fg[w]] /\ DOMAIN fg = 1 .. open
            BY <3>3, <4>3
          <5> QED BY <4>4, <5>1
        <4> QED BY <4>5 DEF fg
      <3> QED BY <3>4, <3>5, <3>10 DEF In
    <2>5. /\ b.state = a.state /\ b.next = a.next /\ b.leading = a.leading /\ b.trailing = a.leading /\ b.plot = plot
      BY <2>2
    <2>6. Tally(b)
      BY <2>2, <2>5 DEF Tally
    <2> QED BY <1>3, <2>3, <2>4, <2>5, <2>6 DEF b, time, open, N
  <1> QED BY <1>6, <1>7

\* A chunk that is counted keeps the tally right.
LEMMA IngestTallies ==
    ASSUME NEW m \in Matches, NEW k \in Nat, k + 1 \in Counted(m), NEW a, Tally(a), Tallied(a, m, k)
    PROVE  LET c == m.chunks[k + 1]
               b == Ingest(a, c.time, FramesFrom(Buffer(c)).commands)
           IN Tally(b) /\ b.state = a.state /\ b.next = a.next /\ Tallied(b, m, k + 1)
  <1> DEFINE c == m.chunks[k + 1]
             commands == FramesFrom(Buffer(c)).commands
             of(p) == Cardinality({i \in DOMAIN commands : UnmanglePlayerIdx(At(commands[i], 1)) = p - 1})
             d == Advance(a, c.time)
             b == Ingest(a, c.time, commands)
             open == OpenWindow(m, k + 1)
             N == Named(m)
             leading == [p \in DOMAIN d.leading |-> d.leading[p] + of(p)]
  <1>1. /\ Tally(d) /\ d.state = a.state /\ d.next = a.next /\ d.leading = a.leading
        /\ DOMAIN d.plot = N /\ DOMAIN d.trailing = N
        /\ \A p \in N : /\ d.trailing[p] = Cardinality(ActionsBefore(m, p, k, open))
                        /\ d.plot[p] = [w \in 1 .. open |-> Cardinality(ActionsIn(m, p, k, w - 1))]
    BY AdvanceClosesWindows
  <1>2. b = [d EXCEPT !.leading = leading]
    BY DEF Ingest, Count
  <1>3. c \in ChunkRecords /\ CutIsLast(c.commands)
    BY CountedChunks
  <1>4. ASSUME NEW p PROVE of(p) = Cardinality({j \in Readable(c) : Owner[c.commands[j]] = p - 1})
    BY <1>3, ReadableIsCounted
  <1>5. DOMAIN a.leading = N /\ \A p \in N : IsFiniteSet(Actions(m, p, k)) /\ a.leading[p] = Cardinality(Actions(m, p, k))
    BY DEF Tallied
  <1> HIDE DEF d, b, of
  <1>6. b = [state |-> d.state, next |-> d.next, leading |-> leading, trailing |-> d.trailing, plot |-> d.plot]
    <2> HIDE DEF leading
    <2> QED BY <1>1, <1>2 DEF Tally
  <1>7. /\ b.state = a.state /\ b.next = a.next /\ b.leading = leading /\ b.trailing = d.trailing /\ b.plot = d.plot
        /\ Tally(b)
    <2> HIDE DEF leading
    <2> QED BY <1>1, <1>6 DEF Tally
  <1>8. DOMAIN leading = N
    BY <1>1, <1>5
  <1>9. ASSUME NEW p \in N
        PROVE  /\ IsFiniteSet(Actions(m, p, k + 1))
               /\ leading[p] = Cardinality(Actions(m, p, k + 1))
               /\ d.trailing[p] = Cardinality(ActionsBefore(m, p, k + 1, open))
               /\ d.plot[p] = [w \in 1 .. open |-> Cardinality(ActionsIn(m, p, k + 1, w - 1))]
    <2>1. IsFiniteSet(Actions(m, p, k))
      BY <1>5
    <2>2. /\ IsFiniteSet(Actions(m, p, k + 1))
          /\ Cardinality(Actions(m, p, k + 1))
                = Cardinality(Actions(m, p, k)) + Cardinality({j \in Readable(c) : Owner[c.commands[j]] = p - 1})
          /\ \A w : w # open => ActionsIn(m, p, k + 1, w) = ActionsIn(m, p, k, w)
          /\ ActionsBefore(m, p, k + 1, open) = ActionsBefore(m, p, k, open)
      BY <2>1, ActionsOfAChunk
    <2>3. leading[p] = Cardinality(Actions(m, p, k)) + of(p)
      BY <1>1, <1>5, <1>8
    <2>4. leading[p] = Cardinality(Actions(m, p, k + 1))
      <3> HIDE DEF leading
      <3> QED BY <1>4, <2>2, <2>3
    <2>5. \A w \in 1 .. open : Cardinality(ActionsIn(m, p, k + 1, w - 1)) = Cardinality(ActionsIn(m, p, k, w - 1))
      <3>1. open \in Nat
        BY OpenWindowMoves
      <3> HIDE DEF open
      <3>2. \A w \in 1 .. open : w - 1 # open
        BY <3>1
      <3> QED BY <2>2, <3>2
    <2>6. d.plot[p] = [w \in 1 .. open |-> Cardinality(ActionsIn(m, p, k + 1, w - 1))]
      <3>1. d.plot[p] = [w \in 1 .. open |-> Cardinality(ActionsIn(m, p, k, w - 1))]
        BY <1>1
      <3> HIDE DEF open
      <3> QED BY ONLY <2>5, <3>1
    <2>7. d.trailing[p] = Cardinality(ActionsBefore(m, p, k + 1, open))
      <3> HIDE DEF open
      <3> QED BY <1>1, <2>2
    <2> QED BY <2>2, <2>4, <2>6, <2>7
  <1>10. Tallied(b, m, k + 1)
    <2> HIDE DEF leading, open, N
    <2>1. DOMAIN b.plot = N /\ DOMAIN b.leading = N /\ DOMAIN b.trailing = N
      BY <1>1, <1>7, <1>8
    <2> QED BY <1>7, <1>9, <2>1 DEF Tallied, open, N
  <1> QED BY <1>7, <1>10 DEF b

\* A chunk that is not counted leaves it right.
LEMMA SkippingTallies ==
    ASSUME NEW m \in Matches, NEW k \in Nat, k + 1 \notin Counted(m), NEW a, Tallied(a, m, k)
    PROVE  Tallied(a, m, k + 1)
  <1>1. OpenWindow(m, k + 1) = OpenWindow(m, k)
    BY OpenWindowMoves
  <1>2. ASSUME NEW p PROVE Actions(m, p, k + 1) = Actions(m, p, k)
    BY ActionsJoin
  <1>3. ASSUME NEW p, NEW w
        PROVE  /\ ActionsIn(m, p, k + 1, w) = ActionsIn(m, p, k, w)
               /\ ActionsBefore(m, p, k + 1, w) = ActionsBefore(m, p, k, w)
    BY <1>2 DEF ActionsIn, ActionsBefore
  <1> QED BY <1>1, <1>2, <1>3 DEF Tallied

\* Before the first chunk there is nothing to tally.
LEMMA NothingTallied ==
    ASSUME NEW m \in Matches, NEW a,
           LET zeroes == [p \in Named(m) |-> 0]
           IN a.leading = zeroes /\ a.trailing = zeroes /\ a.plot = [p \in Named(m) |-> <<>>]
    PROVE  Tallied(a, m, 0)
  <1>1. Counted(m) \cap 1 .. 0 = {}
    OBVIOUS
  <1>2. OpenWindow(m, 0) = 0
    BY <1>1 DEF OpenWindow
  <1>3. \A p : Actions(m, p, 0) = {}
    BY <1>1 DEF Actions
  <1>4. \A p, w : ActionsIn(m, p, 0, w) = {} /\ ActionsBefore(m, p, 0, w) = {}
    BY <1>3 DEF ActionsIn, ActionsBefore
  <1>5. IsFiniteSet({}) /\ Cardinality({}) = 0
    BY FS_EmptySet
  <1>6. \A p \in Named(m) : a.plot[p] = [w \in 1 .. 0 |-> Cardinality(ActionsIn(m, p, 0, w - 1))]
    <2> TAKE p \in Named(m)
    <2>1. a.plot[p] = <<>>
      OBVIOUS
    <2>2. 1 .. 0 = {}
      OBVIOUS
    <2>3. \A f : [w \in {} |-> f[w]] = <<>>
      OBVIOUS
    <2> QED BY <2>1, <2>2, <2>3
  <1> QED BY <1>2, <1>3, <1>4, <1>5, <1>6 DEF Tallied

\* What ActionsAreCounted says of a plot.
Plotted(m, plot) ==
    LET counted == Counted(m)
        last == IF counted = {} THEN 0 ELSE LatestWindow(m, Len(m.chunks))
    IN /\ DOMAIN plot = Named(m)
       /\ \A p \in DOMAIN plot :
             plot[p] = [w \in 1 .. last |-> Cardinality(ActionsIn(m, p, Len(m.chunks), w - 1))]

\* It says that the plot which is handed over has every action, and no other.
LEMMA PlottedIsCounted ==
    ASSUME match \in Matches
    PROVE  ActionsAreCounted <=> (analysis.state = "done" => Plotted(match, analysis.plot))
  <1> DEFINE counted == Counted(match)
             U == UNION {Readable(match.chunks[i]) : i \in counted}
             actions(p, w) ==
                {at \in counted \X U :
                    LET chunk == match.chunks[at[1]] IN
                       /\ at[2] \in Readable(chunk) /\ LatestWindow(match, at[1]) = w
                       /\ Owner[chunk.commands[at[2]]] = p - 1}
             In(p, w) == ActionsIn(match, p, Len(match.chunks), w)
  <1>1. counted \cap 1 .. Len(match.chunks) = counted
    BY CountedChunks
  <1>2. ASSUME NEW p, NEW w PROVE actions(p, w) = In(p, w)
    <2>1. In(p, w) = {at \in {at \in counted \X U : at[2] \in Readable(match.chunks[at[1]])
                                                    /\ Owner[match.chunks[at[1]].commands[at[2]]] = p - 1} :
                         LatestWindow(match, at[1]) = w}
      BY <1>1 DEF ActionsIn, Actions
    <2> HIDE DEF counted, U, In
    <2> QED BY <2>1
  <1>3. ActionsAreCounted <=>
           (analysis.state = "done" =>
               LET last == IF counted = {} THEN 0 ELSE LatestWindow(match, Len(match.chunks))
               IN /\ DOMAIN analysis.plot = Named(match)
                  /\ \A p \in DOMAIN analysis.plot :
                        analysis.plot[p] = [w \in 1 .. last |-> Cardinality(actions(p, w - 1))])
    BY DEF ActionsAreCounted, Named
  <1> HIDE DEF actions, In
  <1>4. \A p, w : actions(p, w) = In(p, w)
    BY <1>2
  <1>5. Plotted(match, analysis.plot) <=>
           LET last == IF counted = {} THEN 0 ELSE LatestWindow(match, Len(match.chunks))
           IN /\ DOMAIN analysis.plot = Named(match)
              /\ \A p \in DOMAIN analysis.plot : analysis.plot[p] = [w \in 1 .. last |-> Cardinality(In(p, w - 1))]
    BY DEF Plotted, In
  <1> QED BY ONLY <1>3, <1>4, <1>5

\* A tally of every chunk that is counted is the plot.
LEMMA WholeTally ==
    ASSUME NEW m \in Matches, NEW k \in Nat, Counted(m) \subseteq 1 .. k, NEW a, Tallied(a, m, k)
    PROVE  Plotted(m, a.plot)
  <1> DEFINE n == Len(m.chunks)
             open == OpenWindow(m, k)
             last == IF Counted(m) = {} THEN 0 ELSE LatestWindow(m, n)
  <1>1. Counted(m) \cap 1 .. k = Counted(m) /\ Counted(m) \cap 1 .. n = Counted(m)
    BY CountedChunks
  <1>2. LatestWindow(m, k) = LatestWindow(m, n)
    BY <1>1 DEF LatestWindow
  <1>3. open = last
    BY <1>1, <1>2 DEF OpenWindow
  <1>4. ASSUME NEW p PROVE Actions(m, p, k) = Actions(m, p, n)
    BY <1>1 DEF Actions
  <1>5. \A p, w : ActionsIn(m, p, k, w) = ActionsIn(m, p, n, w)
    BY <1>4 DEF ActionsIn
  <1>6. /\ DOMAIN a.plot = Named(m)
        /\ \A p \in Named(m) : a.plot[p] = [w \in 1 .. open |-> Cardinality(ActionsIn(m, p, k, w - 1))]
    BY DEF Tallied
  <1>7. Plotted(m, a.plot) <=>
           /\ DOMAIN a.plot = Named(m)
           /\ \A p \in DOMAIN a.plot : a.plot[p] = [w \in 1 .. last |-> Cardinality(ActionsIn(m, p, n, w - 1))]
    BY DEF Plotted
  <1> HIDE DEF open, last
  <1>8. ASSUME NEW p \in DOMAIN a.plot
        PROVE  a.plot[p] = [w \in 1 .. last |-> Cardinality(ActionsIn(m, p, n, w - 1))]
    <2>1. a.plot[p] = [w \in 1 .. open |-> Cardinality(ActionsIn(m, p, k, w - 1))]
      BY <1>6
    <2> QED BY ONLY <1>3, <1>5, <2>1
  <1> QED BY <1>6, <1>7, <1>8

\* No analysis has begun.
LEMMA AnalysisInitially == Init => Analysis
  <1> SUFFICES ASSUME Init PROVE Analysis
    OBVIOUS
  <1>1. match \in Matches /\ analysis.state = "none"
    BY DEF Init, ParserInit, NoAnalysis
  <1> QED BY <1>1 DEF Analysis, ActionsAreCounted

\* The analysis begins with nothing counted.
LEMMA BeginKeepsAnalysis == Analysis /\ Begin => Analysis'
  <1> SUFFICES ASSUME Analysis, Begin PROVE Analysis'
    OBVIOUS
  <1> DEFINE zeroes == [p \in DOMAIN Analysed(match.players) |-> 0]
             plot == [p \in DOMAIN zeroes |-> <<>>]
  <1>1. match \in Matches /\ match' = match
    BY DEF Analysis, Begin, parserVars
  <1>2. analysis' = [state |-> "running", next |-> 1, leading |-> zeroes, trailing |-> zeroes, plot |-> plot]
    BY DEF Begin
  <1>3. zeroes = [p \in Named(match) |-> 0] /\ plot = [p \in Named(match) |-> <<>>]
    BY <1>1, NamedComeFirst
  <1> HIDE DEF zeroes, plot
  <1>4. /\ analysis'.state = "running" /\ analysis'.next = 1 /\ analysis'.leading = zeroes
        /\ analysis'.trailing = zeroes /\ analysis'.plot = plot
    BY <1>2
  <1>5. Tallied(analysis', match, 0)
    BY <1>1, <1>3, <1>4, NothingTallied
  <1>6. 1 \in 1 .. Len(match.chunks) + 1 /\ 1 - 1 = 0 /\ 1 .. 0 = {}
    BY <1>1, CountedChunks
  <1>7. ActionsAreCounted'
    BY <1>4 DEF ActionsAreCounted
  <1> QED BY <1>1, <1>2, <1>4, <1>5, <1>6, <1>7 DEF Analysis

\* At the end marker every chunk that counts was counted.
LEMMA FinishKeepsAnalysis == Analysis /\ Finish => Analysis'
  <1> SUFFICES ASSUME Analysis, Finish PROVE Analysis'
    OBVIOUS
  <1> DEFINE k == analysis.next - 1
  <1>1. match \in Matches /\ match' = match
    BY DEF Analysis, Finish, parserVars
  <1>2. analysis.state = "running" /\ analysis.next \in 1 .. Len(match.chunks) + 1 /\ Tallied(analysis, match, k)
    BY DEF Analysis, Finish
  <1>3. analysis.next \notin DOMAIN match.chunks /\ analysis' = [analysis EXCEPT !.state = "done"]
    BY DEF Finish
  <1>4. k \in Nat /\ Counted(match) \subseteq 1 .. k
    BY <1>1, <1>2, <1>3, CountedChunks
  <1>5. Plotted(match, analysis.plot)
    BY <1>1, <1>2, <1>4, WholeTally
  <1>6. analysis'.state = "done" /\ analysis'.plot = analysis.plot
    <2>1. analysis = [state |-> "running", next |-> analysis.next, leading |-> analysis.leading,
                      trailing |-> analysis.trailing, plot |-> analysis.plot]
      BY <1>2 DEF Analysis
    <2> QED BY <1>3, <2>1
  <1>7. ActionsAreCounted'
    <2>1. (match \in Matches)' => (ActionsAreCounted' <=> (analysis.state = "done" => Plotted(match, analysis.plot))')
      BY PlottedIsCounted, PTL
    <2> QED BY <1>1, <1>5, <1>6, <2>1
  <1> QED BY <1>1, <1>6, <1>7 DEF Analysis

\* A chunk is counted, or passed over, or the last to be looked at.
LEMMA ChunkKeepsAnalysis == Analysis /\ AnalyzeChunk => Analysis'
  <1> SUFFICES ASSUME Analysis, AnalyzeChunk PROVE Analysis'
    OBVIOUS
  <1> DEFINE n == analysis.next
             k == n - 1
             c == match.chunks[n]
             buf == Buffer(c)
             strange == c.type = 1 /\ (c.lead # 1 \/ c.announced > MaxCommands)
             ingested == Ingest(analysis, c.time, FramesFrom(buf).commands)
             seen == IF c.type = 1 THEN ingested ELSE analysis
  <1>1. match \in Matches /\ match' = match
    BY DEF Analysis, AnalyzeChunk, parserVars
  <1>2. /\ analysis.state = "running" /\ n \in 1 .. Len(match.chunks) /\ k \in Nat /\ k + 1 = n
        /\ Tallied(analysis, match, k)
    <2>1. analysis.state = "running" /\ n \in DOMAIN match.chunks
      BY DEF AnalyzeChunk
    <2>2. Tallied(analysis, match, k)
      BY <2>1 DEF Analysis
    <2>3. n \in 1 .. Len(match.chunks) /\ Len(match.chunks) \in Nat
      BY <1>1, <2>1, CountedChunks
    <2> HIDE DEF n
    <2> QED BY <2>1, <2>2, <2>3 DEF n
  <1>3. \A j \in 1 .. k : match.chunks[j].type = 1 => match.chunks[j].lead = 1 /\ match.chunks[j].announced <= MaxCommands
    BY <1>2 DEF Analysis
  <1>4. Tally(analysis)
    BY <1>2 DEF Analysis, Tally
  <1>5. c \in ChunkRecords
    BY <1>1, <1>2, CountedChunks
  <1>6. At(buf, 0) = c.lead /\ Announced(buf) = c.announced
    BY <1>5, BufferOfCommands
  <1>7. analysis' = IF strange THEN [analysis EXCEPT !.state = "done"] ELSE [seen EXCEPT !.next = @ + 1]
    BY <1>6 DEF AnalyzeChunk
  <1>8. \A i : i \in Counted(match) <=>
           /\ i \in 1 .. Len(match.chunks) /\ match.chunks[i].type = 1
           /\ \A j \in 1 .. i : match.chunks[j].type = 1 => match.chunks[j].lead = 1 /\ match.chunks[j].announced <= MaxCommands
    <2>1. DOMAIN match.chunks = 1 .. Len(match.chunks)
      BY <1>1, CountedChunks
    <2> QED BY <2>1 DEF Counted
  <1>9. c.announced \in Nat /\ MaxCommands \in Nat
    BY <1>5 DEF ChunkRecords, MaxCommands
  <1>10. CASE strange
    <2>1. Counted(match) \subseteq 1 .. k
      <3> SUFFICES ASSUME NEW i \in Counted(match), i \notin 1 .. k PROVE FALSE
        OBVIOUS
      <3>1. i \in 1 .. Len(match.chunks) /\ i \in Nat
        BY <1>8
      <3>2. n \in 1 .. i
        <4> HIDE DEF n
        <4> QED BY <1>2, <3>1
      <3>3. c.type = 1 => c.lead = 1 /\ c.announced <= MaxCommands
        BY <1>8, <3>2
      <3> HIDE DEF c
      <3> QED BY <1>9, <1>10, <3>3
    <2>2. Plotted(match, analysis.plot)
      BY <1>1, <1>2, <2>1, WholeTally
    <2>3. analysis' = [analysis EXCEPT !.state = "done"]
      BY <1>7, <1>10
    <2>4. analysis'.state = "done" /\ analysis'.plot = analysis.plot
      BY <1>4, <2>3 DEF Tally
    <2>5. ActionsAreCounted'
      <3>1. (match \in Matches)' => (ActionsAreCounted' <=> (analysis.state = "done" => Plotted(match, analysis.plot))')
        BY PlottedIsCounted, PTL
      <3> QED BY <1>1, <2>2, <2>4, <3>1
    <2> QED BY <1>1, <2>4, <2>5 DEF Analysis
  <1>11. CASE ~strange
    <2>1. \A j \in 1 .. n : match.chunks[j].type = 1 => match.chunks[j].lead = 1 /\ match.chunks[j].announced <= MaxCommands
      <3>1. \A j \in 1 .. n : j = n \/ j \in 1 .. k
        <4> HIDE DEF n
        <4> QED BY <1>2
      <3>2. c.type = 1 => c.lead = 1 /\ c.announced <= MaxCommands
        <4> HIDE DEF c
        <4> QED BY <1>9, <1>11
      <3> QED BY <1>3, <3>1, <3>2
    <2>2. n \in Counted(match) <=> c.type = 1
      BY <1>2, <1>8, <2>1
    <2>3. Tally(seen) /\ seen.state = "running" /\ seen.next = n /\ Tallied(seen, match, n)
      <3>1. CASE c.type = 1
        <4>1. k + 1 \in Counted(match) /\ match.chunks[k + 1] = c
          BY <1>2, <2>2, <3>1
        <4>2. /\ Tally(ingested) /\ ingested.state = analysis.state /\ ingested.next = analysis.next
              /\ Tallied(ingested, match, k + 1)
          BY <1>1, <1>2, <1>4, <4>1, IngestTallies
        <4> HIDE DEF ingested
        <4> QED BY <1>2, <3>1, <4>2
      <3>2. CASE c.type # 1
        <4>1. k + 1 \notin Counted(match)
          BY <1>2, <2>2, <3>2
        <4>2. Tallied(analysis, match, k + 1)
          BY <1>1, <1>2, <4>1, SkippingTallies
        <4>3. seen = analysis
          BY <3>2
        <4> QED BY <1>2, <1>4, <4>2, <4>3
      <3> QED BY <3>1, <3>2
    <2>4. analysis' = [seen EXCEPT !.next = @ + 1]
      BY <1>7, <1>11
    <2> HIDE DEF seen
    <2>5. analysis' = [state |-> "running", next |-> n + 1, leading |-> seen.leading, trailing |-> seen.trailing,
                       plot |-> seen.plot]
      <3> HIDE DEF n
      <3> QED BY <2>3, <2>4 DEF Tally
    <2>6. /\ analysis'.state = "running" /\ analysis'.next = n + 1 /\ analysis'.leading = seen.leading
          /\ analysis'.trailing = seen.trailing /\ analysis'.plot = seen.plot
      BY <2>5
    <2>7. Tallied(analysis', match, n)
      BY <2>3, <2>6 DEF Tallied
    <2>8. n \in Int /\ n + 1 \in 1 .. Len(match.chunks) + 1 /\ n + 1 - 1 = n
      <3>1. Len(match.chunks) \in Nat
        BY <1>1, CountedChunks
      <3> HIDE DEF n
      <3> QED BY <1>2, <3>1
    <2>9. ActionsAreCounted'
      BY <2>6 DEF ActionsAreCounted
    <2>10. analysis' = [state |-> "running", next |-> analysis'.next, leading |-> analysis'.leading,
                        trailing |-> analysis'.trailing, plot |-> analysis'.plot]
      BY <2>5, <2>6
    <2> HIDE DEF n, c
    <2>11. /\ analysis'.next \in 1 .. Len(match.chunks) + 1
           /\ \A j \in 1 .. analysis'.next - 1 :
                 match.chunks[j].type = 1 => match.chunks[j].lead = 1 /\ match.chunks[j].announced <= MaxCommands
           /\ Tallied(analysis', match, analysis'.next - 1)
      <3>1. analysis'.next = n + 1 /\ analysis'.next - 1 = n
        <4> DEFINE next == analysis'.next
        <4>1. next = n + 1
          BY <2>6
        <4> HIDE DEF next
        <4>2. next - 1 = n
          BY ONLY <2>8, <4>1
        <4> QED BY ONLY <4>1, <4>2 DEF next
      <3> QED BY ONLY <2>1, <2>7, <2>8, <3>1
    <2>12. analysis'.state = "running"
      BY <2>6
    <2> QED BY ONLY <1>1, <2>9, <2>10, <2>11, <2>12 DEF Analysis
  <1> QED BY <1>10, <1>11

\* The parser does not touch the analysis, and the match stays what it is.
LEMMA ParsingKeepsAnalysis == Analysis /\ (Parse \/ UNCHANGED vars) => Analysis'
  <1>1. Parse \/ UNCHANGED vars => UNCHANGED <<match, analysis>>
    BY DEF Parse, ParserNext, Write, Open, ParseHeader, ReadBodyChunk, ReadFooter, End, vars, parserVars
  <1>2. Analysis /\ UNCHANGED <<match, analysis>> => Analysis'
    <2> SUFFICES ASSUME Analysis, match' = match, analysis' = analysis PROVE Analysis'
      OBVIOUS
    <2>1. ActionsAreCounted'
      <3>1. match \in Matches => (ActionsAreCounted <=> (analysis.state = "done" => Plotted(match, analysis.plot)))
        BY PlottedIsCounted
      <3>2. (match \in Matches)' => (ActionsAreCounted' <=> (analysis.state = "done" => Plotted(match, analysis.plot))')
        BY PlottedIsCounted, PTL
      <3>3. match \in Matches /\ ActionsAreCounted
        BY DEF Analysis
      <3> QED BY <3>1, <3>2, <3>3
    <2> QED BY <2>1 DEF Analysis
  <1> QED BY <1>1, <1>2

\* The plot that ApmAnalyzer hands over counts every command of every player once, in the window of its
\* chunk's time: whatever the matches are, however long their chunks, wherever the framing is lost.
THEOREM EveryActionIsCounted == Spec => []ActionsAreCounted
  <1>1. Init => Analysis
    BY AnalysisInitially
  <1>2. Analysis /\ [Next]_vars => Analysis'
    BY BeginKeepsAnalysis, ChunkKeepsAnalysis, FinishKeepsAnalysis, ParsingKeepsAnalysis DEF Next
  <1>3. Analysis => ActionsAreCounted
    BY DEF Analysis
  <1> QED BY <1>1, <1>2, <1>3, PTL DEF Spec

=============================================================================
