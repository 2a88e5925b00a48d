------------------------- MODULE TileMovement_proofs -------------------------
(***************************************************************************)
(* Every legal copy is right for every matrix, tiling and order of the     *)
(* tiles.  Behind the copies between memories (TileCopies_proofs) come the *)
(* operands found by their indices, a kernel's own copies and the side     *)
(* inputs of attention; together they give the two theorems.               *)
(***************************************************************************)
EXTENDS TileCopies_proofs

-----------------------------------------------------------------------------
(* Operands: the parts of a dimension.                                     *)
(* Where a tile of l1 begins, when the tiles from normal on are tail long; and how long it is.       *)
StartOf(i, l1, normal, tail) == IF i <= normal THEN i * l1 ELSE normal * l1 + (i - normal) * tail
LengthOf(i, size, l1, normal, tail) == Least(IF i < normal THEN l1 ELSE tail, size - StartOf(i, l1, normal, tail))

(* A piece is the first or the last part of a tile.                                                  *)
PartOfTile(p, size, l1, normal, tail, shared) ==
  LET s == StartOf(p.tile, l1, normal, tail)
      n == LengthOf(p.tile, size, l1, normal, tail)
      h == IF shared THEN CeilDiv(n, 2) ELSE n
  IN  /\ p.tile \in 0 .. size - 1 /\ s < size
      /\ \/ p = Piece(p.tile, 0, s, h)
         \/ p = Piece(p.tile, h, s + h, n - h) /\ h < n

TileEnds(i, size, l1, normal, tail) ==
  LET s == StartOf(i, l1, normal, tail)
      n == LengthOf(i, size, l1, normal, tail)
  IN  /\ s \in Nat
      /\ s = i * l1 - Missing(i, normal, l1, tail)
      /\ s < size => n \in Nat /\ 1 <= n /\ s + n <= size
      /\ \A u \in Nat : i < u => s + n <= StartOf(u, l1, normal, tail)

\* A tile ends where the next one begins, or at the edge.
LEMMA TileSpan ==
    ASSUME NEW size \in Nat, NEW l1 \in Positive, NEW normal \in Nat, NEW tail \in Positive, NEW i \in Nat
    PROVE  TileEnds(i, size, l1, normal, tail)
<1> DEFINE s == StartOf(i, l1, normal, tail)  n == LengthOf(i, size, l1, normal, tail)
<1>1. l1 \in Nat /\ tail \in Nat /\ 0 < l1 /\ 0 < tail
  BY DEF Positive
<1>2. i * l1 \in Nat /\ normal * l1 \in Nat
  BY <1>1, MulMonotone
<1>3. i > normal => (i - normal) * tail \in Nat
  <2>1. i > normal => i - normal \in Nat
    OBVIOUS
  <2>. QED  BY <1>1, <2>1, MulMonotone
<1>4. s \in Nat
  BY <1>2, <1>3 DEF StartOf
<1>5. s = i * l1 - Missing(i, normal, l1, tail)
  <2>1. CASE i <= normal
    BY <1>2, <2>1 DEF StartOf, Missing
  <2>2. CASE i > normal
    <3>1. (i - normal) * (l1 - tail) = i * l1 - normal * l1 - (i - normal) * tail
      BY <1>1
    <3>2. Missing(i, normal, l1, tail) = (i - normal) * (l1 - tail) /\ s = normal * l1 + (i - normal) * tail
      BY <2>2 DEF StartOf, Missing
    <3> DEFINE a == i * l1  b == normal * l1  c == (i - normal) * tail  d == (i - normal) * (l1 - tail)
    <3>3. a \in Int /\ b \in Int /\ c \in Int /\ d \in Int /\ d = a - b - c
      BY <1>2, <1>3, <2>2, <3>1
    <3>. HIDE DEF a, b, c, d, s
    <3>. QED  BY <3>2, <3>3 DEF a, b, c, d
  <2>. QED  BY <2>1, <2>2
<1> DEFINE len == IF i < normal THEN l1 ELSE tail
<1>6. n = Least(len, size - s)
  BY DEF LengthOf
<1>7. s < size => n \in Nat /\ 1 <= n /\ s + n <= size
  <2>. HIDE DEF s, n
  <2>. QED  BY <1>1, <1>4, <1>6 DEF Least
<1>8. n <= len
  <2>. HIDE DEF s, n
  <2>. QED  BY <1>1, <1>4, <1>6 DEF Least
<1>9. ASSUME NEW u \in Nat, i < u PROVE s + len <= StartOf(u, l1, normal, tail)
  <2>1. CASE u <= normal
    <3>1. i * l1 + l1 <= u * l1 /\ u * l1 \in Nat
      BY <1>1, <1>9, MulMonotone
    <3>. QED  BY <1>1, <1>2, <1>9, <2>1, <3>1 DEF StartOf
  <2>2. CASE u > normal /\ i < normal
    <3>1. i * l1 + l1 <= normal * l1
      BY <1>1, <2>2, MulMonotone
    <3>2. (u - normal) * tail \in Nat
      <4>1. u - normal \in Nat
        BY <2>2
      <4>. QED  BY <1>1, <4>1, MulMonotone
    <3>. QED  BY <1>1, <1>2, <2>2, <3>1, <3>2 DEF StartOf
  <2>3. CASE u > normal /\ i >= normal
    <3>1. i - normal \in Nat /\ u - normal \in Nat /\ i - normal < u - normal
      BY <1>9, <2>3
    <3>2. (i - normal) * tail + tail <= (u - normal) * tail /\ (u - normal) * tail \in Nat /\ (i - normal) * tail \in Nat
      BY <1>1, <3>1, MulMonotone
    <3>3. s = normal * l1 + (i - normal) * tail
      <4>1. i = normal => (i - normal) * tail = 0
        BY <1>1
      <4>. QED  BY <1>2, <2>3, <4>1 DEF StartOf
    <3>4. StartOf(u, l1, normal, tail) = normal * l1 + (u - normal) * tail /\ len = tail
      BY <2>3 DEF StartOf
    <3>. HIDE DEF s, len
    <3>. QED  BY <1>1, <1>2, <3>2, <3>3, <3>4
  <2>. QED  BY <2>1, <2>2, <2>3
<1>10. ASSUME NEW u \in Nat, i < u PROVE s + n <= StartOf(u, l1, normal, tail)
  <2>1. s + len <= StartOf(u, l1, normal, tail)
    BY <1>9, <1>10
  <2>2. StartOf(u, l1, normal, tail) \in Nat
    <3>1. u * l1 \in Nat
      BY <1>1, MulMonotone
    <3>2. u > normal => (u - normal) * tail \in Nat
      <4>1. u > normal => u - normal \in Nat
        OBVIOUS
      <4>. QED  BY <1>1, <4>1, MulMonotone
    <3>. QED  BY <1>2, <3>1, <3>2 DEF StartOf
  <2>3. n \in Int /\ len \in Int
    <3>. HIDE DEF s, n
    <3>. QED  BY <1>1, <1>4, <1>6 DEF Least
  <2>. HIDE DEF s, n, len
  <2>. QED  BY <1>4, <1>8, <2>1, <2>2, <2>3
<1>. QED  BY <1>4, <1>5, <1>7, <1>10 DEF TileEnds

\* What Pieces has.
LEMMA PiecesAre ==
    ASSUME NEW size, NEW l1, NEW normal, NEW tail, NEW shared, NEW p \in Pieces(size, l1, normal, tail, shared)
    PROVE  PartOfTile(p, size, l1, normal, tail, shared)
<1> DEFINE start(i) == StartOf(i, l1, normal, tail)  length(i) == LengthOf(i, size, l1, normal, tail)
           half(i) == IF shared THEN CeilDiv(length(i), 2) ELSE length(i)
<1>1. \E i \in 0 .. size - 1 : /\ start(i) < size
                               /\ \/ p = Piece(i, 0, start(i), half(i))
                                  \/ p = Piece(i, half(i), start(i) + half(i), length(i) - half(i)) /\ half(i) < length(i)
  BY DEF Pieces, StartOf, LengthOf
<1>2. \A i, a, b, c : Piece(i, a, b, c).tile = i
  BY DEF Piece
<1>3. PICK i \in 0 .. size - 1 :
          /\ start(i) < size
          /\ \/ p = Piece(i, 0, start(i), half(i))
             \/ p = Piece(i, half(i), start(i) + half(i), length(i) - half(i)) /\ half(i) < length(i)
  BY <1>1
<1>4. p.tile = i
  BY <1>2, <1>3
<1>. QED  BY <1>3, <1>4 DEF PartOfTile

(* A part of a dimension: inside it, and where its tile and its place in the tile say.               *)
PieceIn(p, size, l1, normal, tail) ==
  /\ p.tile \in Nat /\ p.split \in Nat /\ p.start \in Nat /\ p.length \in Nat /\ 1 <= p.length
  /\ p.start = p.tile * l1 + p.split - Missing(p.tile, normal, l1, tail)
  /\ p.start + p.length <= size

\* Half of a length, rounded up.
LEMMA HalfUp == ASSUME NEW n \in Nat, 1 <= n PROVE CeilDiv(n, 2) \in 1 .. n
<1> DEFINE q == (n + 2 - 1) \div 2  r == (n + 2 - 1) % 2
<1>1. n + 2 - 1 \in Nat /\ 2 \in Positive
  BY DEF Positive
<1>2. q \in Nat /\ r \in 0 .. 1 /\ n + 2 - 1 = 2 * q + r
  <2>1. q \in Nat /\ r \in 0 .. 2 - 1 /\ n + 2 - 1 = 2 * q + r
    BY <1>1, DivMod
  <2>. QED  BY <2>1
<1>. HIDE DEF q, r
<1>3. q \in 1 .. n
  BY <1>2
<1>. QED  BY <1>3 DEF q, CeilDiv

\* The fields of a part.
LEMMA PieceFields ==
    ASSUME NEW a, NEW b, NEW c, NEW d
    PROVE  LET p == Piece(a, b, c, d) IN p.tile = a /\ p.split = b /\ p.start = c /\ p.length = d
BY DEF Piece

\* A part lies in its tile.
LEMMA PartSpan ==
    ASSUME NEW size \in Nat, NEW l1 \in Positive, NEW normal \in Nat, NEW tail \in Positive, NEW shared \in BOOLEAN,
           NEW p, PartOfTile(p, size, l1, normal, tail, shared)
    PROVE  LET s == StartOf(p.tile, l1, normal, tail)
               n == LengthOf(p.tile, size, l1, normal, tail)
           IN  /\ PieceIn(p, size, l1, normal, tail)
               /\ s <= p.start /\ p.start + p.length <= s + n
               /\ p.split = 0 \/ shared
               /\ p.start = s + p.split
<1> DEFINE s == StartOf(p.tile, l1, normal, tail)  n == LengthOf(p.tile, size, l1, normal, tail)
           h == IF shared THEN CeilDiv(n, 2) ELSE n
           i == p.tile
<1>1. /\ i \in Nat /\ s < size
      /\ \/ p = Piece(i, 0, s, h)
         \/ p = Piece(i, h, s + h, n - h) /\ h < n
  BY DEF PartOfTile
<1>2. s \in Nat /\ s = i * l1 - Missing(i, normal, l1, tail) /\ n \in Nat /\ 1 <= n /\ s + n <= size
  <2>1. p.tile \in Nat
    BY <1>1
  <2>2. TileEnds(p.tile, size, l1, normal, tail)
    BY <2>1, TileSpan
  <2>. QED  BY <1>1, <2>2 DEF TileEnds
<1>. HIDE DEF s, n
<1>3. h \in 1 .. n
  BY <1>2, HalfUp
<1>4. ~shared => h = n
  OBVIOUS
<1>. HIDE DEF h
<1>5. /\ p.split \in {0, h} /\ p.start = s + p.split /\ p.length \in Nat /\ 1 <= p.length /\ p.start + p.length <= s + n
      /\ p.split = 0 \/ shared
  <2>1. CASE p = Piece(i, 0, s, h)
    <3>1. p.split = 0 /\ p.start = s /\ p.length = h
      BY <2>1, PieceFields
    <3>. QED  BY <1>2, <1>3, <3>1
  <2>2. CASE p = Piece(i, h, s + h, n - h) /\ h < n
    <3>1. p.split = h /\ p.start = s + h /\ p.length = n - h
      BY <2>2, PieceFields
    <3>. QED  BY <1>2, <1>3, <1>4, <2>2, <3>1
  <2>. QED  BY <1>1, <2>1, <2>2
<1>6. i * l1 \in Nat
  <2>1. l1 \in Nat
    BY DEF Positive
  <2>. QED  BY <1>1, <2>1, MulMonotone
<1>7. Missing(i, normal, l1, tail) \in Int
  <2>1. l1 - tail \in Int /\ i - normal \in Int
    BY <1>1 DEF Positive
  <2>2. (i - normal) * (l1 - tail) \in Int
    BY <2>1
  <2>. QED  BY <2>2 DEF Missing
<1>8. p.start = i * l1 + p.split - Missing(i, normal, l1, tail)
  <2> DEFINE a == i * l1  b == Missing(i, normal, l1, tail)
  <2>1. a \in Nat /\ b \in Int /\ s = a - b /\ p.start = s + p.split /\ p.split \in Nat
    BY <1>2, <1>3, <1>5, <1>6, <1>7
  <2>. HIDE DEF a, b
  <2>2. p.start = a + p.split - b
    BY <2>1
  <2>. QED  BY <2>2 DEF a, b
<1>9. PieceIn(p, size, l1, normal, tail)
  <2>. HIDE DEF i
  <2>1. p.split \in Nat /\ p.start \in Nat /\ p.start + p.length <= size
    BY <1>2, <1>3, <1>5
  <2>. QED  BY <1>1, <1>5, <1>8, <2>1 DEF PieceIn, i
<1>. QED  BY <1>2, <1>3, <1>5, <1>9 DEF s, n

\* What a part of a dimension is.
LEMMA PieceFacts ==
    ASSUME NEW size \in Nat, NEW l1 \in Positive, NEW normal \in Nat, NEW tail \in Positive, NEW shared \in BOOLEAN,
           NEW p \in Pieces(size, l1, normal, tail, shared)
    PROVE  PieceIn(p, size, l1, normal, tail) /\ (p.split = 0 \/ shared)
BY PiecesAre, PartSpan

\* Two parts do not overlap.
LEMMA PiecesApart ==
    ASSUME NEW size \in Nat, NEW l1 \in Positive, NEW normal \in Nat, NEW tail \in Positive, NEW shared \in BOOLEAN,
           NEW p \in Pieces(size, l1, normal, tail, shared), NEW q \in Pieces(size, l1, normal, tail, shared),
           NEW x \in 0 .. p.length - 1, NEW y \in 0 .. q.length - 1, p.start + x = q.start + y
    PROVE  p = q
<1> DEFINE S(i) == StartOf(i, l1, normal, tail)  L(i) == LengthOf(i, size, l1, normal, tail)
           h(i) == IF shared THEN CeilDiv(L(i), 2) ELSE L(i)
<1>1. PartOfTile(p, size, l1, normal, tail, shared) /\ PartOfTile(q, size, l1, normal, tail, shared)
  BY PiecesAre
<1>2. /\ p.tile \in Nat /\ p.start \in Nat /\ p.length \in Nat /\ p.start + p.length <= S(p.tile) + L(p.tile) /\ S(p.tile) <= p.start
      /\ q.tile \in Nat /\ q.start \in Nat /\ q.length \in Nat /\ q.start + q.length <= S(q.tile) + L(q.tile) /\ S(q.tile) <= q.start
  BY <1>1, PartSpan DEF PieceIn
<1>3. /\ S(p.tile) \in Nat /\ S(q.tile) \in Nat
      /\ p.tile < q.tile => S(p.tile) + L(p.tile) <= S(q.tile)
      /\ q.tile < p.tile => S(q.tile) + L(q.tile) <= S(p.tile)
  <2>1. TileEnds(p.tile, size, l1, normal, tail) /\ TileEnds(q.tile, size, l1, normal, tail)
    BY <1>2, TileSpan
  <2>. QED  BY <1>2, <2>1 DEF TileEnds
<1>4. S(p.tile) < size /\ S(q.tile) < size
  BY <1>1 DEF PartOfTile
<1>5. L(p.tile) \in Nat /\ L(q.tile) \in Nat
  <2>1. TileEnds(p.tile, size, l1, normal, tail) /\ TileEnds(q.tile, size, l1, normal, tail)
    BY <1>2, TileSpan
  <2>. QED  BY <1>4, <2>1 DEF TileEnds
<1>6. p.tile = q.tile
  <2>. HIDE DEF S, L
  <2>. QED  BY <1>2, <1>3, <1>5
<1>7. /\ p = Piece(p.tile, 0, S(p.tile), h(p.tile)) \/ p = Piece(p.tile, h(p.tile), S(p.tile) + h(p.tile), L(p.tile) - h(p.tile))
      /\ q = Piece(p.tile, 0, S(p.tile), h(p.tile)) \/ q = Piece(p.tile, h(p.tile), S(p.tile) + h(p.tile), L(p.tile) - h(p.tile))
  BY <1>1, <1>6 DEF PartOfTile
<1>8. h(p.tile) \in Nat
  <2>1. 1 <= L(p.tile)
    <3>1. TileEnds(p.tile, size, l1, normal, tail)
      BY <1>2, TileSpan
    <3>. QED  BY <1>4, <3>1 DEF TileEnds
  <2>. QED  BY <1>5, <2>1, HalfUp
<1> DEFINE s == S(p.tile)  n == L(p.tile)  k == h(p.tile)  i == p.tile
<1>9. s \in Nat /\ k \in Nat /\ n \in Nat
  BY <1>3, <1>5, <1>8
<1>10. /\ p = Piece(i, 0, s, k) \/ p = Piece(i, k, s + k, n - k)
       /\ q = Piece(i, 0, s, k) \/ q = Piece(i, k, s + k, n - k)
  BY <1>7
<1>. HIDE DEF s, n, k, i
<1>11. ASSUME NEW a, NEW b, a = Piece(i, 0, s, k), b = Piece(i, k, s + k, n - k),
              NEW u \in 0 .. a.length - 1, NEW v \in 0 .. b.length - 1, a.start + u = b.start + v
       PROVE  FALSE
  <2>1. a.start = s /\ a.length = k /\ b.start = s + k /\ b.length = n - k
    BY <1>11, PieceFields
  <2>. QED  BY <1>9, <1>11, <2>1
<1>. QED  BY <1>10, <1>11

(* Columns of the result; what the numbers of an operand are.                                        *)
Wide(j) == IF j.fn = "QuantIO" THEN j.N \div 2 ELSE j.N
OperandNumbers(j) ==
  /\ j.M \in Nat /\ j.N \in Nat /\ j.K \in Nat /\ j.batch \in Nat /\ j.normM \in Nat /\ j.normN \in Nat
  /\ j.l1M \in Positive /\ j.l1N \in Positive /\ j.l1K \in Positive
  /\ j.tailM \in Positive /\ j.tailN \in Positive /\ j.c0 \in Positive
  /\ j.shared \in BOOLEAN /\ Wide(j) \in Nat
  /\ PerBlock \in Positive /\ MxfpDivisor \in Positive /\ MxfpMulti \in Positive /\ Cube \in Positive

(* Where a part of an edge begins, with tiles of one size.                                           *)
Even(p, l1) == p.start = p.tile * l1 + p.split

LEMMA OperandFacts == ASSUME NEW j, OperandLegal(j) PROVE OperandNumbers(j)
<1>1. /\ j.M \in Nat /\ j.N \in Nat /\ j.K \in Nat /\ j.batch \in Nat /\ j.normM \in Nat /\ j.normN \in Nat
      /\ j.l1M \in Positive /\ j.l1N \in Positive /\ j.l1K \in Positive
      /\ j.tailM \in Positive /\ j.tailN \in Positive /\ j.c0 \in Positive /\ j.shared \in BOOLEAN
  BY DEF OperandLegal, Positive
<1>2. Wide(j) \in Nat
  <2>1. j.N \div 2 \in Nat
    <3>1. 2 \in Positive
      BY DEF Positive
    <3>. QED  BY <1>1, <3>1, DivMod
  <2>. QED  BY <1>1, <2>1 DEF Wide
<1>3. PerBlock \in Positive /\ MxfpDivisor \in Positive /\ MxfpMulti \in Positive /\ Cube \in Positive
  BY ScaleAssumption, FractalAssumption DEF Positive
<1>. QED  BY <1>1, <1>2, <1>3 DEF OperandNumbers

\* No tile lacks anything where the later ones are as long.
LEMMA NoneMissing ==
    ASSUME NEW p, NEW size, NEW l1 \in Positive, NEW normal \in Nat, PieceIn(p, size, l1, normal, l1)
    PROVE  Even(p, l1)
<1>1. p.tile \in Nat /\ p.split \in Nat /\ p.start = p.tile * l1 + p.split - Missing(p.tile, normal, l1, l1)
  BY DEF PieceIn
<1>2. Missing(p.tile, normal, l1, l1) = 0
  <2>1. l1 - l1 = 0 /\ p.tile - normal \in Int
    BY <1>1 DEF Positive
  <2>2. (p.tile - normal) * (l1 - l1) = 0
    BY <2>1
  <2>. QED  BY <2>2 DEF Missing
<1>3. p.tile * l1 \in Nat
  <2>1. l1 \in Nat
    BY DEF Positive
  <2>. QED  BY <1>1, <2>1, MulMonotone
<1>4. p.start = p.tile * l1 + p.split
  <2> DEFINE a == p.tile * l1
  <2>1. a \in Nat /\ p.split \in Nat /\ p.start = a + p.split - 0
    BY <1>1, <1>2, <1>3
  <2>. HIDE DEF a
  <2>2. p.start = a + p.split
    BY <2>1
  <2>. QED  BY <2>2 DEF a
<1>. QED  BY <1>4 DEF Even

\* The parts of each dimension.
LEMMA PartsOfM ==
    ASSUME NEW j, OperandLegal(j), NEW p \in MPieces(j)
    PROVE  /\ PieceIn(p, j.M, j.l1M, j.normM, j.tailM)
           /\ p.split = 0 \/ j.shared
           /\ ~j.balanced => Even(p, j.l1M)
<1>1. OperandNumbers(j)
  BY OperandFacts
<1>2. PieceIn(p, j.M, j.l1M, j.normM, j.tailM) /\ (p.split = 0 \/ j.shared)
  BY <1>1, PieceFacts DEF OperandNumbers, MPieces
<1>3. ~j.balanced => Even(p, j.l1M)
  <2>1. ~j.balanced => j.tailM = j.l1M
    BY DEF OperandLegal
  <2>. QED  BY <1>1, <1>2, <2>1, NoneMissing DEF OperandNumbers
<1>. QED  BY <1>2, <1>3

LEMMA PartsOfN ==
    ASSUME NEW j, OperandLegal(j), NEW p \in NPieces(j)
    PROVE  /\ PieceIn(p, Wide(j), j.l1N, j.normN, j.tailN)
           /\ p.split = 0 \/ j.shared
           /\ ~j.balanced => Even(p, j.l1N)
<1>1. OperandNumbers(j)
  BY OperandFacts
<1>2. p \in Pieces(Wide(j), j.l1N, j.normN, j.tailN, j.shared)
  BY DEF NPieces, Wide
<1>3. PieceIn(p, Wide(j), j.l1N, j.normN, j.tailN) /\ (p.split = 0 \/ j.shared)
  BY <1>1, <1>2, PieceFacts DEF OperandNumbers
<1>4. ~j.balanced => Even(p, j.l1N)
  <2>1. ~j.balanced => j.tailN = j.l1N
    BY DEF OperandLegal
  <2>. QED  BY <1>1, <1>3, <2>1, NoneMissing DEF OperandNumbers
<1>. QED  BY <1>3, <1>4

LEMMA WholeFields ==
    ASSUME NEW size, NEW p \in Whole(size)
    PROVE  p.tile = 0 /\ p.split = 0 /\ p.start = 0 /\ p.length = size
BY PieceFields DEF Whole

LEMMA PartsOfK ==
    ASSUME NEW j, OperandLegal(j), NEW p \in KPieces(j)
    PROVE  /\ p.start \in Nat /\ p.length \in Nat /\ p.start + p.length <= j.K /\ p.tile \in Nat
           /\ IF j.fn \in {"Coordinate", "Layout", "StreamK"} THEN p.start = p.tile * j.l1K ELSE p.start = 0
<1>1. OperandNumbers(j)
  BY OperandFacts
<1>2. CASE j.fn \in {"Coordinate", "Layout", "StreamK"}
  <2>1. p \in Pieces(j.K, j.l1K, j.K, j.l1K, FALSE)
    BY <1>2 DEF KPieces
  <2>2. PieceIn(p, j.K, j.l1K, j.K, j.l1K) /\ p.split = 0
    <3>1. \A b \in BOOLEAN : p \in Pieces(j.K, j.l1K, j.K, j.l1K, b) =>
            PieceIn(p, j.K, j.l1K, j.K, j.l1K) /\ (p.split = 0 \/ b)
      BY <1>1, PieceFacts DEF OperandNumbers
    <3>2. PieceIn(p, j.K, j.l1K, j.K, j.l1K) /\ (p.split = 0 \/ FALSE)
      BY <2>1, <3>1
    <3>. QED  BY <3>2
  <2>3. Even(p, j.l1K)
    BY <1>1, <2>2, NoneMissing DEF OperandNumbers
  <2>4. p.tile * j.l1K \in Nat
    <3>1. p.tile \in Nat /\ j.l1K \in Nat
      BY <1>1, <2>2 DEF OperandNumbers, PieceIn, Positive
    <3>. QED  BY <3>1, MulMonotone
  <2>. QED  BY <1>2, <2>2, <2>3, <2>4 DEF PieceIn, Even
<1>3. CASE j.fn \notin {"Coordinate", "Layout", "StreamK"}
  <2>1. p \in Whole(j.K)
    BY <1>3 DEF KPieces
  <2>. QED  BY <1>1, <1>3, <2>1, WholeFields DEF OperandNumbers
<1>. QED  BY <1>2, <1>3

-----------------------------------------------------------------------------
\* Positions of rows that have one scale for several of them.
LEMMA GroupSum ==
    ASSUME NEW g \in Positive, NEW p, p.start \in Nat, p.length \in Nat, InGroup(p, g), NEW x \in 0 .. p.length - 1
    PROVE  (p.start + x) \div g = (p.start \div g) + (x \div g)
<1> DEFINE s == p.start  q1 == s \div g  r1 == s % g  q2 == x \div g  r2 == x % g
<1>0. x \in Nat /\ s \in Nat /\ g \in Nat /\ g > 0
  BY DEF Positive
<1>1. q1 \in Nat /\ r1 \in 0 .. g - 1 /\ s = g * q1 + r1 /\ q2 \in Nat /\ r2 \in 0 .. g - 1 /\ x = g * q2 + r2
  BY <1>0, DivMod
<1>2. CASE r1 = 0
  <2>. HIDE DEF q1, r1, q2, r2, s
  <2>1. s + x = g * (q1 + q2) + r2 /\ q1 + q2 \in Nat
    BY <1>0, <1>1, <1>2
  <2>2. (g * (q1 + q2) + r2) \div g = q1 + q2
    BY <1>1, <2>1, DivModUnique
  <2>3. (s + x) \div g = q1 + q2
    BY <2>1, <2>2
  <2>. QED  BY <2>3 DEF q1, q2, s
<1>3. CASE r1 + p.length <= g
  <2>0. r1 + x \in 0 .. g - 1 /\ x \in 0 .. g - 1
    <3>. HIDE DEF r1
    <3>. QED  BY <1>0, <1>1, <1>3
  <2>. HIDE DEF q1, r1, s
  <2>1. s + x = g * q1 + (r1 + x)
    BY <1>0, <1>1
  <2>2. (g * q1 + (r1 + x)) \div g = q1
    BY <1>1, <2>0, DivModUnique
  <2>3. q2 = 0
    <3>1. (g * 0 + x) \div g = 0
      BY <2>0, DivModUnique
    <3>2. g * 0 + x = x
      BY <1>0
    <3>. QED  BY <3>1, <3>2
  <2>. HIDE DEF q2
  <2>4. (s + x) \div g = q1 + q2
    BY <1>1, <2>1, <2>2, <2>3
  <2>. QED  BY <2>4 DEF q1, q2, s
<1>. QED  BY <1>2, <1>3 DEF InGroup

-----------------------------------------------------------------------------
(* Operands: the cells of a tile, from its first one.                      *)
(* From where its tile begins, a kernel finds each cell of it.                                       *)
AddsUp(j, t) ==
  \A r \in 0 .. t.height - 1, c \in 0 .. t.width - 1 :
     CellAt(j, t.row.start, t.col.start) + CellAt(j, r, c) = CellAt(j, t.row.start + r, t.col.start + c)

\* The parts that a tile of an operand is made of.
LEMMA OperandTile ==
    ASSUME NEW j, NEW t \in OperandTiles(j)
    PROVE  /\ t.row \in PiecesDown(j) /\ t.col \in PiecesAcross(j)
           /\ t.height = t.row.length /\ t.width = t.col.length
           /\ t = [row |-> t.row, col |-> t.col, height |-> t.row.length, width |-> t.col.length]
<1>1. PICK r \in PiecesDown(j), c \in PiecesAcross(j) :
        t = [row |-> r, col |-> c, height |-> r.length, width |-> c.length]
  BY DEF OperandTiles
<1>2. t.row = r /\ t.col = c /\ t.height = r.length /\ t.width = c.length
  BY <1>1
<1>. QED  BY <1>1, <1>2

ScalesSum(j, tr, rows) ==
  \A x, y, s \in Nat : ScaleAt(j, tr, rows, x, 0) + ScaleAt(j, tr, rows, y, s) = ScaleAt(j, tr, rows, x + y, s)

\* Scales of rows from one with no scales of its own before it.
LEMMA ScaleSum ==
    ASSUME NEW j, OperandLegal(j), NEW tr, NEW rows \in Nat
    PROVE  ScalesSum(j, tr, rows)
<1>. SUFFICES ASSUME NEW x \in Nat, NEW y \in Nat, NEW s \in Nat
              PROVE  ScaleAt(j, tr, rows, x, 0) + ScaleAt(j, tr, rows, y, s) = ScaleAt(j, tr, rows, x + y, s)
  BY DEF ScalesSum
<1>1. OperandNumbers(j) /\ j.mode \in {"PERGROUP", "PERBLOCK", "MX", "OTHER"}
  BY OperandFacts DEF OperandLegal
<1>2. CeilDiv(j.K, PerBlock) \in Nat /\ MxScales(j.K) \in Nat
  <2>1. CeilDiv(j.K, PerBlock) \in Nat /\ CeilDiv(j.K, MxfpDivisor) \in Nat /\ MxfpMulti \in Nat
    BY <1>1, CeilFacts DEF OperandNumbers, Positive
  <2>. QED  BY <2>1, MulMonotone DEF MxScales
<1>3. CASE ByBlocks(j)
  <2> DEFINE k == CeilDiv(j.K, PerBlock)
  <2>1. \A u, v : ScaleAt(j, tr, rows, u, v) = IF tr THEN v * rows + u ELSE u * k + v
    <3>1. j.mode # "MX" /\ j.mode # "OTHER"
      BY <1>3 DEF ByBlocks
    <3>. QED  BY <1>3, <3>1 DEF ScaleAt, RowMajorAt
  <2>2. k \in Nat
    BY <1>2
  <2>. HIDE DEF k
  <2>3. /\ (0 * rows + x) + (s * rows + y) = s * rows + (x + y)
        /\ (x * k + 0) + (y * k + s) = (x + y) * k + s
    BY <2>2
  <2>. QED  BY <2>1, <2>3
<1>4. CASE j.mode = "MX"
  <2> DEFINE k == MxScales(j.K)  q == s \div MxfpMulti  e == s % MxfpMulti
  <2>1. ~ByBlocks(j)
    BY <1>4 DEF ByBlocks
  <2>2. \A u, v : ScaleAt(j, tr, rows, u, v) =
             IF tr THEN MxfpMulti * ((v \div MxfpMulti) * rows + u) + (v % MxfpMulti) ELSE u * k + v
    BY <1>4, <2>1 DEF ScaleAt, RowMajorAt
  <2>3. k \in Nat /\ q \in Nat /\ e \in Nat /\ MxfpMulti \in Nat
    <3>1. q \in Nat /\ e \in 0 .. MxfpMulti - 1 /\ MxfpMulti \in Positive
      BY <1>1, DivMod DEF OperandNumbers
    <3>. HIDE DEF q, e
    <3>. QED  BY <1>2, <3>1 DEF Positive
  <2>4. 0 \div MxfpMulti = 0 /\ 0 % MxfpMulti = 0
    BY <1>1, ZeroDivMod DEF OperandNumbers
  <2>5. /\ ScaleAt(j, tr, rows, x, 0) = IF tr THEN MxfpMulti * (0 * rows + x) + 0 ELSE x * k + 0
        /\ ScaleAt(j, tr, rows, y, s) = IF tr THEN MxfpMulti * (q * rows + y) + e ELSE y * k + s
        /\ ScaleAt(j, tr, rows, x + y, s) = IF tr THEN MxfpMulti * (q * rows + (x + y)) + e ELSE (x + y) * k + s
    BY <2>2, <2>4
  <2>. HIDE DEF k, q, e
  <2>6. /\ (MxfpMulti * (0 * rows + x) + 0) + (MxfpMulti * (q * rows + y) + e) = MxfpMulti * (q * rows + (x + y)) + e
        /\ (x * k + 0) + (y * k + s) = (x + y) * k + s
    BY <2>3
  <2>. QED  BY <2>5, <2>6
<1>5. CASE j.mode = "OTHER"
  <2>1. ~ByBlocks(j)
    BY <1>5 DEF ByBlocks
  <2>2. \A u, v : ScaleAt(j, tr, rows, u, v) = u
    BY <1>5, <2>1 DEF ScaleAt
  <2>. QED  BY <2>2
<1>. QED  BY <1>1, <1>3, <1>4, <1>5 DEF ByBlocks

\* The matrices and the bias.
LEMMA MatrixAddsUp ==
    ASSUME NEW j, OperandLegal(j), NEW t \in OperandTiles(j), j.operand \in {"A", "B", "C", "bias"}
    PROVE  AddsUp(j, t)
<1>1. OperandNumbers(j) /\ {j.transA, j.transB, j.nz} \subseteq BOOLEAN
  BY OperandFacts DEF OperandLegal
<1>2. t.row \in PiecesDown(j) /\ t.col \in PiecesAcross(j) /\ t.height = t.row.length /\ t.width = t.col.length
  BY OperandTile
<1>3. /\ \A p \in MPieces(j) : p.start \in Nat /\ p.length \in Nat
      /\ \A p \in NPieces(j) : p.start \in Nat /\ p.length \in Nat
      /\ \A p \in KPieces(j) : p.start \in Nat /\ p.length \in Nat
      /\ \A p \in Whole(1)   : p.start \in Nat /\ p.length \in Nat
  <2>1. \A p \in Whole(1) : p.start \in Nat /\ p.length \in Nat
    BY WholeFields
  <2>. QED  BY <2>1, PartsOfM, PartsOfN, PartsOfK DEF PieceIn
<1> DEFINE rs == t.row.start  cs == t.col.start
<1>4. rs \in Nat /\ cs \in Nat /\ t.height \in Nat /\ t.width \in Nat
  BY <1>2, <1>3 DEF PiecesDown, PiecesAcross
<1>. SUFFICES ASSUME NEW r \in 0 .. t.height - 1, NEW c \in 0 .. t.width - 1
              PROVE  CellAt(j, rs, cs) + CellAt(j, r, c) = CellAt(j, rs + r, cs + c)
  BY DEF AddsUp
<1>. HIDE DEF rs, cs
<1>5. r \in Nat /\ c \in Nat
  BY <1>4
<1>6. ASSUME NEW s \in Nat
      PROVE  /\ RowMajorAt(s, rs, cs) + RowMajorAt(s, r, c) = RowMajorAt(s, rs + r, cs + c)
             /\ RowMajorAt(s, cs, rs) + RowMajorAt(s, c, r) = RowMajorAt(s, cs + c, rs + r)
  BY <1>4, <1>5 DEF RowMajorAt
<1>7. CASE j.operand = "A"
  BY <1>1, <1>6, <1>7 DEF CellAt, OperandNumbers
<1>8. CASE j.operand = "B" /\ ~j.nz
  BY <1>1, <1>6, <1>8 DEF CellAt, OperandNumbers
<1>9. CASE j.operand = "B" /\ j.nz
  <2>1. /\ j.transB  => rs % j.c0 = 0
        /\ ~j.transB => cs % j.c0 = 0
    BY <1>2, <1>9 DEF OperandLegal, PiecesDown, PiecesAcross, rs, cs
  <2>2. CeilAlign(j.N, Cube) \in Nat /\ CeilAlign(j.K, Cube) \in Nat
    BY <1>1, CeilFacts DEF OperandNumbers
  <2>3. CASE j.transB
    <3>1. \A u, v : CellAt(j, u, v) = NzAt(CeilAlign(j.N, Cube), j.c0, v, u)
      BY <1>9, <2>3 DEF CellAt
    <3> DEFINE h == CeilAlign(j.N, Cube)
    <3>2. h \in Int /\ j.c0 \in Positive /\ rs % j.c0 = 0
      BY <1>1, <2>1, <2>2, <2>3 DEF OperandNumbers
    <3>. HIDE DEF h
    <3>3. NzAt(h, j.c0, cs, rs) + NzAt(h, j.c0, c, r) = NzAt(h, j.c0, cs + c, rs + r)
      BY <1>4, <1>5, <3>2, NzSum
    <3>. QED  BY <3>1, <3>3 DEF h
  <2>4. CASE ~j.transB
    <3>1. \A u, v : CellAt(j, u, v) = NzAt(CeilAlign(j.K, Cube), j.c0, u, v)
      BY <1>9, <2>4 DEF CellAt
    <3> DEFINE h == CeilAlign(j.K, Cube)
    <3>2. h \in Int /\ j.c0 \in Positive /\ cs % j.c0 = 0
      BY <1>1, <2>1, <2>2, <2>4 DEF OperandNumbers
    <3>. HIDE DEF h
    <3>3. NzAt(h, j.c0, rs, cs) + NzAt(h, j.c0, r, c) = NzAt(h, j.c0, rs + r, cs + c)
      BY <1>4, <1>5, <3>2, NzSum
    <3>. QED  BY <3>1, <3>3 DEF h
  <2>. QED  BY <2>3, <2>4
<1>10. CASE j.operand = "C"
  <2>1. \A u, v : CellAt(j, u, v) = RowMajorAt(Wide(j), u, v)
    BY <1>10 DEF CellAt, Wide
  <2>. QED  BY <1>1, <1>6, <2>1 DEF OperandNumbers
<1>11. CASE j.operand = "bias"
  <2>1. \A u, v : CellAt(j, u, v) = v
    BY <1>11 DEF CellAt
  <2>. QED  BY <2>1
<1>. QED  BY <1>1, <1>7, <1>8, <1>9, <1>10, <1>11

\* The scales of A, of B and of the result.
LEMMA ScalesOfAAddUp ==
    ASSUME NEW j, OperandLegal(j), NEW t \in OperandTiles(j), j.operand = "x1Scale"
    PROVE  AddsUp(j, t)
<1>1. OperandNumbers(j) /\ j.transA \in BOOLEAN
  BY OperandFacts DEF OperandLegal
<1>2. t.row \in MPieces(j) /\ t.col \in Whole(ScalesOfK(j)) /\ t.height = t.row.length
  BY OperandTile DEF PiecesDown, PiecesAcross
<1>3. t.row.start \in Nat /\ t.row.length \in Nat /\ t.col.start = 0
  BY <1>2, PartsOfM, WholeFields DEF PieceIn
<1>. SUFFICES ASSUME NEW r \in 0 .. t.height - 1, NEW c \in 0 .. t.width - 1
              PROVE  CellAt(j, t.row.start, t.col.start) + CellAt(j, r, c) = CellAt(j, t.row.start + r, t.col.start + c)
  BY DEF AddsUp
<1>4. r \in Nat /\ c \in Nat /\ t.col.start + c = c /\ r \in 0 .. t.row.length - 1
  <2>1. c \in Nat /\ r \in Nat
    BY <1>2, <1>3
  <2>. QED  BY <1>2, <1>3, <2>1
<1>5. CASE j.mode = "PERBLOCK"
  <2> DEFINE rows == CeilDiv(j.M, PerBlock)  x == t.row.start \div PerBlock  y == r \div PerBlock
  <2>1. InGroup(t.row, PerBlock)
    BY <1>2, <1>5 DEF OperandLegal
  <2>2. (t.row.start + r) \div PerBlock = x + y
    BY <1>1, <1>3, <1>4, <2>1, GroupSum DEF OperandNumbers
  <2>3. rows \in Nat /\ x \in Nat /\ y \in Nat
    BY <1>1, <1>3, <1>4, CeilFacts, DivMod DEF OperandNumbers
  <2>4. \A u, v : CellAt(j, u, v) = ScaleAt(j, j.transA, rows, u \div PerBlock, v)
    BY <1>5 DEF CellAt
  <2>. HIDE DEF rows, x, y
  <2>5. ScaleAt(j, j.transA, rows, x, 0) + ScaleAt(j, j.transA, rows, y, c) = ScaleAt(j, j.transA, rows, x + y, c)
    <3>1. ScalesSum(j, j.transA, rows)
      BY <2>3, ScaleSum
    <3>. QED  BY <1>4, <2>3, <3>1 DEF ScalesSum
  <2>6. /\ CellAt(j, t.row.start, t.col.start) = ScaleAt(j, j.transA, rows, x, 0)
        /\ CellAt(j, r, c) = ScaleAt(j, j.transA, rows, y, c)
        /\ CellAt(j, t.row.start + r, t.col.start + c) = ScaleAt(j, j.transA, rows, x + y, c)
    BY <1>3, <1>4, <2>2, <2>4 DEF x, y
  <2>. QED  BY <2>5, <2>6
<1>6. CASE j.mode # "PERBLOCK"
  <2>1. \A u, v : CellAt(j, u, v) = ScaleAt(j, j.transA, j.M, u, v)
    BY <1>6 DEF CellAt
  <2>2. ScaleAt(j, j.transA, j.M, t.row.start, 0) + ScaleAt(j, j.transA, j.M, r, c)
          = ScaleAt(j, j.transA, j.M, t.row.start + r, c)
    <3>1. j.M \in Nat
      BY <1>1 DEF OperandNumbers
    <3>2. ScalesSum(j, j.transA, j.M)
      BY <3>1, ScaleSum
    <3>. QED  BY <1>3, <1>4, <3>2 DEF ScalesSum
  <2>. QED  BY <1>3, <1>4, <2>1, <2>2
<1>. QED  BY <1>5, <1>6

LEMMA ScalesOfBAddUp ==
    ASSUME NEW j, OperandLegal(j), NEW t \in OperandTiles(j), j.operand = "x2Scale"
    PROVE  AddsUp(j, t)
<1> DEFINE tr == ~j.transB
<1>1. OperandNumbers(j) /\ tr \in BOOLEAN
  BY OperandFacts DEF OperandLegal
<1>2. t.row \in Whole(ScalesOfK(j)) /\ t.col \in NPieces(j) /\ t.width = t.col.length
  BY OperandTile DEF PiecesDown, PiecesAcross
<1>3. t.col.start \in Nat /\ t.col.length \in Nat /\ t.row.start = 0
  BY <1>2, PartsOfN, WholeFields DEF PieceIn
<1>. SUFFICES ASSUME NEW r \in 0 .. t.height - 1, NEW c \in 0 .. t.width - 1
              PROVE  CellAt(j, t.row.start, t.col.start) + CellAt(j, r, c) = CellAt(j, t.row.start + r, t.col.start + c)
  BY DEF AddsUp
<1>4. r \in Nat /\ c \in Nat /\ t.row.start + r = r /\ c \in 0 .. t.col.length - 1
  <2>1. c \in Nat /\ r \in Nat
    BY <1>2, <1>3
  <2>. QED  BY <1>2, <1>3, <2>1
<1>5. CASE ByBlocks(j)
  <2> DEFINE rows == CeilDiv(j.N, PerBlock)  x == t.col.start \div PerBlock  y == c \div PerBlock
  <2>1. InGroup(t.col, PerBlock)
    BY <1>2, <1>5 DEF OperandLegal, InGroup
  <2>2. (t.col.start + c) \div PerBlock = x + y
    BY <1>1, <1>3, <1>4, <2>1, GroupSum DEF OperandNumbers
  <2>3. rows \in Nat /\ x \in Nat /\ y \in Nat
    BY <1>1, <1>3, <1>4, CeilFacts, DivMod DEF OperandNumbers
  <2>4. \A u, v : CellAt(j, u, v) = ScaleAt(j, tr, rows, v \div PerBlock, u)
    BY <1>5 DEF CellAt
  <2>. HIDE DEF rows, x, y, tr
  <2>5. ScaleAt(j, tr, rows, x, 0) + ScaleAt(j, tr, rows, y, r) = ScaleAt(j, tr, rows, x + y, r)
    <3>1. ScalesSum(j, tr, rows)
      BY <2>3, ScaleSum
    <3>. QED  BY <1>4, <2>3, <3>1 DEF ScalesSum
  <2>6. /\ CellAt(j, t.row.start, t.col.start) = ScaleAt(j, tr, rows, x, 0)
        /\ CellAt(j, r, c) = ScaleAt(j, tr, rows, y, r)
        /\ CellAt(j, t.row.start + r, t.col.start + c) = ScaleAt(j, tr, rows, x + y, r)
    BY <1>3, <1>4, <2>2, <2>4 DEF x, y
  <2>. QED  BY <2>5, <2>6
<1>6. CASE ~ByBlocks(j)
  <2>1. \A u, v : CellAt(j, u, v) = ScaleAt(j, tr, j.N, v, u)
    BY <1>6 DEF CellAt
  <2>. HIDE DEF tr
  <2>2. ScaleAt(j, tr, j.N, t.col.start, 0) + ScaleAt(j, tr, j.N, c, r) = ScaleAt(j, tr, j.N, t.col.start + c, r)
    <3>1. j.N \in Nat
      BY <1>1 DEF OperandNumbers
    <3>2. ScalesSum(j, tr, j.N)
      BY <3>1, ScaleSum
    <3>. QED  BY <1>3, <1>4, <3>2 DEF ScalesSum
  <2>. QED  BY <1>3, <1>4, <2>1, <2>2
<1>. QED  BY <1>5, <1>6

(* Elements of the result that have one scale.                                                       *)
PerScale == MxfpDivisor \div MxfpMulti
LEMMA PerScaleFacts ==
    PerScale \in Positive /\ MxfpDivisor = MxfpMulti * PerScale /\ MxfpDivisor % PerScale = 0
<1>1. MxfpDivisor \in Positive /\ MxfpMulti \in Positive /\ MxfpDivisor % MxfpMulti = 0
  BY ScaleAssumption DEF Positive
<1>2. PerScale \in Nat /\ MxfpDivisor = MxfpMulti * PerScale
  BY <1>1, CeilOfMultiple, DivMod DEF PerScale, Positive
<1>3. PerScale # 0
  <2>. SUFFICES ASSUME PerScale = 0 PROVE FALSE
    OBVIOUS
  <2>1. MxfpDivisor = MxfpMulti * 0
    BY <1>2
  <2>. QED  BY <1>1, <2>1 DEF Positive
<1>4. MxfpDivisor = PerScale * MxfpMulti + 0 /\ 0 \in 0 .. PerScale - 1
  BY <1>1, <1>2, <1>3 DEF Positive
<1>5. (PerScale * MxfpMulti + 0) % PerScale = 0
  BY <1>1, <1>2, <1>3, <1>4, DivModUnique DEF Positive
<1>. QED  BY <1>2, <1>3, <1>4, <1>5 DEF Positive

LEMMA ScalesOfCAddUp ==
    ASSUME NEW j, OperandLegal(j), NEW t \in OperandTiles(j), j.operand = "yScale"
    PROVE  AddsUp(j, t)
<1>1. OperandNumbers(j) /\ j.fn = "QuantIO"
  BY OperandFacts DEF OperandLegal
<1>2. t.row \in MPieces(j) /\ t.col \in NPieces(j) /\ t.height = t.row.length /\ t.width = t.col.length
  BY OperandTile DEF PiecesDown, PiecesAcross
<1>3. t.row.start \in Nat /\ t.row.length \in Nat /\ t.col.start \in Nat /\ t.col.length \in Nat
  BY <1>2, PartsOfM, PartsOfN DEF PieceIn
<1>. SUFFICES ASSUME NEW r \in 0 .. t.height - 1, NEW c \in 0 .. t.width - 1
              PROVE  CellAt(j, t.row.start, t.col.start) + CellAt(j, r, c) = CellAt(j, t.row.start + r, t.col.start + c)
  BY DEF AddsUp
<1>4. r \in Nat /\ c \in Nat /\ c \in 0 .. t.col.length - 1
  BY <1>2, <1>3
<1>5. InGroup(t.col, PerScale)
  <2>1. t.col.start % MxfpDivisor = 0 /\ MxfpDivisor \in Positive
    BY <1>1, <1>2 DEF OperandLegal, OperandNumbers
  <2>2. t.col.start % PerScale = 0
    BY <1>3, <2>1, PerScaleFacts, MultipleOfMultiple
  <2>. QED  BY <2>2 DEF InGroup
<1> DEFINE k == MxScales(j.N \div 2)  x == t.col.start \div PerScale  y == c \div PerScale
<1>6. (t.col.start + c) \div PerScale = x + y
  BY <1>3, <1>4, <1>5, PerScaleFacts, GroupSum
<1>7. k \in Nat /\ x \in Nat /\ y \in Nat
  <2>1. x \in Nat /\ y \in Nat
    BY <1>3, <1>4, PerScaleFacts, DivMod
  <2>2. j.N \div 2 \in Nat
    BY <1>1 DEF OperandNumbers, Wide
  <2>3. CeilDiv(j.N \div 2, MxfpDivisor) \in Nat /\ MxfpMulti \in Nat
    BY <1>1, <2>2, CeilFacts DEF OperandNumbers, Positive
  <2>4. k \in Nat
    BY <2>3, MulMonotone DEF MxScales
  <2>. QED  BY <2>1, <2>4
<1>8. \A u, v : CellAt(j, u, v) = RowMajorAt(k, u, v \div PerScale)
  BY DEF CellAt, PerScale
<1>. HIDE DEF k, x, y
<1>9. RowMajorAt(k, t.row.start, x) + RowMajorAt(k, r, y) = RowMajorAt(k, t.row.start + r, x + y)
  BY <1>3, <1>4, <1>7 DEF RowMajorAt
<1>10. /\ CellAt(j, t.row.start, t.col.start) = RowMajorAt(k, t.row.start, x)
       /\ CellAt(j, r, c) = RowMajorAt(k, r, y)
       /\ CellAt(j, t.row.start + r, t.col.start + c) = RowMajorAt(k, t.row.start + r, x + y)
  BY <1>6, <1>8 DEF x, y
<1>. QED  BY <1>9, <1>10

LEMMA CellsAddUp == ASSUME NEW j, OperandLegal(j), NEW t \in OperandTiles(j) PROVE AddsUp(j, t)
<1>1. j.operand \in {"A", "B", "C", "bias", "x1Scale", "x2Scale", "yScale"}
  BY DEF OperandLegal
<1>. QED  BY <1>1, MatrixAddsUp, ScalesOfAAddUp, ScalesOfBAddUp, ScalesOfCAddUp

-----------------------------------------------------------------------------
(* Operands: where a tile begins.                                          *)
(* What a kernel computes is where the first cell of the tile is.                                    *)
OffsetRight(j, t) == TileOffset(j, t) = j.batch * BatchSize(j) + CellAt(j, t.row.start, t.col.start)

(* Sizes of matrices, of all the batches before this one.                                            *)
Batches(j, a, b) == j.batch * (a * b)

LEMMA BatchesFacts ==
    ASSUME NEW j, j.batch \in Nat, NEW a \in Nat, NEW b \in Nat
    PROVE  /\ Batches(j, a, b) \in Nat
           /\ j.batch * a * b = Batches(j, a, b) /\ j.batch * b * a = Batches(j, a, b)
           /\ j.batch = 0 => Batches(j, a, b) = 0
<1>1. a * b \in Nat
  BY MulMonotone
<1>2. (a * b) * j.batch \in Nat
  BY <1>1, MulMonotone
<1>. QED  BY <1>1, <1>2 DEF Batches

\* Batch by batch a matrix is one tile.
LEMMA OneEdge ==
    ASSUME NEW p, NEW size \in Nat, NEW l1 \in Positive, NEW normal, NEW tail, PieceIn(p, size, l1, normal, tail),
           size <= l1, Even(p, l1), p.split = 0
    PROVE  p.start = 0
<1>1. p.tile \in Nat /\ p.start \in Nat /\ p.length \in Nat /\ 1 <= p.length /\ p.start + p.length <= size
  BY DEF PieceIn
<1>2. l1 \in Nat /\ 1 <= l1
  BY DEF Positive
<1>3. p.tile # 0 => l1 <= p.tile * l1
  <2>1. 1 * l1 = l1
    BY <1>2
  <2>2. p.tile # 0 => 1 <= p.tile
    BY <1>1
  <2>. QED  BY <1>1, <1>2, <2>1, <2>2, MulMonotone
<1>4. p.tile = 0 => p.tile * l1 = 0
  BY <1>2
<1> DEFINE x == p.tile * l1
<1>5. p.start = x + 0
  BY DEF Even
<1>. HIDE DEF x
<1>6. p.tile # 0 => l1 <= x
  BY <1>3 DEF x
<1>7. p.tile = 0 => x = 0
  BY <1>4 DEF x
<1>8. x \in Nat
  <2>1. p.tile * l1 \in Nat
    BY <1>1, <1>2, MulMonotone
  <2>. QED  BY <2>1 DEF x
<1>. QED  BY <1>1, <1>2, <1>5, <1>6, <1>7, <1>8

(* The edge of a tile where the functions of an index find it.                                       *)
RowFound(j, p) ==
  /\ p.start \in Nat
  /\ ~j.balanced => p.start = p.tile * j.l1M + p.split
  /\ ~j.shared => p.split = 0
  /\ j.fn = "IterBatch" => p.start = 0
  /\ p.start = p.tile * j.l1M + p.split - Missing(p.tile, j.normM, j.l1M, j.tailM)
  /\ p.tile * j.l1M \in Nat /\ p.split \in Nat
ColFound(j, p) ==
  /\ p.start \in Nat
  /\ ~j.balanced => p.start = p.tile * j.l1N + p.split
  /\ ~j.shared => p.split = 0
  /\ j.fn = "IterBatch" => p.start = 0
  /\ p.start = p.tile * j.l1N + p.split - Missing(p.tile, j.normN, j.l1N, j.tailN)
  /\ p.tile * j.l1N \in Nat /\ p.split \in Nat

LEMMA RowsFound == ASSUME NEW j, OperandLegal(j), NEW p \in MPieces(j) PROVE RowFound(j, p)
<1>1. OperandNumbers(j)
  BY OperandFacts
<1>2. PieceIn(p, j.M, j.l1M, j.normM, j.tailM) /\ (p.split = 0 \/ j.shared) /\ (~j.balanced => Even(p, j.l1M))
  BY PartsOfM
<1>3. j.fn = "IterBatch" => p.start = 0
  <2>1. j.fn = "IterBatch" => ~j.shared /\ j.M <= j.l1M /\ ~j.balanced
    BY DEF OperandLegal
  <2>. QED  BY <1>1, <1>2, <2>1, OneEdge DEF OperandNumbers
<1>4. p.tile * j.l1M \in Nat
  <2>1. p.tile \in Nat /\ j.l1M \in Nat
    BY <1>1, <1>2 DEF OperandNumbers, PieceIn, Positive
  <2>. QED  BY <2>1, MulMonotone
<1>. QED  BY <1>2, <1>3, <1>4 DEF RowFound, PieceIn, Even

LEMMA ColsFound == ASSUME NEW j, OperandLegal(j), NEW p \in NPieces(j) PROVE ColFound(j, p)
<1>1. OperandNumbers(j)
  BY OperandFacts
<1>2. PieceIn(p, Wide(j), j.l1N, j.normN, j.tailN) /\ (p.split = 0 \/ j.shared) /\ (~j.balanced => Even(p, j.l1N))
  BY PartsOfN
<1>3. j.fn = "IterBatch" => p.start = 0
  <2>1. j.fn = "IterBatch" => ~j.shared /\ Wide(j) <= j.l1N /\ ~j.balanced
    BY DEF OperandLegal, Wide
  <2>. QED  BY <1>1, <1>2, <2>1, OneEdge DEF OperandNumbers
<1>4. p.tile * j.l1N \in Nat
  <2>1. p.tile \in Nat /\ j.l1N \in Nat
    BY <1>1, <1>2 DEF OperandNumbers, PieceIn, Positive
  <2>. QED  BY <2>1, MulMonotone
<1>. QED  BY <1>2, <1>3, <1>4 DEF ColFound, PieceIn, Even

-----------------------------------------------------------------------------
(* Where an edge begins, as the two quantised functions compute it.                                  *)
QuantEdge(j, p, normal, l1, tail) ==
  p.tile * l1 + p.split - (IF j.balanced /\ ~(j.transA /\ ~j.transB) THEN Missing(p.tile, normal, l1, tail) ELSE 0)

LEMMA QuantEdges ==
    ASSUME NEW j, OperandLegal(j)
    PROVE  /\ \A p : RowFound(j, p) => QuantEdge(j, p, j.normM, j.l1M, j.tailM) = p.start
           /\ \A p : ColFound(j, p) => QuantEdge(j, p, j.normN, j.l1N, j.tailN) = p.start
<1>1. j.balanced => ~(j.transA /\ ~j.transB)
  BY DEF OperandLegal
<1>2. ASSUME NEW p, RowFound(j, p) PROVE QuantEdge(j, p, j.normM, j.l1M, j.tailM) = p.start
  <2> DEFINE a == p.tile * j.l1M  b == Missing(p.tile, j.normM, j.l1M, j.tailM)
  <2>1. a \in Nat /\ p.split \in Nat /\ p.start = a + p.split - b /\ (~j.balanced => p.start = a + p.split)
    BY <1>2 DEF RowFound
  <2>2. QuantEdge(j, p, j.normM, j.l1M, j.tailM) = a + p.split - (IF j.balanced THEN b ELSE 0)
    BY <1>1 DEF QuantEdge
  <2>. HIDE DEF a, b
  <2>. QED  BY <2>1, <2>2
<1>3. ASSUME NEW p, ColFound(j, p) PROVE QuantEdge(j, p, j.normN, j.l1N, j.tailN) = p.start
  <2> DEFINE a == p.tile * j.l1N  b == Missing(p.tile, j.normN, j.l1N, j.tailN)
  <2>1. a \in Nat /\ p.split \in Nat /\ p.start = a + p.split - b /\ (~j.balanced => p.start = a + p.split)
    BY <1>3 DEF ColFound
  <2>2. QuantEdge(j, p, j.normN, j.l1N, j.tailN) = a + p.split - (IF j.balanced THEN b ELSE 0)
    BY <1>1 DEF QuantEdge
  <2>. HIDE DEF a, b
  <2>. QED  BY <2>1, <2>2
<1>. QED  BY <1>2, <1>3

\* Where a tile of A begins.
LEMMA OffsetOfA ==
    ASSUME NEW j, OperandLegal(j), NEW t \in OperandTiles(j), j.operand = "A"
    PROVE  OffsetRight(j, t)
<1> DEFINE m == t.row  k == t.col  before == Batches(j, j.M, j.K)
<1>1. OperandNumbers(j) /\ m \in MPieces(j) /\ k \in KPieces(j)
  BY OperandFacts, OperandTile DEF PiecesDown, PiecesAcross
<1>2. RowFound(j, m) /\ k.start \in Nat /\ k.tile \in Nat
  BY <1>1, RowsFound, PartsOfK
<1>3. IF j.fn \in {"Coordinate", "Layout", "StreamK"} THEN k.start = k.tile * j.l1K ELSE k.start = 0
  BY <1>1, PartsOfK
<1>4. before \in Nat /\ j.batch * j.M * j.K = before /\ (j.batch = 0 => before = 0)
  BY <1>1, BatchesFacts DEF OperandNumbers
<1>5. j.batch * BatchSize(j) + CellAt(j, m.start, k.start)
        = before + (IF j.transA THEN k.start * j.M + m.start ELSE m.start * j.K + k.start)
  BY DEF BatchSize, CellAt, RowMajorAt, Batches
<1>6. /\ m.start \in Nat /\ j.M \in Nat /\ j.K \in Nat
      /\ 0 * j.M = 0 /\ 0 * j.K = 0
  BY <1>1, <1>2 DEF RowFound, OperandNumbers
<1>7. /\ m.start * j.K \in Nat /\ k.start * j.M \in Nat
      /\ m.start = 0 => m.start * j.K = 0
      /\ k.start = 0 => k.start * j.M = 0
  BY <1>2, <1>6, MulMonotone
<1>. HIDE DEF before
<1> DEFINE goal == before + (IF j.transA THEN k.start * j.M + m.start ELSE m.start * j.K + k.start)
<1>8. CASE j.fn = "Layout"
  <2>1. TileOffset(j, t) = (IF j.transA THEN k.start * j.M + m.start ELSE m.start * j.K + k.start) + j.batch * j.M * j.K
    BY <1>8 DEF TileOffset, GetOffset, LayoutAt, RowMajorAt
  <2>. QED  BY <1>2, <1>4, <1>5, <1>6, <1>7, <2>1 DEF OffsetRight
<1>9. CASE j.fn = "WithoutLayout"
  <2>1. TileOffset(j, t) = j.batch * j.M * j.K + (IF j.transA THEN m.start ELSE m.start * j.K)
    BY <1>9 DEF TileOffset, GetOffsetWithoutLayout
  <2>. QED  BY <1>2, <1>3, <1>4, <1>5, <1>6, <1>7, <1>9, <2>1 DEF OffsetRight
<1>10. CASE j.fn = "IterBatch"
  <2>1. TileOffset(j, t) = j.batch * j.M * j.K
    BY <1>10 DEF TileOffset, GetOffsetIterBatch
  <2>2. m.start = 0 /\ k.start = 0
    BY <1>2, <1>3, <1>10 DEF RowFound
  <2>. QED  BY <1>4, <1>5, <1>6, <1>7, <2>1, <2>2 DEF OffsetRight
<1>11. CASE j.fn = "StreamK"
  <2>1. TileOffset(j, t) = j.batch * j.M * j.K
          + (IF j.transA THEN m.tile * j.l1M + k.tile * j.l1K * j.M ELSE m.tile * j.l1M * j.K + k.tile * j.l1K)
    BY <1>11 DEF TileOffset, GetOffsetStreamK
  <2>2. m.start = m.tile * j.l1M /\ k.start = k.tile * j.l1K
    <3>1. ~j.shared /\ ~j.balanced
      BY <1>11 DEF OperandLegal
    <3>. QED  BY <1>2, <1>3, <1>11, <3>1 DEF RowFound
  <2>. QED  BY <1>4, <1>5, <1>6, <1>7, <2>1, <2>2 DEF OffsetRight
<1>12. CASE j.fn = "Coordinate"
  <2>1. TileOffset(j, t) = IF j.transA THEN j.batch * j.M * j.K + k.tile * j.l1K * j.M + (m.tile * j.l1M + m.split)
                           ELSE j.batch * j.M * j.K + (m.tile * j.l1M + m.split) * j.K + k.tile * j.l1K
    BY <1>12 DEF TileOffset, GetAOffset
  <2>2. m.start = m.tile * j.l1M + m.split /\ k.start = k.tile * j.l1K
    <3>1. ~j.balanced
      BY <1>12 DEF OperandLegal
    <3>. QED  BY <1>2, <1>3, <1>12, <3>1 DEF RowFound
  <2>3. TileOffset(j, t) = IF j.transA THEN before + k.start * j.M + m.start ELSE before + m.start * j.K + k.start
    BY <1>4, <2>1, <2>2
  <2> DEFINE a == k.start * j.M  b == m.start * j.K
  <2>4. a \in Nat /\ b \in Nat /\ TileOffset(j, t) = IF j.transA THEN before + a + m.start ELSE before + b + k.start
    BY <1>7, <2>3
  <2>5. j.batch * BatchSize(j) + CellAt(j, m.start, k.start) = before + (IF j.transA THEN a + m.start ELSE b + k.start)
    BY <1>5
  <2>. HIDE DEF a, b
  <2>6. before \in Nat /\ m.start \in Nat /\ k.start \in Nat
    BY <1>2, <1>4, <1>6
  <2>7. TileOffset(j, t) = j.batch * BatchSize(j) + CellAt(j, m.start, k.start)
    BY <2>4, <2>5, <2>6
  <2>. QED  BY <2>7 DEF OffsetRight
<1>13. CASE j.fn \in {"Quant", "QuantIO"}
  <2>1. j.batch = 0 /\ k.start = 0
    BY <1>3, <1>13 DEF OperandLegal
  <2>2. TileOffset(j, t) = IF j.transA THEN m.start ELSE m.start * j.K
    <3>1. CASE j.fn = "Quant"
      <4>1. TileOffset(j, t) = LET e == QuantEdge(j, m, j.normM, j.l1M, j.tailM) IN IF j.transA THEN e ELSE e * j.K
        BY <3>1 DEF TileOffset, GetQuantOffset, QuantEdge
      <4>. QED  BY <1>2, <4>1, QuantEdges
    <3>2. CASE j.fn = "QuantIO"
      <4>1. TileOffset(j, t) = LET e == m.tile * j.l1M + m.split IN IF j.transA THEN e ELSE e * j.K
        BY <3>2 DEF TileOffset, GetQuantIOOffset
      <4>2. ~j.balanced
        BY <3>2 DEF OperandLegal
      <4>. QED  BY <1>2, <4>1, <4>2 DEF RowFound
    <3>. QED  BY <1>13, <3>1, <3>2
  <2>. QED  BY <1>4, <1>5, <1>6, <1>7, <2>1, <2>2 DEF OffsetRight
<1>14. j.fn \in {"Layout", "IterBatch", "WithoutLayout", "StreamK", "Coordinate", "Quant", "QuantIO"}
  BY DEF OperandLegal
<1>. QED  BY <1>8, <1>9, <1>10, <1>11, <1>12, <1>13, <1>14

\* Where a tile of B begins, in column blocks.
LEMMA OffsetOfNzB ==
    ASSUME NEW j, OperandLegal(j), NEW t \in OperandTiles(j), j.operand = "B", j.nz
    PROVE  OffsetRight(j, t)
<1> DEFINE k == t.row  n == t.col  hN == CeilAlign(j.N, Cube)  hK == CeilAlign(j.K, Cube)
           wN == CeilAlign(j.N, j.c0)  wK == CeilAlign(j.K, j.c0)
<1>1. OperandNumbers(j) /\ k \in KPieces(j) /\ n \in NPieces(j) /\ j.fn = "Coordinate" /\ ~j.balanced /\ j.transB \in BOOLEAN
  BY OperandFacts, OperandTile DEF PiecesDown, PiecesAcross, OperandLegal
<1>2. ColFound(j, n) /\ k.start \in Nat
  BY <1>1, ColsFound, PartsOfK
<1>3. n.start = n.tile * j.l1N + n.split /\ k.start = k.tile * j.l1K /\ n.start \in Nat
  BY <1>1, <1>2, PartsOfK DEF ColFound
<1>4. hN \in Nat /\ hK \in Nat /\ wN \in Nat /\ wK \in Nat /\ j.c0 \in Positive /\ j.batch \in Nat
  BY <1>1, CeilFacts DEF OperandNumbers
<1>5. CASE j.transB
  <2>1. TileOffset(j, t) = j.batch * hN * wK + n.start * j.c0 + k.start * hN
    BY <1>1, <1>3, <1>5 DEF TileOffset, GetBOffset
  <2>2. BatchSize(j) = hN * wK /\ CellAt(j, k.start, n.start) = NzAt(hN, j.c0, n.start, k.start)
    BY <1>5 DEF BatchSize, CellAt
  <2>3. k.start % j.c0 = 0
    BY <1>1, <1>5 DEF OperandLegal
  <2>. HIDE DEF hN, hK, wN, wK, n, k
  <2>4. NzAt(hN, j.c0, n.start, k.start) = n.start * j.c0 + k.start * hN
    <3>1. hN \in Int /\ 0 \in Nat
      BY <1>4
    <3>. QED  BY <1>2, <1>3, <1>4, <2>3, <3>1, NzSum
  <2>5. j.batch * hN * wK = j.batch * (hN * wK)
    BY <1>4
  <2> DEFINE a == j.batch * (hN * wK)  b == n.start * j.c0  c == k.start * hN
  <2>6. a \in Nat /\ b \in Nat /\ c \in Nat
    <3>1. hN * wK \in Nat /\ j.c0 \in Nat
      BY <1>4, MulMonotone DEF Positive
    <3>2. (hN * wK) * j.batch \in Nat /\ b \in Nat /\ c \in Nat
      BY <1>2, <1>3, <1>4, <3>1, MulMonotone
    <3>. QED  BY <1>4, <3>1, <3>2
  <2>7. TileOffset(j, t) = a + b + c /\ j.batch * BatchSize(j) + CellAt(j, k.start, n.start) = a + (b + c)
    BY <2>1, <2>2, <2>4, <2>5
  <2>. HIDE DEF a, b, c
  <2>8. TileOffset(j, t) = j.batch * BatchSize(j) + CellAt(j, k.start, n.start)
    BY <2>6, <2>7
  <2>. QED  BY <2>8 DEF OffsetRight, n, k
<1>6. CASE ~j.transB
  <2>1. TileOffset(j, t) = j.batch * wN * hK + k.start * j.c0 + n.start * hK
    BY <1>1, <1>3, <1>6 DEF TileOffset, GetBOffset
  <2>2. BatchSize(j) = hK * wN /\ CellAt(j, k.start, n.start) = NzAt(hK, j.c0, k.start, n.start)
    BY <1>6 DEF BatchSize, CellAt
  <2>3. n.start % j.c0 = 0
    BY <1>1, <1>6 DEF OperandLegal
  <2>. HIDE DEF hN, hK, wN, wK, n, k
  <2>4. NzAt(hK, j.c0, k.start, n.start) = k.start * j.c0 + n.start * hK
    <3>1. hK \in Int /\ 0 \in Nat
      BY <1>4
    <3>. QED  BY <1>2, <1>3, <1>4, <2>3, <3>1, NzSum
  <2>5. j.batch * wN * hK = j.batch * (hK * wN)
    BY <1>4
  <2> DEFINE a == j.batch * (hK * wN)  b == k.start * j.c0  c == n.start * hK
  <2>6. a \in Nat /\ b \in Nat /\ c \in Nat
    <3>1. hK * wN \in Nat /\ j.c0 \in Nat
      BY <1>4, MulMonotone DEF Positive
    <3>2. (hK * wN) * j.batch \in Nat /\ b \in Nat /\ c \in Nat
      BY <1>2, <1>3, <1>4, <3>1, MulMonotone
    <3>. QED  BY <1>4, <3>1, <3>2
  <2>7. TileOffset(j, t) = a + b + c /\ j.batch * BatchSize(j) + CellAt(j, k.start, n.start) = a + (b + c)
    BY <2>1, <2>2, <2>4, <2>5
  <2>. HIDE DEF a, b, c
  <2>8. TileOffset(j, t) = j.batch * BatchSize(j) + CellAt(j, k.start, n.start)
    BY <2>6, <2>7
  <2>. QED  BY <2>8 DEF OffsetRight, n, k
<1>. QED  BY <1>1, <1>5, <1>6

\* And in rows.
LEMMA OffsetOfB ==
    ASSUME NEW j, OperandLegal(j), NEW t \in OperandTiles(j), j.operand = "B", ~j.nz
    PROVE  OffsetRight(j, t)
<1> DEFINE k == t.row  n == t.col  before == Batches(j, j.K, j.N)
<1>1. OperandNumbers(j) /\ k \in KPieces(j) /\ n \in NPieces(j)
  BY OperandFacts, OperandTile DEF PiecesDown, PiecesAcross
<1>2. ColFound(j, n) /\ k.start \in Nat /\ k.tile \in Nat
  BY <1>1, ColsFound, PartsOfK
<1>3. IF j.fn \in {"Coordinate", "Layout", "StreamK"} THEN k.start = k.tile * j.l1K ELSE k.start = 0
  BY <1>1, PartsOfK
<1>4. before \in Nat /\ j.batch * j.N * j.K = before /\ j.batch * j.K * j.N = before /\ (j.batch = 0 => before = 0)
  BY <1>1, BatchesFacts DEF OperandNumbers
<1> DEFINE a == n.start * j.K  b == k.start * j.N
<1>5. j.batch * BatchSize(j) + CellAt(j, k.start, n.start)
        = before + (IF j.transB THEN a + k.start ELSE b + n.start)
  BY DEF BatchSize, CellAt, RowMajorAt, Batches
<1>6. n.start \in Nat /\ j.N \in Nat /\ j.K \in Nat
  BY <1>1, <1>2 DEF ColFound, OperandNumbers
<1>7. /\ a \in Nat /\ b \in Nat
      /\ n.start = 0 => a = 0
      /\ k.start = 0 => b = 0
  BY <1>2, <1>6, MulMonotone
<1>8. \/ TileOffset(j, t) = (IF j.transB THEN a + k.start ELSE b + n.start) + before
      \/ TileOffset(j, t) = IF j.transB THEN before + a + k.start ELSE before + b + n.start
      \/ TileOffset(j, t) = before + (IF j.transB THEN a + k.start ELSE n.start + b)
      \/ TileOffset(j, t) = before + (IF j.transB THEN a ELSE n.start) /\ k.start = 0
      \/ TileOffset(j, t) = before /\ k.start = 0 /\ n.start = 0
      \/ TileOffset(j, t) = (IF j.transB THEN a ELSE n.start) /\ k.start = 0 /\ before = 0
  <2>1. CASE j.fn = "Layout"
    <3>1. TileOffset(j, t) = (IF j.transB THEN a + k.start ELSE b + n.start) + j.batch * j.N * j.K
      BY <2>1 DEF TileOffset, GetOffset, LayoutAt, RowMajorAt
    <3>. QED  BY <1>4, <3>1
  <2>2. CASE j.fn = "WithoutLayout"
    <3>1. TileOffset(j, t) = j.batch * j.N * j.K + (IF j.transB THEN a ELSE n.start)
      BY <2>2 DEF TileOffset, GetOffsetWithoutLayout
    <3>. QED  BY <1>3, <1>4, <2>2, <3>1
  <2>3. CASE j.fn = "IterBatch"
    <3>1. TileOffset(j, t) = j.batch * j.K * j.N
      BY <2>3 DEF TileOffset, GetOffsetIterBatch
    <3>. QED  BY <1>2, <1>3, <1>4, <2>3, <3>1 DEF ColFound
  <2>4. CASE j.fn = "StreamK"
    <3>1. TileOffset(j, t) = j.batch * j.N * j.K
            + (IF j.transB THEN n.tile * j.l1N * j.K + k.tile * j.l1K ELSE n.tile * j.l1N + k.tile * j.l1K * j.N)
      BY <2>4 DEF TileOffset, GetOffsetStreamK
    <3>2. n.start = n.tile * j.l1N /\ k.start = k.tile * j.l1K
      <4>1. ~j.shared /\ ~j.balanced
        BY <2>4 DEF OperandLegal
      <4>. QED  BY <1>2, <1>3, <2>4, <4>1 DEF ColFound
    <3>. QED  BY <1>4, <3>1, <3>2
  <2>5. CASE j.fn = "Coordinate"
    <3>1. j.nz = FALSE /\ j.transB \in BOOLEAN /\ ~j.balanced
      BY <2>5 DEF OperandLegal
    <3>2. TileOffset(j, t) = IF j.transB THEN j.batch * j.N * j.K + (n.tile * j.l1N + n.split) * j.K + k.tile * j.l1K
                             ELSE j.batch * j.N * j.K + k.tile * j.l1K * j.N + (n.tile * j.l1N + n.split)
      BY <2>5, <3>1 DEF TileOffset, GetBOffset
    <3>3. n.start = n.tile * j.l1N + n.split /\ k.start = k.tile * j.l1K
      BY <1>2, <1>3, <2>5, <3>1 DEF ColFound
    <3>. QED  BY <1>4, <3>2, <3>3
  <2>6. CASE j.fn = "Quant"
    <3>1. TileOffset(j, t) = LET e == QuantEdge(j, n, j.normN, j.l1N, j.tailN) IN IF j.transB THEN e * j.K ELSE e
      BY <2>6 DEF TileOffset, GetQuantOffset, QuantEdge
    <3>2. j.batch = 0
      BY <2>6 DEF OperandLegal
    <3>. QED  BY <1>2, <1>3, <1>4, <2>6, <3>1, <3>2, QuantEdges
  <2>7. CASE j.fn = "QuantIO"
    <3>1. TileOffset(j, t) = LET e == n.tile * j.l1N + n.split IN IF j.transB THEN e * j.K ELSE e
      BY <2>7 DEF TileOffset, GetQuantIOOffset
    <3>2. j.batch = 0 /\ ~j.balanced
      BY <2>7 DEF OperandLegal
    <3>. QED  BY <1>2, <1>3, <1>4, <2>7, <3>1, <3>2 DEF ColFound
  <2>8. j.fn \in {"Layout", "IterBatch", "WithoutLayout", "StreamK", "Coordinate", "Quant", "QuantIO"}
    BY DEF OperandLegal
  <2>. QED  BY <2>1, <2>2, <2>3, <2>4, <2>5, <2>6, <2>7, <2>8
<1>9. TileOffset(j, t) = j.batch * BatchSize(j) + CellAt(j, k.start, n.start)
  <2>. HIDE DEF before, a, b, k, n
  <2>. QED  BY <1>2, <1>4, <1>5, <1>6, <1>7, <1>8
<1>. QED  BY <1>9 DEF OffsetRight

\* Half of an even width, row by row.
LEMMA HalfRowsOf ==
    ASSUME NEW m \in Nat, NEW w \in Nat, w % 2 = 0
    PROVE  (m * w) \div 2 = m * (w \div 2)
<1> DEFINE h == w \div 2
<1>1. h \in Nat /\ w = 2 * h /\ 2 \in Positive
  <2>1. 2 \in Positive
    BY DEF Positive
  <2>. QED  BY <2>1, CeilOfMultiple, DivMod
<1>. HIDE DEF h
<1>2. m * h \in Nat
  BY <1>1, MulMonotone
<1>3. m * w = 2 * (m * h) + 0
  BY <1>1
<1>4. (2 * (m * h) + 0) \div 2 = m * h
  <2>1. 0 \in 0 .. 2 - 1
    OBVIOUS
  <2>. QED  BY <1>1, <1>2, <2>1, DivModUnique
<1>5. (m * w) \div 2 = m * h
  BY <1>3, <1>4
<1>. QED  BY <1>5 DEF h

\* Where a tile of the result begins.
LEMMA OffsetOfC ==
    ASSUME NEW j, OperandLegal(j), NEW t \in OperandTiles(j), j.operand = "C"
    PROVE  OffsetRight(j, t)
<1> DEFINE m == t.row  n == t.col  before == Batches(j, j.M, j.N)
<1>1. OperandNumbers(j) /\ m \in MPieces(j) /\ n \in NPieces(j)
  BY OperandFacts, OperandTile DEF PiecesDown, PiecesAcross
<1>2. RowFound(j, m) /\ ColFound(j, n)
  BY <1>1, RowsFound, ColsFound
<1>4. before \in Nat /\ j.batch * j.N * j.M = before /\ j.batch * j.M * j.N = before /\ (j.batch = 0 => before = 0)
  BY <1>1, BatchesFacts DEF OperandNumbers
<1> DEFINE a == m.start * Wide(j)
<1>5. j.batch * BatchSize(j) + CellAt(j, m.start, n.start) = before + (a + n.start)
  BY DEF BatchSize, CellAt, RowMajorAt, Batches, Wide
<1>6. m.start \in Nat /\ n.start \in Nat /\ j.N \in Nat /\ Wide(j) \in Nat
  BY <1>1, <1>2 DEF RowFound, ColFound, OperandNumbers
<1>7. a \in Nat /\ (m.start = 0 => a = 0)
  BY <1>6, MulMonotone
<1>8. \/ TileOffset(j, t) = (a + n.start) + before
      \/ TileOffset(j, t) = before + a + n.start
      \/ TileOffset(j, t) = before /\ m.start = 0 /\ n.start = 0
      \/ TileOffset(j, t) = a + n.start /\ before = 0
  <2>0. j.fn # "QuantIO" => Wide(j) = j.N
    BY DEF Wide
  <2>1. CASE j.fn = "Layout"
    <3>1. TileOffset(j, t) = (m.start * j.N + n.start) + j.batch * j.M * j.N
      BY <2>1 DEF TileOffset, GetOffset, LayoutAt, RowMajorAt
    <3>. QED  BY <1>4, <2>0, <2>1, <3>1
  <2>2. CASE j.fn = "WithoutLayout"
    <3>1. TileOffset(j, t) = j.batch * j.M * j.N + m.start * j.N + n.start
      BY <2>2 DEF TileOffset, GetOffsetWithoutLayout
    <3>. QED  BY <1>4, <2>0, <2>2, <3>1
  <2>3. CASE j.fn = "IterBatch"
    <3>1. TileOffset(j, t) = j.batch * j.M * j.N
      BY <2>3 DEF TileOffset, GetOffsetIterBatch
    <3>. QED  BY <1>2, <1>4, <2>3, <3>1 DEF ColFound, RowFound
  <2>4. CASE j.fn = "StreamK"
    <3>1. TileOffset(j, t) = j.batch * j.M * j.N + m.tile * j.l1M * j.N + n.tile * j.l1N
      BY <2>4 DEF TileOffset, GetOffsetStreamK
    <3>2. n.start = n.tile * j.l1N /\ m.start = m.tile * j.l1M
      <4>1. ~j.shared /\ ~j.balanced
        BY <2>4 DEF OperandLegal
      <4>. QED  BY <1>2, <2>4, <4>1 DEF ColFound, RowFound
    <3>. QED  BY <1>4, <2>0, <2>4, <3>1, <3>2
  <2>5. CASE j.fn = "Coordinate"
    <3>1. ~j.balanced
      BY <2>5 DEF OperandLegal
    <3>2. TileOffset(j, t) = j.batch * j.N * j.M + (m.tile * j.l1M + m.split) * j.N + (n.tile * j.l1N + n.split)
      BY <2>5, <3>1 DEF TileOffset, GetCOffset
    <3>3. n.start = n.tile * j.l1N + n.split /\ m.start = m.tile * j.l1M + m.split
      BY <1>2, <3>1 DEF ColFound, RowFound
    <3>. QED  BY <1>4, <2>0, <2>5, <3>2, <3>3
  <2>6. CASE j.fn = "Quant"
    <3>1. TileOffset(j, t) = QuantEdge(j, m, j.normM, j.l1M, j.tailM) * j.N + QuantEdge(j, n, j.normN, j.l1N, j.tailN)
      BY <2>6 DEF TileOffset, GetQuantOffset, QuantEdge
    <3>2. j.batch = 0
      BY <2>6 DEF OperandLegal
    <3>. QED  BY <1>2, <1>4, <2>0, <2>6, <3>1, <3>2, QuantEdges
  <2>7. CASE j.fn = "QuantIO"
    <3>1. TileOffset(j, t) = ((m.tile * j.l1M + m.split) * j.N) \div 2 + (n.tile * j.l1N + n.split)
      BY <2>7 DEF TileOffset, GetQuantIOOffset
    <3>2. j.batch = 0 /\ ~j.balanced /\ j.N % 2 = 0
      BY <2>7 DEF OperandLegal
    <3>3. n.start = n.tile * j.l1N + n.split /\ m.start = m.tile * j.l1M + m.split
      BY <1>2, <3>2 DEF ColFound, RowFound
    <3>4. (m.start * j.N) \div 2 = a
      BY <1>6, <2>7, <3>2, HalfRowsOf DEF Wide
    <3>. QED  BY <1>4, <3>1, <3>2, <3>3, <3>4
  <2>8. j.fn \in {"Layout", "IterBatch", "WithoutLayout", "StreamK", "Coordinate", "Quant", "QuantIO"}
    BY DEF OperandLegal
  <2>. QED  BY <2>1, <2>2, <2>3, <2>4, <2>5, <2>6, <2>7, <2>8
<1>9. TileOffset(j, t) = j.batch * BatchSize(j) + CellAt(j, m.start, n.start)
  <2>. HIDE DEF before, a, n, m
  <2>. QED  BY <1>4, <1>5, <1>6, <1>7, <1>8
<1>. QED  BY <1>9 DEF OffsetRight

\* And of the bias.
LEMMA OffsetOfBias ==
    ASSUME NEW j, OperandLegal(j), NEW t \in OperandTiles(j), j.operand = "bias"
    PROVE  OffsetRight(j, t)
<1> DEFINE n == t.col  before == j.batch * j.N
<1>1. OperandNumbers(j) /\ n \in NPieces(j)
  BY OperandFacts, OperandTile DEF PiecesAcross
<1>2. ColFound(j, n)
  BY <1>1, ColsFound
<1>3. j.batch * BatchSize(j) + CellAt(j, t.row.start, n.start) = (IF j.fn = "Coordinate" THEN 0 ELSE before) + n.start
  <2>1. j.batch * 0 = 0
    BY <1>1 DEF OperandNumbers
  <2>. QED  BY <2>1 DEF BatchSize, CellAt
<1>4. n.start \in Nat /\ before \in Nat /\ (j.batch = 0 => before = 0)
  <2>1. j.batch \in Nat /\ j.N \in Nat
    BY <1>1 DEF OperandNumbers
  <2>2. before \in Nat
    BY <2>1, MulMonotone
  <2>3. j.batch = 0 => before = 0
    BY <2>1
  <2>. QED  BY <1>2, <2>2, <2>3 DEF ColFound
<1>5. CASE j.fn = "WithoutLayout"
  BY <1>3, <1>5 DEF TileOffset, GetOffsetWithoutLayout, OffsetRight
<1>6. CASE j.fn = "StreamK"
  <2>1. TileOffset(j, t) = before + n.tile * j.l1N
    BY <1>6 DEF TileOffset, GetOffsetStreamK
  <2>2. n.start = n.tile * j.l1N
    <3>1. ~j.shared /\ ~j.balanced
      BY <1>6 DEF OperandLegal
    <3>. QED  BY <1>2, <1>6, <3>1 DEF ColFound
  <2>. QED  BY <1>3, <1>6, <2>1, <2>2 DEF OffsetRight
<1>7. CASE j.fn = "Coordinate"
  <2>1. TileOffset(j, t) = n.tile * j.l1N + n.split /\ ~j.balanced
    BY <1>7 DEF TileOffset, GetBiasOffset, OperandLegal
  <2>. QED  BY <1>2, <1>3, <1>4, <1>7, <2>1 DEF OffsetRight, ColFound
<1>8. CASE j.fn = "Quant"
  <2>1. TileOffset(j, t) = QuantEdge(j, n, j.normN, j.l1N, j.tailN) /\ j.batch = 0
    BY <1>8 DEF TileOffset, GetQuantOffset, QuantEdge, OperandLegal
  <2>. QED  BY <1>2, <1>3, <1>4, <1>8, <2>1, QuantEdges DEF OffsetRight
<1>9. CASE j.fn = "QuantIO"
  <2>1. TileOffset(j, t) = n.tile * j.l1N + n.split /\ ~j.balanced /\ j.batch = 0
    BY <1>9 DEF TileOffset, GetQuantIOOffset, OperandLegal
  <2>. QED  BY <1>2, <1>3, <1>4, <1>9, <2>1 DEF OffsetRight, ColFound
<1>10. j.fn \in {"WithoutLayout", "StreamK", "Coordinate", "Quant", "QuantIO"}
  BY DEF OperandLegal
<1>. QED  BY <1>5, <1>6, <1>7, <1>8, <1>9, <1>10

(* The scale of element x, with no rows of scales before it.                                         *)
ScaleFound(j, tr, x) ==
  CASE ByBlocks(j)      -> IF tr THEN x ELSE x * CeilDiv(j.K, PerBlock)
    [] j.mode = "MX"    -> IF tr THEN x * MxfpMulti ELSE x * MxScales(j.K)
    [] j.mode = "OTHER" -> x
FirstScaleRight(j, tr, rows, x) == ScaleAt(j, tr, rows, x, 0) = ScaleFound(j, tr, x)

LEMMA FirstScale ==
    ASSUME NEW j, OperandLegal(j), NEW tr, NEW rows \in Nat, NEW x \in Nat
    PROVE  FirstScaleRight(j, tr, rows, x)
<1>. SUFFICES ScaleAt(j, tr, rows, x, 0)
                = CASE ByBlocks(j)      -> IF tr THEN x ELSE x * CeilDiv(j.K, PerBlock)
                    [] j.mode = "MX"    -> IF tr THEN x * MxfpMulti ELSE x * MxScales(j.K)
                    [] j.mode = "OTHER" -> x
  BY DEF FirstScaleRight, ScaleFound
<1>1. OperandNumbers(j) /\ j.mode \in {"PERGROUP", "PERBLOCK", "MX", "OTHER"}
  BY OperandFacts DEF OperandLegal
<1>2. 0 \div MxfpMulti = 0 /\ 0 % MxfpMulti = 0 /\ MxfpMulti \in Nat
  BY <1>1, ZeroDivMod DEF OperandNumbers, Positive
<1>3. CeilDiv(j.K, PerBlock) \in Nat /\ MxScales(j.K) \in Nat
  <2>1. CeilDiv(j.K, PerBlock) \in Nat /\ CeilDiv(j.K, MxfpDivisor) \in Nat
    BY <1>1, CeilFacts DEF OperandNumbers
  <2>. QED  BY <1>2, <2>1, MulMonotone DEF MxScales
<1> DEFINE k == CeilDiv(j.K, PerBlock)  s == MxScales(j.K)
<1>4. /\ 0 * rows + x = x /\ x * k + 0 = x * k /\ x * s + 0 = x * s
      /\ MxfpMulti * (0 * rows + x) + 0 = x * MxfpMulti
  <2>1. k \in Nat /\ s \in Nat
    BY <1>3
  <2>. HIDE DEF k, s
  <2>. QED  BY <1>2, <2>1
<1>5. CASE ByBlocks(j)
  <2>1. ScaleAt(j, tr, rows, x, 0) = IF tr THEN 0 * rows + x ELSE x * k + 0
    <3>1. j.mode # "MX" /\ j.mode # "OTHER"
      BY <1>5 DEF ByBlocks
    <3>. QED  BY <1>5, <3>1 DEF ScaleAt, RowMajorAt
  <2>2. j.mode # "MX" /\ j.mode # "OTHER"
    BY <1>5 DEF ByBlocks
  <2>. QED  BY <1>4, <1>5, <2>1, <2>2
<1>6. CASE j.mode = "MX"
  <2>1. ~ByBlocks(j)
    BY <1>6 DEF ByBlocks
  <2>2. ScaleAt(j, tr, rows, x, 0) = IF tr THEN MxfpMulti * (0 * rows + x) + 0 ELSE x * s + 0
    BY <1>2, <1>6, <2>1 DEF ScaleAt, RowMajorAt
  <2>. QED  BY <1>4, <1>6, <2>1, <2>2
<1>7. CASE j.mode = "OTHER"
  <2>1. ~ByBlocks(j)
    BY <1>7 DEF ByBlocks
  <2>. QED  BY <1>7, <2>1 DEF ScaleAt
<1>. QED  BY <1>1, <1>5, <1>6, <1>7 DEF ByBlocks

LEMMA ScaleFoundNat ==
    ASSUME NEW j, OperandLegal(j), NEW tr, NEW x \in Nat
    PROVE  ScaleFound(j, tr, x) \in Nat
<1>1. OperandNumbers(j) /\ j.mode \in {"PERGROUP", "PERBLOCK", "MX", "OTHER"}
  BY OperandFacts DEF OperandLegal
<1>2. CeilDiv(j.K, PerBlock) \in Nat /\ CeilDiv(j.K, MxfpDivisor) \in Nat /\ MxfpMulti \in Nat
  BY <1>1, CeilFacts DEF OperandNumbers, Positive
<1>3. MxScales(j.K) \in Nat
  BY <1>2, MulMonotone DEF MxScales
<1>4. x * CeilDiv(j.K, PerBlock) \in Nat /\ x * MxfpMulti \in Nat /\ x * MxScales(j.K) \in Nat
  BY <1>2, <1>3, MulMonotone
<1>. QED  BY <1>1, <1>4 DEF ScaleFound, ByBlocks

\* The scales of rows and columns that a quantised function finds, for the tile's first row and column.
LEMMA QuantScales ==
    ASSUME NEW j, OperandLegal(j), NEW p, NEW q, j.fn = "Quant", RowFound(j, p), ColFound(j, q)
    PROVE  /\ GetQuantOffset(j, p.tile, q.tile, p.split, q.split)["x1Scale"]
                = ScaleFound(j, j.transA, IF j.mode = "PERBLOCK" THEN p.start \div PerBlock ELSE p.start)
           /\ GetQuantOffset(j, p.tile, q.tile, p.split, q.split)["x2Scale"]
                = ScaleFound(j, ~j.transB, IF ByBlocks(j) THEN q.start \div PerBlock ELSE q.start)
<1> DEFINE m == QuantEdge(j, p, j.normM, j.l1M, j.tailM)  n == QuantEdge(j, q, j.normN, j.l1N, j.tailN)
           scales == CASE ByBlocks(j)      -> CalOffsetOfAIV(j, m, n)
                       [] j.mode = "MX"    -> MxOffset(j, m, n)
                       [] j.mode = "OTHER" -> [x1 |-> m, x2 |-> n]
<1>1. m = p.start /\ n = q.start
  BY QuantEdges
<1>2. /\ GetQuantOffset(j, p.tile, q.tile, p.split, q.split)["x1Scale"] = scales.x1
      /\ GetQuantOffset(j, p.tile, q.tile, p.split, q.split)["x2Scale"] = scales.x2
  BY DEF GetQuantOffset, QuantEdge
<1>. HIDE DEF m, n
<1>3. CASE ByBlocks(j)
  <2>1. j.mode # "MX" /\ j.mode # "OTHER"
    BY <1>3 DEF ByBlocks
  <2>. QED  BY <1>1, <1>2, <1>3, <2>1 DEF CalOffsetOfAIV, ScaleFound
<1>4. CASE j.mode = "MX"
  <2>1. ~ByBlocks(j)
    BY <1>4 DEF ByBlocks
  <2>. QED  BY <1>1, <1>2, <1>4, <2>1 DEF MxOffset, ScaleFound
<1>5. CASE j.mode = "OTHER"
  <2>1. ~ByBlocks(j)
    BY <1>5 DEF ByBlocks
  <2>. QED  BY <1>1, <1>2, <1>5, <2>1 DEF ScaleFound
<1>6. j.mode \in {"PERGROUP", "PERBLOCK", "MX", "OTHER"}
  BY DEF OperandLegal
<1>. QED  BY <1>3, <1>4, <1>5, <1>6 DEF ByBlocks

LEMMA QuantIOScales ==
    ASSUME NEW j, OperandLegal(j), NEW p, NEW q, j.fn = "QuantIO", RowFound(j, p), ColFound(j, q)
    PROVE  /\ GetQuantIOOffset(j, p.tile, q.tile, p.split, q.split)["x1Scale"]
                = ScaleFound(j, j.transA, IF j.mode = "PERBLOCK" THEN p.start \div PerBlock ELSE p.start)
           /\ (ByBlocks(j) => q.start % PerBlock = 0)
              => GetQuantIOOffset(j, p.tile, q.tile, p.split, q.split)["x2Scale"]
                   = ScaleFound(j, ~j.transB, IF ByBlocks(j) THEN q.start \div PerBlock ELSE q.start)
<1> DEFINE m == p.tile * j.l1M + p.split  n == q.tile * j.l1N + q.split
           scales == CASE ByBlocks(j)      ->
                            [x1 |-> IF j.transA THEN m ELSE m * CeilDiv(j.K, PerBlock),
                             x2 |-> CeilDiv(n, PerBlock) * (IF j.transB THEN CeilDiv(j.K, PerBlock) ELSE 1)]
                       [] j.mode = "MX"    -> MxOffset(j, m, n)
                       [] j.mode = "OTHER" -> [x1 |-> m, x2 |-> n]
<1>0. j.mode # "PERBLOCK" /\ ~j.balanced /\ OperandNumbers(j)
  BY OperandFacts DEF OperandLegal
<1>1. m = p.start /\ n = q.start /\ q.start \in Nat
  BY <1>0 DEF RowFound, ColFound
<1>2. /\ GetQuantIOOffset(j, p.tile, q.tile, p.split, q.split)["x1Scale"] = scales.x1
      /\ GetQuantIOOffset(j, p.tile, q.tile, p.split, q.split)["x2Scale"] = scales.x2
  BY DEF GetQuantIOOffset
<1>. HIDE DEF m, n
<1>3. CASE ByBlocks(j)
  <2>1. j.mode # "MX" /\ j.mode # "OTHER"
    BY <1>3 DEF ByBlocks
  <2>2. q.start % PerBlock = 0 => CeilDiv(q.start, PerBlock) = q.start \div PerBlock
    BY <1>0, <1>1, CeilOfMultiple DEF OperandNumbers
  <2>3. q.start \div PerBlock \in Nat
    BY <1>0, <1>1, DivMod DEF OperandNumbers
  <2>4. /\ scales.x1 = IF j.transA THEN m ELSE m * CeilDiv(j.K, PerBlock)
        /\ scales.x2 = CeilDiv(n, PerBlock) * (IF j.transB THEN CeilDiv(j.K, PerBlock) ELSE 1)
    BY <1>3, <2>1
  <2> DEFINE x == q.start \div PerBlock
  <2>5. x * 1 = x
    <3>. HIDE DEF x
    <3>1. x \in Nat
      BY <2>3 DEF x
    <3>. QED  BY <3>1
  <2>. HIDE DEF scales
  <2>. QED  BY <1>0, <1>1, <1>2, <1>3, <2>1, <2>2, <2>4, <2>5 DEF ScaleFound
<1>4. CASE j.mode = "MX"
  <2>1. ~ByBlocks(j)
    BY <1>4 DEF ByBlocks
  <2>. QED  BY <1>1, <1>2, <1>4, <2>1 DEF MxOffset, ScaleFound
<1>5. CASE j.mode = "OTHER"
  <2>1. ~ByBlocks(j)
    BY <1>5 DEF ByBlocks
  <2>. QED  BY <1>1, <1>2, <1>5, <2>1 DEF ScaleFound
<1>6. j.mode \in {"PERGROUP", "PERBLOCK", "MX", "OTHER"}
  BY DEF OperandLegal
<1>. QED  BY <1>3, <1>4, <1>5, <1>6 DEF ByBlocks

Origin == Piece(0, 0, 0, 0)
LEMMA OriginFound == ASSUME NEW j, OperandLegal(j) PROVE RowFound(j, Origin) /\ ColFound(j, Origin)
<1>1. OperandNumbers(j)
  BY OperandFacts
<1>2. Origin.tile = 0 /\ Origin.split = 0 /\ Origin.start = 0
  BY PieceFields DEF Origin
<1>3. Missing(0, j.normM, j.l1M, j.tailM) = 0 /\ Missing(0, j.normN, j.l1N, j.tailN) = 0
  <2>1. ~(0 > j.normM) /\ ~(0 > j.normN)
    BY <1>1 DEF OperandNumbers
  <2>. QED  BY <2>1 DEF Missing
<1>4. 0 * j.l1M = 0 /\ 0 * j.l1N = 0
  BY <1>1 DEF OperandNumbers, Positive
<1>5. Origin.tile * j.l1M = 0 /\ Origin.tile * j.l1N = 0
  BY <1>2, <1>4
<1>6. Missing(Origin.tile, j.normM, j.l1M, j.tailM) = 0 /\ Missing(Origin.tile, j.normN, j.l1N, j.tailN) = 0
  BY <1>2, <1>3
<1> DEFINE a == Origin.tile * j.l1M  b == Origin.tile * j.l1N
           c == Missing(Origin.tile, j.normM, j.l1M, j.tailM)  d == Missing(Origin.tile, j.normN, j.l1N, j.tailN)
<1>7. a = 0 /\ b = 0 /\ c = 0 /\ d = 0
  BY <1>5, <1>6
<1>8. RowFound(j, Origin) <=> /\ Origin.start \in Nat /\ (~j.balanced => Origin.start = a + Origin.split)
                             /\ (~j.shared => Origin.split = 0) /\ (j.fn = "IterBatch" => Origin.start = 0)
                             /\ Origin.start = a + Origin.split - c /\ a \in Nat /\ Origin.split \in Nat
  BY DEF RowFound
<1>9. ColFound(j, Origin) <=> /\ Origin.start \in Nat /\ (~j.balanced => Origin.start = b + Origin.split)
                             /\ (~j.shared => Origin.split = 0) /\ (j.fn = "IterBatch" => Origin.start = 0)
                             /\ Origin.start = b + Origin.split - d /\ b \in Nat /\ Origin.split \in Nat
  BY DEF ColFound
<1>. HIDE DEF a, b, c, d
<1>. QED  BY <1>2, <1>7, <1>8, <1>9

\* Where the scales of a tile begin.
LEMMA OffsetOfScalesOfA ==
    ASSUME NEW j, OperandLegal(j), NEW t \in OperandTiles(j), j.operand = "x1Scale"
    PROVE  OffsetRight(j, t)
<1> DEFINE m == t.row  row == IF j.mode = "PERBLOCK" THEN m.start \div PerBlock ELSE m.start
           rows == IF j.mode = "PERBLOCK" THEN CeilDiv(j.M, PerBlock) ELSE j.M
<1>1. OperandNumbers(j) /\ m \in MPieces(j) /\ j.fn \in {"Quant", "QuantIO"} /\ t.col.start = 0
  BY OperandFacts, OperandTile, WholeFields DEF PiecesDown, PiecesAcross, OperandLegal
<1>2. RowFound(j, m) /\ RowFound(j, Origin) /\ ColFound(j, Origin)
  BY <1>1, RowsFound, OriginFound
<1>3. row \in Nat /\ rows \in Nat
  BY <1>1, <1>2, DivMod, CeilFacts DEF RowFound, OperandNumbers
<1>4. CellAt(j, m.start, t.col.start) = ScaleAt(j, j.transA, rows, row, 0)
  BY <1>1 DEF CellAt
<1>5. j.batch * BatchSize(j) = 0
  BY <1>1 DEF BatchSize, OperandNumbers
<1>6. TileOffset(j, t) = ScaleFound(j, j.transA, row)
  <2>1. CASE j.fn = "Quant"
    <3>1. TileOffset(j, t) = GetQuantOffset(j, m.tile, Origin.tile, m.split, Origin.split)["x1Scale"]
      BY <2>1 DEF TileOffset, Origin
    <3>. QED  BY <1>2, <2>1, <3>1, QuantScales
  <2>2. CASE j.fn = "QuantIO"
    <3>1. TileOffset(j, t) = GetQuantIOOffset(j, m.tile, Origin.tile, m.split, Origin.split)["x1Scale"]
      BY <2>2 DEF TileOffset, Origin
    <3>. QED  BY <1>2, <2>2, <3>1, QuantIOScales
  <2>. QED  BY <1>1, <2>1, <2>2
<1>. HIDE DEF row, rows
<1>7. FirstScaleRight(j, j.transA, rows, row)
  BY <1>3, FirstScale
<1>8. TileOffset(j, t) \in Nat
  BY <1>3, <1>6, ScaleFoundNat
<1>. QED  BY <1>4, <1>5, <1>6, <1>7, <1>8 DEF OffsetRight, FirstScaleRight

LEMMA OffsetOfScalesOfB ==
    ASSUME NEW j, OperandLegal(j), NEW t \in OperandTiles(j), j.operand = "x2Scale"
    PROVE  OffsetRight(j, t)
<1> DEFINE n == t.col  col == IF ByBlocks(j) THEN n.start \div PerBlock ELSE n.start
           cols == IF ByBlocks(j) THEN CeilDiv(j.N, PerBlock) ELSE j.N
           tr == ~j.transB
<1>1. OperandNumbers(j) /\ n \in NPieces(j) /\ j.fn \in {"Quant", "QuantIO"} /\ t.row.start = 0
  BY OperandFacts, OperandTile, WholeFields DEF PiecesDown, PiecesAcross, OperandLegal
<1>2. ColFound(j, n) /\ RowFound(j, Origin) /\ ColFound(j, Origin)
  BY <1>1, ColsFound, OriginFound
<1>3. col \in Nat /\ cols \in Nat
  BY <1>1, <1>2, DivMod, CeilFacts DEF ColFound, OperandNumbers
<1>4. CellAt(j, t.row.start, n.start) = ScaleAt(j, tr, cols, col, 0)
  BY <1>1 DEF CellAt
<1>5. j.batch * BatchSize(j) = 0
  BY <1>1 DEF BatchSize, OperandNumbers
<1>6. TileOffset(j, t) = ScaleFound(j, tr, col)
  <2>1. CASE j.fn = "Quant"
    <3>1. TileOffset(j, t) = GetQuantOffset(j, Origin.tile, n.tile, Origin.split, n.split)["x2Scale"]
      BY <2>1 DEF TileOffset, Origin
    <3>. QED  BY <1>2, <2>1, <3>1, QuantScales
  <2>2. CASE j.fn = "QuantIO"
    <3>1. TileOffset(j, t) = GetQuantIOOffset(j, Origin.tile, n.tile, Origin.split, n.split)["x2Scale"]
      BY <2>2 DEF TileOffset, Origin
    <3>2. ByBlocks(j) => n.start % PerBlock = 0
      BY <1>1, <2>2 DEF OperandLegal
    <3>. QED  BY <1>2, <2>2, <3>1, <3>2, QuantIOScales
  <2>. QED  BY <1>1, <2>1, <2>2
<1>. HIDE DEF col, cols, tr
<1>7. FirstScaleRight(j, tr, cols, col)
  BY <1>3, FirstScale
<1>8. TileOffset(j, t) \in Nat
  BY <1>3, <1>6, ScaleFoundNat
<1>. QED  BY <1>4, <1>5, <1>6, <1>7, <1>8 DEF OffsetRight, FirstScaleRight

LEMMA OffsetOfScalesOfC ==
    ASSUME NEW j, OperandLegal(j), NEW t \in OperandTiles(j), j.operand = "yScale"
    PROVE  OffsetRight(j, t)
<1> DEFINE m == t.row  n == t.col  k == MxScales(j.N \div 2)
<1>1. /\ OperandNumbers(j) /\ m \in MPieces(j) /\ n \in NPieces(j) /\ j.fn = "QuantIO" /\ j.mode = "MX"
      /\ ~j.balanced /\ n.start % MxfpDivisor = 0
  BY OperandFacts, OperandTile DEF PiecesDown, PiecesAcross, OperandLegal
<1>2. RowFound(j, m) /\ ColFound(j, n)
  BY <1>1, RowsFound, ColsFound
<1>3. m.tile * j.l1M + m.split = m.start /\ n.tile * j.l1N + n.split = n.start /\ m.start \in Nat /\ n.start \in Nat
  BY <1>1, <1>2 DEF RowFound, ColFound
<1>4. TileOffset(j, t) = m.start * k + MxScales(n.start)
  BY <1>1, <1>3 DEF TileOffset, GetQuantIOOffset
<1>5. MxScales(n.start) = n.start \div PerScale /\ MxScales(n.start) \in Nat
  <2> DEFINE q == n.start \div MxfpDivisor
  <2>1. CeilDiv(n.start, MxfpDivisor) = q /\ q \in Nat /\ n.start = MxfpDivisor * q
    BY <1>1, <1>3, CeilOfMultiple, DivMod DEF OperandNumbers
  <2>. HIDE DEF q
  <2>2. MxfpMulti \in Nat /\ PerScale \in Positive /\ MxfpDivisor = MxfpMulti * PerScale
    BY <1>1, PerScaleFacts DEF OperandNumbers, Positive
  <2>3. MxScales(n.start) = q * MxfpMulti /\ q * MxfpMulti \in Nat
    BY <2>1, <2>2, MulMonotone DEF MxScales
  <2>4. n.start = PerScale * (q * MxfpMulti) + 0 /\ 0 \in 0 .. PerScale - 1
    <3>1. PerScale \in Nat /\ 0 < PerScale
      BY <2>2 DEF Positive
    <3>2. (MxfpMulti * PerScale) * q = PerScale * (q * MxfpMulti) + 0
      BY <2>1, <2>2, <3>1
    <3>. QED  BY <2>1, <2>2, <3>1, <3>2
  <2>5. (PerScale * (q * MxfpMulti) + 0) \div PerScale = q * MxfpMulti
    BY <2>2, <2>3, <2>4, DivModUnique
  <2>. QED  BY <2>3, <2>4, <2>5
<1>6. CellAt(j, m.start, n.start) = m.start * k + (n.start \div PerScale)
  BY DEF CellAt, RowMajorAt, PerScale
<1>7. j.batch * BatchSize(j) = 0
  BY <1>1 DEF BatchSize, OperandNumbers
<1>8. m.start * k \in Nat
  <2>1. j.N \div 2 \in Nat
    BY <1>1 DEF OperandNumbers, Wide
  <2>2. CeilDiv(j.N \div 2, MxfpDivisor) \in Nat /\ MxfpMulti \in Nat
    BY <1>1, <2>1, CeilFacts DEF OperandNumbers, Positive
  <2>3. k \in Nat
    BY <2>2, MulMonotone DEF MxScales
  <2>. HIDE DEF k
  <2>. QED  BY <1>3, <2>3, MulMonotone
<1>. HIDE DEF k
<1> DEFINE a == m.start * k
<1>9. TileOffset(j, t) = a + MxScales(n.start) /\ CellAt(j, m.start, n.start) = a + MxScales(n.start) /\ a \in Nat
  BY <1>4, <1>5, <1>6, <1>8
<1>. HIDE DEF a
<1>. QED  BY <1>5, <1>7, <1>9 DEF OffsetRight

LEMMA OffsetsRight == ASSUME NEW j, OperandLegal(j), NEW t \in OperandTiles(j) PROVE OffsetRight(j, t)
<1>1. j.operand \in {"A", "B", "C", "bias", "x1Scale", "x2Scale", "yScale"}
  BY DEF OperandLegal
<1>. QED  BY <1>1, OffsetOfA, OffsetOfB, OffsetOfNzB, OffsetOfC, OffsetOfBias, OffsetOfScalesOfA, OffsetOfScalesOfB,
             OffsetOfScalesOfC

-----------------------------------------------------------------------------
(* Operands: a tile as a whole.                                            *)
(* The sizes of a tile, and the numbers its cells are found with.                                    *)
TileTyped(t) == t.height \in Nat /\ t.width \in Nat /\ t.row.start \in Nat /\ t.col.start \in Nat

LEMMA ScaleTyped ==
    ASSUME NEW j, OperandLegal(j), NEW tr, NEW rows \in Nat, NEW x \in Nat, NEW s \in Nat
    PROVE  ScaleAt(j, tr, rows, x, s) \in Int
<1>1. OperandNumbers(j) /\ j.mode \in {"PERGROUP", "PERBLOCK", "MX", "OTHER"}
  BY OperandFacts DEF OperandLegal
<1>2. CeilDiv(j.K, PerBlock) \in Nat /\ CeilDiv(j.K, MxfpDivisor) \in Nat /\ MxfpMulti \in Positive
  BY <1>1, CeilFacts DEF OperandNumbers
<1>3. MxfpMulti \in Int /\ MxfpMulti # 0
  BY <1>2 DEF Positive
<1>4. MxScales(j.K) \in Int
  BY <1>2, <1>3 DEF MxScales
<1>5. \A w \in Int, a \in Int, b \in Int : RowMajorAt(w, a, b) \in Int
  BY DEF RowMajorAt
<1>6. s \div MxfpMulti \in Int /\ s % MxfpMulti \in Int
  <2>1. s \div MxfpMulti \in Nat /\ s % MxfpMulti \in 0 .. MxfpMulti - 1
    BY <1>2, DivMod
  <2>. QED  BY <1>3, <2>1
<1>7. CASE ByBlocks(j)
  <2> DEFINE k == CeilDiv(j.K, PerBlock)
  <2>1. k \in Int /\ rows \in Int /\ x \in Int /\ s \in Int
    BY <1>2
  <2>2. RowMajorAt(rows, s, x) \in Int
    BY <1>5, <2>1
  <2>3. RowMajorAt(k, x, s) \in Int
    <3>. HIDE DEF k
    <3>. QED  BY <1>5, <2>1
  <2>4. j.mode # "MX" /\ j.mode # "OTHER"
    BY <1>7 DEF ByBlocks
  <2>5. ScaleAt(j, tr, rows, x, s) = IF tr THEN RowMajorAt(rows, s, x) ELSE RowMajorAt(k, x, s)
    BY <1>7, <2>4 DEF ScaleAt
  <2>. QED  BY ONLY <2>2, <2>3, <2>5
<1>8. CASE j.mode = "MX"
  <2>1. ~ByBlocks(j) /\ j.mode # "OTHER"
    BY <1>8 DEF ByBlocks
  <2>2. RowMajorAt(MxScales(j.K), x, s) \in Int
    BY <1>4, <1>5
  <2>3. RowMajorAt(rows, s \div MxfpMulti, x) \in Int
    BY <1>5, <1>6
  <2> DEFINE a == RowMajorAt(rows, s \div MxfpMulti, x)  b == s % MxfpMulti
  <2>4. ScaleAt(j, tr, rows, x, s) = IF tr THEN MxfpMulti * a + b ELSE RowMajorAt(MxScales(j.K), x, s)
    BY <1>8, <2>1 DEF ScaleAt
  <2>. HIDE DEF a, b
  <2>5. MxfpMulti * a + b \in Int
    BY <1>3, <1>6, <2>3 DEF a, b
  <2>. QED  BY <2>2, <2>4, <2>5
<1>9. CASE j.mode = "OTHER"
  <2>1. ~ByBlocks(j) /\ j.mode # "MX"
    BY <1>9 DEF ByBlocks
  <2>. QED  BY <1>9, <2>1 DEF ScaleAt
<1>. QED  BY <1>1, <1>7, <1>8, <1>9 DEF ByBlocks

\* A cell is at a number.
LEMMA CellTyped ==
    ASSUME NEW j, OperandLegal(j), NEW r \in Nat, NEW c \in Nat
    PROVE  CellAt(j, r, c) \in Int
<1>1. OperandNumbers(j) /\ j.operand \in {"A", "B", "C", "bias", "x1Scale", "x2Scale", "yScale"} /\ j.nz \in BOOLEAN
  BY OperandFacts DEF OperandLegal
<1>2. \A w \in Int, a \in Int, b \in Int : RowMajorAt(w, a, b) \in Int
  BY DEF RowMajorAt
<1>3. j.M \in Int /\ j.N \in Int /\ j.K \in Int /\ r \in Int /\ c \in Int /\ Wide(j) \in Int
  BY <1>1 DEF OperandNumbers
<1>4. CASE j.operand = "A"
  BY <1>2, <1>3, <1>4 DEF CellAt
<1>5. CASE j.operand = "B" /\ ~j.nz
  BY <1>2, <1>3, <1>5 DEF CellAt
<1>6. CASE j.operand = "B" /\ j.nz
  <2>0. j.N \in Nat /\ j.K \in Nat /\ Cube \in Positive
    BY <1>1 DEF OperandNumbers
  <2>1. CeilAlign(j.N, Cube) \in Int /\ CeilAlign(j.K, Cube) \in Int
    <3>1. CeilAlign(j.N, Cube) \in Nat /\ CeilAlign(j.K, Cube) \in Nat
      BY ONLY <2>0, CeilFacts
    <3>. QED  BY ONLY <3>1
  <2>2. j.c0 \in Positive
    BY <1>1 DEF OperandNumbers
  <2>3. NzAt(CeilAlign(j.N, Cube), j.c0, c, r) \in Int /\ NzAt(CeilAlign(j.K, Cube), j.c0, r, c) \in Int
    BY <1>3, <2>1, <2>2, NzForm
  <2>. QED  BY <1>6, <2>3 DEF CellAt
<1>7. CASE j.operand = "C"
  <2>1. CellAt(j, r, c) = RowMajorAt(Wide(j), r, c)
    BY <1>7 DEF CellAt, Wide
  <2>. QED  BY <1>2, <1>3, <2>1
<1>8. CASE j.operand = "bias"
  BY <1>3, <1>8 DEF CellAt
<1>9. r \div PerBlock \in Nat /\ c \div PerBlock \in Nat
  BY <1>1, DivMod DEF OperandNumbers
<1>10. CeilDiv(j.M, PerBlock) \in Nat /\ CeilDiv(j.N, PerBlock) \in Nat /\ j.M \in Nat /\ j.N \in Nat
  BY <1>1, CeilFacts DEF OperandNumbers
<1>11. CASE j.operand = "x1Scale"
  <2>1. ScaleAt(j, j.transA, CeilDiv(j.M, PerBlock), r \div PerBlock, c) \in Int /\ ScaleAt(j, j.transA, j.M, r, c) \in Int
    BY <1>9, <1>10, ScaleTyped
  <2>. QED  BY <1>11, <2>1 DEF CellAt
<1>12. CASE j.operand = "x2Scale"
  <2> DEFINE kept == ~j.transB
  <2>1. \A tr : /\ ScaleAt(j, tr, CeilDiv(j.N, PerBlock), c \div PerBlock, r) \in Int
                /\ ScaleAt(j, tr, j.N, c, r) \in Int
    BY <1>9, <1>10, ScaleTyped
  <2>2. CellAt(j, r, c) = IF ByBlocks(j) THEN ScaleAt(j, kept, CeilDiv(j.N, PerBlock), c \div PerBlock, r)
                          ELSE ScaleAt(j, kept, j.N, c, r)
    BY <1>12 DEF CellAt
  <2>. HIDE DEF kept
  <2>. QED  BY <2>1, <2>2
<1>13. CASE j.operand = "yScale"
  <2>1. c \div PerScale \in Int
    BY PerScaleFacts, DivMod
  <2>2. CeilDiv(j.N \div 2, MxfpDivisor) \in Int /\ MxfpMulti \in Int
    <3>1. j.N \div 2 \in Nat
      BY <1>10
    <3>. QED  BY <1>1, <3>1, CeilFacts DEF OperandNumbers, Positive
  <2>3. MxScales(j.N \div 2) \in Int
    BY <2>2 DEF MxScales
  <2>4. RowMajorAt(MxScales(j.N \div 2), r, c \div PerScale) \in Int
    BY <1>2, <1>3, <2>1, <2>3
  <2>. QED  BY <1>13, <2>4 DEF CellAt, PerScale
<1>. QED  BY <1>1, <1>4, <1>5, <1>6, <1>7, <1>8, <1>11, <1>12, <1>13

LEMMA BatchTyped == ASSUME NEW j, OperandLegal(j) PROVE j.batch * BatchSize(j) \in Int
<1>1. OperandNumbers(j) /\ j.operand \in {"A", "B", "C", "bias", "x1Scale", "x2Scale", "yScale"}
      /\ j.nz \in BOOLEAN /\ j.transB \in BOOLEAN
  BY OperandFacts DEF OperandLegal
<1>2. j.M \in Int /\ j.N \in Int /\ j.K \in Int /\ j.batch \in Int
  BY <1>1 DEF OperandNumbers
<1>3. {CeilAlign(j.N, Cube), CeilAlign(j.K, j.c0), CeilAlign(j.K, Cube), CeilAlign(j.N, j.c0)} \subseteq Nat
  <2>1. j.N \in Nat /\ j.K \in Nat /\ Cube \in Positive /\ j.c0 \in Positive
    BY <1>1 DEF OperandNumbers
  <2>2. /\ CeilAlign(j.N, Cube) \in Nat /\ CeilAlign(j.K, j.c0) \in Nat
        /\ CeilAlign(j.K, Cube) \in Nat /\ CeilAlign(j.N, j.c0) \in Nat
    BY ONLY <2>1, CeilFacts
  <2>. QED  BY ONLY <2>2
<1>4. BatchSize(j) \in Int
  BY <1>1, <1>2, <1>3 DEF BatchSize
<1>. HIDE DEF BatchSize
<1>. QED  BY <1>2, <1>4

LEMMA TilesTyped == ASSUME NEW j, OperandLegal(j), NEW t \in OperandTiles(j) PROVE TileTyped(t)
<1>1. OperandNumbers(j) /\ j.operand \in {"A", "B", "C", "bias", "x1Scale", "x2Scale", "yScale"}
      /\ j.mode \in {"PERGROUP", "PERBLOCK", "MX", "OTHER"}
  BY OperandFacts DEF OperandLegal
<1>2. /\ \A p \in MPieces(j) : p.start \in Nat /\ p.length \in Nat
      /\ \A p \in NPieces(j) : p.start \in Nat /\ p.length \in Nat
      /\ \A p \in KPieces(j) : p.start \in Nat /\ p.length \in Nat
  BY PartsOfM, PartsOfN, PartsOfK DEF PieceIn
<1>3. ScalesOfK(j) \in Nat
  <2>1. CeilDiv(j.K, PerBlock) \in Nat /\ CeilDiv(j.K, MxfpDivisor) \in Nat /\ MxfpMulti \in Nat
    BY <1>1, CeilFacts DEF OperandNumbers, Positive
  <2>2. MxScales(j.K) \in Nat
    BY <2>1, MulMonotone DEF MxScales
  <2>. QED  BY <1>1, <2>1, <2>2 DEF ScalesOfK, ByBlocks
<1>4. \A n \in Nat : \A p \in Whole(n) : p.start \in Nat /\ p.length \in Nat
  BY WholeFields
<1>5. t.row.start \in Nat /\ t.row.length \in Nat
  <2>1. t.row \in PiecesDown(j)
    BY OperandTile
  <2>2. PiecesDown(j) \in {MPieces(j), KPieces(j), Whole(1), Whole(ScalesOfK(j))}
    BY <1>1 DEF PiecesDown
  <2>. QED  BY <1>2, <1>3, <1>4, <2>1, <2>2
<1>6. t.col.start \in Nat /\ t.col.length \in Nat
  <2>1. t.col \in PiecesAcross(j)
    BY OperandTile
  <2>2. PiecesAcross(j) \in {NPieces(j), KPieces(j), Whole(ScalesOfK(j))}
    BY <1>1 DEF PiecesAcross
  <2>. QED  BY <1>2, <1>3, <1>4, <2>1, <2>2
<1>. QED  BY <1>5, <1>6, OperandTile DEF TileTyped

\* Stepping from the tile's offset to a cell reaches it in the operand.
CellsReached(j, t) ==
  OperandMoves(j, t) = {<<r, c, CellAddress(j, t, r, c)>> : r \in 0 .. t.height - 1, c \in 0 .. t.width - 1}

LEMMA CellReached == ASSUME NEW j, OperandLegal(j), NEW t \in OperandTiles(j) PROVE CellsReached(j, t)
<1>1. TileTyped(t) /\ AddsUp(j, t) /\ OffsetRight(j, t)
  BY TilesTyped, CellsAddUp, OffsetsRight
<1>2. ASSUME NEW r \in 0 .. t.height - 1, NEW c \in 0 .. t.width - 1
      PROVE  TileOffset(j, t) + CellAt(j, r, c) = CellAddress(j, t, r, c)
  <2> DEFINE X == j.batch * BatchSize(j)  A == CellAt(j, t.row.start, t.col.start)  B == CellAt(j, r, c)
             AB == CellAt(j, t.row.start + r, t.col.start + c)
  <2>1. r \in Nat /\ c \in Nat
    BY <1>1 DEF TileTyped
  <2>2. X \in Int /\ A \in Int /\ B \in Int
    BY <1>1, <2>1, BatchTyped, CellTyped DEF TileTyped
  <2>3. A + B = AB
    BY <1>1 DEF AddsUp
  <2>4. TileOffset(j, t) = X + A /\ CellAddress(j, t, r, c) = X + AB
    BY <1>1 DEF OffsetRight, CellAddress
  <2>. HIDE DEF X, A, B, AB
  <2>5. (X + A) + B = X + (A + B)
    BY <2>2
  <2>6. TileOffset(j, t) + B = CellAddress(j, t, r, c)
    BY <2>3, <2>4, <2>5
  <2>. QED  BY <2>6 DEF B
<1>. QED  BY <1>2 DEF OperandMoves, CellsReached

(* The moves of a tile of an operand, cell by cell.                                                  *)
MovesCells(j, t) ==
  Moves(j, t) = {<<PlaceOf(j, t, r, c), SourceOf(j, t, r, c)>> : r \in 0 .. t.height - 1, c \in 0 .. t.width - 1}

LEMMA OperandMovesCells ==
    ASSUME NEW j, j.unit = "operand", OperandLegal(j), NEW t \in OperandTiles(j)
    PROVE  MovesCells(j, t)
<1>1. OperandMoves(j, t) = {<<r, c, CellAddress(j, t, r, c)>> : r \in 0 .. t.height - 1, c \in 0 .. t.width - 1}
  BY CellReached DEF CellsReached
<1>2. CASE j.operand = "C"
  <2>1. Moves(j, t) = {<<<<0, cell[3]>>, <<Buffer(t), cell[1], cell[2]>>>> : cell \in OperandMoves(j, t)}
    BY <1>2 DEF Moves
  <2>2. \A r, c : /\ PlaceOf(j, t, r, c) = <<0, CellAddress(j, t, r, c)>>
                  /\ SourceOf(j, t, r, c) = <<Buffer(t), r, c>>
    BY <1>2 DEF PlaceOf, SourceOf
  <2>. HIDE DEF Buffer
  <2>3. Moves(j, t) = {<<<<0, CellAddress(j, t, r, c)>>, <<Buffer(t), r, c>>>> :
                          r \in 0 .. t.height - 1, c \in 0 .. t.width - 1}
    <3> DEFINE At(r, c) == <<r, c, CellAddress(j, t, r, c)>>
               moved(cell) == <<<<0, cell[3]>>, <<Buffer(t), cell[1], cell[2]>>>>
    <3>1. \A r, c : moved(At(r, c)) = <<<<0, CellAddress(j, t, r, c)>>, <<Buffer(t), r, c>>>>
      OBVIOUS
    <3>2. Moves(j, t) = {moved(cell) : cell \in {At(r, c) : r \in 0 .. t.height - 1, c \in 0 .. t.width - 1}}
      BY ONLY <1>1, <2>1
    <3>. HIDE DEF At, moved
    <3>3. Moves(j, t) = {moved(At(r, c)) : r \in 0 .. t.height - 1, c \in 0 .. t.width - 1}
      BY ONLY <3>2
    <3>. QED  BY ONLY <3>1, <3>3
  <2>. QED  BY ONLY <2>2, <2>3 DEF MovesCells
<1>3. CASE j.operand # "C"
  <2>1. Moves(j, t) = {<<<<Buffer(t), cell[1], cell[2]>>, <<0, cell[3]>>>> : cell \in OperandMoves(j, t)}
    BY <1>3 DEF Moves
  <2>2. \A r, c : /\ PlaceOf(j, t, r, c) = <<Buffer(t), r, c>>
                  /\ SourceOf(j, t, r, c) = <<0, CellAddress(j, t, r, c)>>
    BY <1>3 DEF PlaceOf, SourceOf
  <2>3. Moves(j, t) = {<<<<Buffer(t), r, c>>, <<0, CellAddress(j, t, r, c)>>>> :
                          r \in 0 .. t.height - 1, c \in 0 .. t.width - 1}
    <3> DEFINE At(r, c) == <<r, c, CellAddress(j, t, r, c)>>
               moved(cell) == <<<<Buffer(t), cell[1], cell[2]>>, <<0, cell[3]>>>>
    <3>1. \A r, c : moved(At(r, c)) = <<<<Buffer(t), r, c>>, <<0, CellAddress(j, t, r, c)>>>>
      OBVIOUS
    <3>2. Moves(j, t) = {moved(cell) : cell \in {At(r, c) : r \in 0 .. t.height - 1, c \in 0 .. t.width - 1}}
      BY ONLY <1>1, <2>1
    <3>. HIDE DEF At, moved
    <3>3. Moves(j, t) = {moved(At(r, c)) : r \in 0 .. t.height - 1, c \in 0 .. t.width - 1}
      BY ONLY <3>2
    <3>. QED  BY ONLY <3>1, <3>3
  <2>. QED  BY ONLY <2>2, <2>3 DEF MovesCells
<1>. QED  BY <1>2, <1>3

(* Of two tiles no two cells have one place.                                                         *)
CellsApart(j, t, u) ==
  \A r \in 0 .. t.height - 1, c \in 0 .. t.width - 1, x \in 0 .. u.height - 1, y \in 0 .. u.width - 1 :
     PlaceOf(j, t, r, c) = PlaceOf(j, u, x, y) => t = u /\ r = x /\ c = y

LEMMA ResultsApart ==
    ASSUME NEW j, j.unit = "operand", OperandLegal(j), j.operand = "C",
           NEW t \in OperandTiles(j), NEW u \in OperandTiles(j)
    PROVE  CellsApart(j, t, u)
<1>. SUFFICES ASSUME NEW r \in 0 .. t.height - 1, NEW c \in 0 .. t.width - 1,
                     NEW x \in 0 .. u.height - 1, NEW y \in 0 .. u.width - 1,
                     PlaceOf(j, t, r, c) = PlaceOf(j, u, x, y)
              PROVE  t = u /\ r = x /\ c = y
  BY DEF CellsApart
<1>1. /\ t.row \in MPieces(j) /\ t.col \in NPieces(j) /\ t.height = t.row.length /\ t.width = t.col.length
      /\ t = [row |-> t.row, col |-> t.col, height |-> t.row.length, width |-> t.col.length]
  BY OperandTile DEF PiecesDown, PiecesAcross
<1>2. /\ u.row \in MPieces(j) /\ u.col \in NPieces(j) /\ u.height = u.row.length /\ u.width = u.col.length
      /\ u = [row |-> u.row, col |-> u.col, height |-> u.row.length, width |-> u.col.length]
  BY OperandTile DEF PiecesDown, PiecesAcross
<1>3. OperandNumbers(j)
  BY OperandFacts
<1>4. /\ t.row.start \in Nat /\ t.row.length \in Nat /\ t.col.start \in Nat /\ t.col.length \in Nat
      /\ t.col.start + t.col.length <= Wide(j)
  BY <1>1, PartsOfM, PartsOfN DEF PieceIn
<1>5. /\ u.row.start \in Nat /\ u.row.length \in Nat /\ u.col.start \in Nat /\ u.col.length \in Nat
      /\ u.col.start + u.col.length <= Wide(j)
  BY <1>2, PartsOfM, PartsOfN DEF PieceIn
<1>6. /\ r \in 0 .. t.row.length - 1 /\ c \in 0 .. t.col.length - 1
      /\ x \in 0 .. u.row.length - 1 /\ y \in 0 .. u.col.length - 1
  BY <1>1, <1>2
<1> DEFINE w == Wide(j)  a == t.row.start + r  b == t.col.start + c  d == u.row.start + x  e == u.col.start + y
           X == j.batch * BatchSize(j)
<1>7. w \in Nat /\ a \in Nat /\ d \in Nat /\ b \in 0 .. w - 1 /\ e \in 0 .. w - 1
  BY <1>3, <1>4, <1>5, <1>6 DEF OperandNumbers
<1>8. \A p, q : CellAt(j, p, q) = RowMajorAt(w, p, q)
  BY DEF CellAt, Wide
<1>9. CellAddress(j, t, r, c) = X + RowMajorAt(w, a, b) /\ CellAddress(j, u, x, y) = X + RowMajorAt(w, d, e)
  BY <1>8 DEF CellAddress
<1>10. CellAddress(j, t, r, c) = CellAddress(j, u, x, y)
  <2>1. /\ PlaceOf(j, t, r, c) = <<0, CellAddress(j, t, r, c)>>
        /\ PlaceOf(j, u, x, y) = <<0, CellAddress(j, u, x, y)>>
    BY DEF PlaceOf
  <2> DEFINE p == CellAddress(j, t, r, c)  q == CellAddress(j, u, x, y)
  <2>2. <<0, p>> = <<0, q>>
    BY ONLY <2>1, PlaceOf(j, t, r, c) = PlaceOf(j, u, x, y)
  <2>. HIDE DEF p, q
  <2>3. p = q
    BY ONLY <2>2
  <2>. QED  BY <2>3 DEF p, q
<1>11. X \in Int
  BY BatchTyped
<1>12. a = d /\ b = e
  <2>. HIDE DEF X, w, a, b, d, e
  <2>1. RowMajorAt(w, a, b) \in Int /\ RowMajorAt(w, d, e) \in Int
    BY <1>7 DEF RowMajorAt
  <2>2. RowMajorAt(w, a, b) = RowMajorAt(w, d, e)
    <3> DEFINE p == RowMajorAt(w, a, b)  q == RowMajorAt(w, d, e)
    <3>1. p \in Int /\ q \in Int /\ X + p = X + q
      BY ONLY <1>9, <1>10, <2>1
    <3>. HIDE DEF p, q
    <3>2. p = q
      BY ONLY <1>11, <3>1
    <3>. QED  BY ONLY <3>2 DEF p, q
  <2>. QED  BY ONLY <1>7, <2>2, RowMajorInjective
<1>13. t.row = u.row
  <2>1. t.row.start + r = u.row.start + x
    BY <1>12
  <2>2. /\ j.M \in Nat /\ j.l1M \in Positive /\ j.normM \in Nat /\ j.tailM \in Positive /\ j.shared \in BOOLEAN
        /\ t.row \in Pieces(j.M, j.l1M, j.normM, j.tailM, j.shared)
        /\ u.row \in Pieces(j.M, j.l1M, j.normM, j.tailM, j.shared)
    BY <1>1, <1>2, <1>3 DEF OperandNumbers, MPieces
  <2>. QED  BY ONLY <1>6, <2>1, <2>2, PiecesApart
<1>14. t.col = u.col
  <2>1. t.col.start + c = u.col.start + y
    BY <1>12
  <2>2. /\ Wide(j) \in Nat /\ j.l1N \in Positive /\ j.normN \in Nat /\ j.tailN \in Positive /\ j.shared \in BOOLEAN
        /\ t.col \in Pieces(Wide(j), j.l1N, j.normN, j.tailN, j.shared)
        /\ u.col \in Pieces(Wide(j), j.l1N, j.normN, j.tailN, j.shared)
    BY <1>1, <1>2, <1>3 DEF OperandNumbers, NPieces, Wide
  <2>. QED  BY ONLY <1>6, <2>1, <2>2, PiecesApart
<1>15. t = u
  BY ONLY <1>1, <1>2, <1>13, <1>14
<1>16. r = x /\ c = y
  BY <1>4, <1>6, <1>12, <1>15
<1>. QED  BY <1>15, <1>16

LEMMA OperandsApart ==
    ASSUME NEW j, j.unit = "operand", OperandLegal(j), NEW t \in OperandTiles(j), NEW u \in OperandTiles(j)
    PROVE  CellsApart(j, t, u)
<1>1. CASE j.operand = "C"
  BY <1>1, ResultsApart
<1>2. CASE j.operand # "C"
  <2>. SUFFICES ASSUME NEW r \in 0 .. t.height - 1, NEW c \in 0 .. t.width - 1,
                       NEW x \in 0 .. u.height - 1, NEW y \in 0 .. u.width - 1,
                       PlaceOf(j, t, r, c) = PlaceOf(j, u, x, y)
                PROVE  t = u /\ r = x /\ c = y
    BY DEF CellsApart
  <2>1. PlaceOf(j, t, r, c) = <<<<t.row, t.col>>, r, c>> /\ PlaceOf(j, u, x, y) = <<<<u.row, u.col>>, x, y>>
    BY <1>2 DEF PlaceOf, Buffer
  <2>2. t.row = u.row /\ t.col = u.col /\ r = x /\ c = y
    BY ONLY <2>1, PlaceOf(j, t, r, c) = PlaceOf(j, u, x, y)
  <2>3. /\ t = [row |-> t.row, col |-> t.col, height |-> t.row.length, width |-> t.col.length]
        /\ u = [row |-> u.row, col |-> u.col, height |-> u.row.length, width |-> u.col.length]
    BY OperandTile
  <2>. QED  BY ONLY <2>2, <2>3
<1>. QED  BY <1>1, <1>2

\* A kernel finds each of its tiles of every operand, and no two tiles of a result overlap.
LEMMA OperandSound == ASSUME NEW j, j.unit = "operand", OperandLegal(j) PROVE Sound(j)
<1>1. Tiles(j) = OperandTiles(j)
  BY DEF Tiles
<1>2. ASSUME NEW t \in OperandTiles(j)
      PROVE  /\ MovesCells(j, t)
             /\ t.height \in Int /\ t.width \in Int
             /\ Cells(j, t) = (0 .. t.height - 1) \X (0 .. t.width - 1)
             /\ RoomOf(j, t) = {PlaceOf(j, t, rc[1], rc[2]) : rc \in Cells(j, t)}
  <2>1. j.unit # "attention"
    OBVIOUS
  <2>2. Cells(j, t) = (0 .. t.height - 1) \X (0 .. t.width - 1)
    BY <2>1 DEF Cells
  <2>3. RoomOf(j, t) = {PlaceOf(j, t, rc[1], rc[2]) : rc \in Cells(j, t)}
    BY DEF RoomOf
  <2>. QED  BY <2>2, <2>3, OperandMovesCells, TilesTyped DEF TileTyped
<1>3. ASSUME NEW t \in OperandTiles(j) PROVE Clean(Moves(j, t))
  <2> DEFINE H == t.height  W == t.width
             f == [r \in 0 .. H - 1 |-> [c \in 0 .. W - 1 |-> PlaceOf(j, t, r, c)]]
             g == [r \in 0 .. H - 1 |-> [c \in 0 .. W - 1 |-> SourceOf(j, t, r, c)]]
             moves == Moves(j, t)
  <2>1. \A r \in 0 .. H - 1, c \in 0 .. W - 1 : f[r][c] = PlaceOf(j, t, r, c) /\ g[r][c] = SourceOf(j, t, r, c)
    OBVIOUS
  <2>2. moves = {<<PlaceOf(j, t, r, c), SourceOf(j, t, r, c)>> : r \in 0 .. H - 1, c \in 0 .. W - 1}
    BY <1>2 DEF MovesCells
  <2>3. \A r, x \in 0 .. H - 1, c, y \in 0 .. W - 1 : PlaceOf(j, t, r, c) = PlaceOf(j, t, x, y) => r = x /\ c = y
    BY OperandsApart DEF CellsApart
  <2>4. H \in Int /\ W \in Int
    BY <1>2
  <2>. HIDE DEF f, g, H, W, moves
  <2>5. Tabled(moves, H, W, f, g)
    BY ONLY <2>1, <2>2 DEF Tabled
  <2>6. Distinct(f, H, W)
    BY ONLY <2>1, <2>3 DEF Distinct
  <2>7. Clean(moves)
    BY ONLY <2>4, <2>5, <2>6, TableClean
  <2>. QED  BY <2>7 DEF moves
<1>4. ASSUME NEW t \in OperandTiles(j), NEW rc \in Cells(j, t)
      PROVE  <<PlaceOf(j, t, rc[1], rc[2]), SourceOf(j, t, rc[1], rc[2])>> \in Moves(j, t)
  <2>1. rc[1] \in 0 .. t.height - 1 /\ rc[2] \in 0 .. t.width - 1
    BY <1>2
  <2>. QED  BY <1>2, <2>1 DEF MovesCells
<1>5. ASSUME NEW t \in OperandTiles(j), NEW v \in Moves(j, t)
      PROVE  \E r \in 0 .. t.height - 1, c \in 0 .. t.width - 1 : v[1] = PlaceOf(j, t, r, c)
  <2>1. PICK r \in 0 .. t.height - 1, c \in 0 .. t.width - 1 : v = <<PlaceOf(j, t, r, c), SourceOf(j, t, r, c)>>
    BY <1>2 DEF MovesCells
  <2>2. v[1] = PlaceOf(j, t, r, c)
    BY ONLY <2>1
  <2>. QED  BY ONLY <2>2
<1>6. ASSUME NEW t \in OperandTiles(j), NEW v \in Moves(j, t) PROVE v[1] \in RoomOf(j, t)
  <2>1. PICK r \in 0 .. t.height - 1, c \in 0 .. t.width - 1 : v[1] = PlaceOf(j, t, r, c)
    BY <1>5
  <2>2. <<r, c>> \in Cells(j, t)
    BY <1>2
  <2>. QED  BY <1>2, <2>1, <2>2
<1>7. ASSUME NEW t \in OperandTiles(j), NEW u \in OperandTiles(j) \ {t}, NEW v \in Moves(j, t), NEW w \in Moves(j, u)
      PROVE  v[1] # w[1]
  <2>1. PICK r \in 0 .. t.height - 1, c \in 0 .. t.width - 1 : v[1] = PlaceOf(j, t, r, c)
    BY <1>5
  <2>2. PICK x \in 0 .. u.height - 1, y \in 0 .. u.width - 1 : w[1] = PlaceOf(j, u, x, y)
    BY <1>5
  <2>3. CellsApart(j, t, u) /\ t # u
    BY OperandsApart
  <2>. QED  BY ONLY <2>1, <2>2, <2>3 DEF CellsApart
<1>. QED  BY <1>1, <1>3, <1>4, <1>6, <1>7 DEF Sound

-----------------------------------------------------------------------------
(* A kernel's own copies.                                                  *)
(* Cell (r, c) moved to its place; a tile of which C columns are moved; places of their own.         *)
IterMove(j, r, c) == <<IterPlace(j, r, c), IterSource(j, r, c)>>
IterBox(j, C) ==
  /\ \A x \in Iterate(j) : \E r \in 0 .. j.rows - 1, c \in 0 .. C - 1 : x = IterMove(j, r, c)
  /\ \A r \in 0 .. j.rows - 1, c \in 0 .. C - 1 : IterMove(j, r, c) \in Iterate(j)
IterApart(j, C) ==
  \A r1, r2 \in 0 .. j.rows - 1, c1, c2 \in 0 .. C - 1 :
     IterPlace(j, r1, c1) = IterPlace(j, r2, c2) => r1 = r2 /\ c1 = c2

(* What makes the copy of a tile right.                                                              *)
IterRight(j) ==
  /\ Clean(Iterate(j))
  /\ \A r \in 0 .. j.rows - 1, c \in 0 .. j.cols - 1 : IterMove(j, r, c) \in Iterate(j)
  /\ \A x \in Iterate(j) : x[1] \in IterRoom(j)

\* What the lemmas below use of a tile.
IterNumbers(j) ==
  /\ j.rows \in Nat /\ j.cols \in Nat /\ j.ceil \in Nat /\ j.val \in Nat
  /\ j.mSrc \in Nat /\ j.kSrc \in Nat /\ j.mDst \in Nat /\ j.kDst \in Nat
  /\ IterC0(j) \in Positive /\ Cube \in Positive /\ Block = 2 * Cube
  /\ Fractal(j.size) = Cube * IterC0(j) /\ Fractal(j.size) \in Positive
LEMMA IterFacts == ASSUME NEW j, IterLegal(j) PROVE IterNumbers(j)
<1>1. /\ j.rows \in Nat /\ j.cols \in Nat /\ j.ceil \in Nat /\ j.val \in Nat
      /\ j.mSrc \in Nat /\ j.kSrc \in Nat /\ j.mDst \in Nat /\ j.kDst \in Nat
      /\ j.size \in Nat \ {0} /\ j.size <= Block
  BY DEF IterLegal
<1>2. IterC0(j) \in Positive /\ Cube \in Positive /\ Block = 2 * Cube
  BY <1>1, C0Positive DEF IterC0
<1>3. Fractal(j.size) = Cube * IterC0(j)
  BY DEF Fractal, IterC0
<1>4. Cube * IterC0(j) \in Positive
  <2>1. IterC0(j) \in Nat /\ 0 < IterC0(j) /\ Cube \in Nat /\ 0 < Cube
    BY <1>2 DEF Positive
  <2>2. 0 * IterC0(j) + IterC0(j) <= Cube * IterC0(j) /\ Cube * IterC0(j) \in Nat
    BY <2>1, MulMonotone
  <2>. HIDE DEF IterC0
  <2>. QED  BY <2>1, <2>2 DEF Positive
<1>. QED  BY <1>1, <1>2, <1>3, <1>4 DEF IterNumbers

\* Columns up to the last column block of a tile belong to its room.
LEMMA IterRoomHas ==
    ASSUME NEW j, IterLegal(j), j.op # "gm_to_l1_ND", NEW C \in Nat,
           C <= j.cols \/ (j.op = "l0c_to_l1" /\ C <= CeilAlign(j.cols, Cube)),
           NEW r \in 0 .. j.rows - 1, NEW c \in 0 .. C - 1
    PROVE  IterPlace(j, r, c) \in IterRoom(j)
<1>1. IterNumbers(j)
  BY IterFacts
<1> DEFINE edge == IF j.op = "l0c_to_gm_ND" THEN 1 ELSE IF j.op = "l0c_to_l1" THEN Cube ELSE IterC0(j)
<1>2. edge \in Positive
  BY <1>1 DEF IterNumbers, Positive
<1>3. j.op = "l0c_to_l1" => edge = Cube
  OBVIOUS
<1>4. IterRoom(j) = {IterPlace(j, x, y) : x \in 0 .. j.rows - 1, y \in 0 .. CeilAlign(j.cols, edge) - 1}
  BY DEF IterRoom
<1>. HIDE DEF edge
<1>5. j.cols <= CeilAlign(j.cols, edge) /\ CeilAlign(j.cols, edge) \in Nat /\ j.cols \in Nat
  BY <1>1, <1>2, CeilFacts DEF IterNumbers
<1>6. C <= CeilAlign(j.cols, edge)
  BY <1>3, <1>5
<1>7. c \in 0 .. CeilAlign(j.cols, edge) - 1
  BY <1>5, <1>6
<1>. QED  BY <1>4, <1>7

\* A box whose cells have places of their own is copied right.
LEMMA BoxRight ==
    ASSUME NEW j, IterLegal(j), j.op # "gm_to_l1_ND", NEW C \in Nat, j.cols <= C,
           C <= j.cols \/ (j.op = "l0c_to_l1" /\ C <= CeilAlign(j.cols, Cube)), IterBox(j, C), IterApart(j, C)
    PROVE  IterRight(j)
<1> DEFINE R == j.rows  moves == Iterate(j)
           f == [r \in 0 .. R - 1 |-> [c \in 0 .. C - 1 |-> IterPlace(j, r, c)]]
           g == [r \in 0 .. R - 1 |-> [c \in 0 .. C - 1 |-> IterSource(j, r, c)]]
<1>1. R \in Nat /\ j.cols \in Nat
  BY IterFacts DEF IterNumbers
<1>2. \A r \in 0 .. R - 1, c \in 0 .. C - 1 : f[r][c] = IterPlace(j, r, c) /\ g[r][c] = IterSource(j, r, c)
  OBVIOUS
<1>3. \A x \in moves : \E r \in 0 .. R - 1, c \in 0 .. C - 1 : x = <<IterPlace(j, r, c), IterSource(j, r, c)>>
  BY DEF IterBox, IterMove
<1>4. \A r1, r2 \in 0 .. R - 1, c1, c2 \in 0 .. C - 1 :
        IterPlace(j, r1, c1) = IterPlace(j, r2, c2) => r1 = r2 /\ c1 = c2
  BY DEF IterApart
<1>5. \A r \in 0 .. R - 1, c \in 0 .. C - 1 : IterMove(j, r, c) \in moves
  BY DEF IterBox
<1>6. \A r \in 0 .. R - 1, c \in 0 .. C - 1 : IterPlace(j, r, c) \in IterRoom(j)
  BY IterRoomHas
<1>7. Clean(moves)
  <2>. HIDE DEF f, g, R, moves
  <2>1. Tabled(moves, R, C, f, g)
    <3>. SUFFICES ASSUME NEW x \in moves PROVE \E r \in 0 .. R - 1, c \in 0 .. C - 1 : x = <<f[r][c], g[r][c]>>
      BY DEF Tabled
    <3>1. PICK r \in 0 .. R - 1, c \in 0 .. C - 1 : x = <<IterPlace(j, r, c), IterSource(j, r, c)>>
      BY ONLY <1>3, x \in moves
    <3>2. x = <<f[r][c], g[r][c]>>
      BY ONLY <1>2, <3>1
    <3>. QED  BY ONLY <3>2
  <2>2. Distinct(f, R, C)
    BY ONLY <1>2, <1>4 DEF Distinct
  <2>. QED  BY ONLY <1>1, C \in Nat, <2>1, <2>2, TableClean
<1>8. \A r \in 0 .. R - 1, c \in 0 .. j.cols - 1 : IterMove(j, r, c) \in moves
  <2>. HIDE DEF R, moves
  <2>1. \A c \in 0 .. j.cols - 1 : c \in 0 .. C - 1
    BY <1>1
  <2>. QED  BY ONLY <1>5, <2>1
<1>9. ASSUME NEW x \in moves PROVE x[1] \in IterRoom(j)
  <2>. HIDE DEF R, moves
  <2>1. PICK r \in 0 .. R - 1, c \in 0 .. C - 1 : x = <<IterPlace(j, r, c), IterSource(j, r, c)>>
    BY ONLY <1>3, x \in moves
  <2>2. x[1] = IterPlace(j, r, c)
    BY ONLY <2>1
  <2>. QED  BY ONLY <1>6, <2>2
<1>. QED  BY <1>7, <1>8, <1>9 DEF IterRight

\* A kernel's copy is of one tile: it is sound if the tile is copied right.
LEMMA IterSoundIfRight == ASSUME NEW j, j.unit = "iterator", IterRight(j) PROVE Sound(j)
<1> DEFINE t == [row |-> 0, col |-> 0, height |-> j.rows, width |-> j.cols]
<1>1. Tiles(j) = {t}
  BY DEF Tiles
<1>2. t.height = j.rows /\ t.width = j.cols
  OBVIOUS
<1>. HIDE DEF t
<1>3. Moves(j, t) = {<<<<0, mv[1]>>, <<0, mv[2]>>>> : mv \in Iterate(j)}
  BY DEF Moves
<1>4. \A r, c : PlaceOf(j, t, r, c) = <<0, IterPlace(j, r, c)>> /\ SourceOf(j, t, r, c) = <<0, IterSource(j, r, c)>>
  BY DEF PlaceOf, SourceOf
<1>5. RoomOf(j, t) = {<<0, a>> : a \in IterRoom(j)}
  BY DEF RoomOf
<1>6. Clean(Moves(j, t))
  <2>1. Clean(Iterate(j))
    BY DEF IterRight
  <2>2. Moves(j, t) = IntoBuffer(0, Iterate(j))
    BY <1>3 DEF IntoBuffer
  <2>. QED  BY <2>1, <2>2, RenamedClean
<1>7. ASSUME NEW rc \in Cells(j, t)
      PROVE  <<PlaceOf(j, t, rc[1], rc[2]), SourceOf(j, t, rc[1], rc[2])>> \in Moves(j, t)
  <2>1. rc[1] \in 0 .. j.rows - 1 /\ rc[2] \in 0 .. j.cols - 1
    BY <1>2 DEF Cells
  <2> DEFINE p == IterPlace(j, rc[1], rc[2])  s == IterSource(j, rc[1], rc[2])
  <2>2. <<p, s>> \in Iterate(j)
    BY <2>1 DEF IterRight, IterMove
  <2>. HIDE DEF p, s
  <2>3. <<<<0, p>>, <<0, s>>>> \in Moves(j, t)
    BY <1>3, <2>2
  <2>. QED  BY <1>4, <2>3 DEF p, s
<1>8. ASSUME NEW x \in Moves(j, t) PROVE x[1] \in RoomOf(j, t)
  <2>1. PICK mv \in Iterate(j) : x = <<<<0, mv[1]>>, <<0, mv[2]>>>>
    BY <1>3
  <2>2. x[1] = <<0, mv[1]>>
    BY ONLY <2>1
  <2>3. mv[1] \in IterRoom(j)
    BY <2>1 DEF IterRight
  <2>. QED  BY <1>5, <2>2, <2>3
<1>. QED  BY <1>1, <1>6, <1>7, <1>8 DEF Sound

\* A tile written as column blocks is copied right.
LEMMA NzRight ==
    ASSUME NEW j, IterLegal(j), j.op # "gm_to_l1_ND", NEW h \in Nat, NEW c0 \in Positive, NEW C \in Nat,
           j.cols <= C, C <= j.cols \/ (j.op = "l0c_to_l1" /\ C <= CeilAlign(j.cols, Cube)), j.rows <= h,
           \A r, c : IterPlace(j, r, c) = NzAt(h, c0, r, c),
           \A x \in Iterate(j) : \E r \in 0 .. j.rows - 1, c \in 0 .. C - 1 : x = IterMove(j, r, c),
           \A r \in 0 .. j.rows - 1, c \in 0 .. C - 1 : IterMove(j, r, c) \in Iterate(j)
    PROVE  IterRight(j)
<1>1. j.rows \in Nat
  BY IterFacts DEF IterNumbers
<1>2. IterApart(j, C)
  <2>. SUFFICES ASSUME NEW r1 \in 0 .. j.rows - 1, NEW r2 \in 0 .. j.rows - 1, NEW c1 \in 0 .. C - 1, NEW c2 \in 0 .. C - 1,
                       IterPlace(j, r1, c1) = IterPlace(j, r2, c2)
                PROVE  r1 = r2 /\ c1 = c2
    BY DEF IterApart
  <2> DEFINE R == j.rows
  <2>1. r1 \in 0 .. h - 1 /\ r2 \in 0 .. h - 1 /\ c1 \in Nat /\ c2 \in Nat
    <3>1. R \in Nat /\ R <= h /\ r1 \in 0 .. R - 1 /\ r2 \in 0 .. R - 1
      BY <1>1
    <3>. HIDE DEF R
    <3>. QED  BY ONLY <3>1, h \in Nat, C \in Nat, c1 \in 0 .. C - 1, c2 \in 0 .. C - 1
  <2>2. NzAt(h, c0, r1, c1) = NzAt(h, c0, r2, c2)
    OBVIOUS
  <2>. QED  BY ONLY <2>1, <2>2, h \in Nat, c0 \in Positive, NzInjective
<1>3. IterBox(j, C)
  BY DEF IterBox
<1>. QED  BY <1>2, <1>3, BoxRight

\* A burst copy's moves, cell by cell.
BurstBlocks(moves, h, g, c0, len, count) ==
  /\ \A x \in moves : \E r \in 0 .. len - 1, c \in 0 .. count * c0 - 1 : x = <<NzAt(h, c0, r, c), NzAt(g, c0, r, c)>>
  /\ \A r \in 0 .. len - 1, c \in 0 .. count * c0 - 1 : <<NzAt(h, c0, r, c), NzAt(g, c0, r, c)>> \in moves

LEMMA BurstsAreBox ==
    ASSUME NEW count \in Nat, NEW len \in Nat, NEW g \in Nat, NEW h \in Nat, len <= h, len <= g, NEW c0 \in Positive
    PROVE  BurstBlocks(Bursts(0, 0, count, len, g - len, h - len, c0), h, g, c0, len, count)
<1> DEFINE moves == Bursts(0, 0, count, len, g - len, h - len, c0)
<1>1. 0 \in Int /\ g - len \in Int /\ h - len \in Nat /\ len + (h - len) = h /\ len + (g - len) = g
  OBVIOUS
<1>2. NzTile(moves, len + (h - len), c0, len, count * c0)
  BY ONLY <1>1, BurstsTile, count \in Nat, len \in Nat, c0 \in Positive
<1>3. \A r \in 0 .. len - 1, c \in 0 .. count * c0 - 1 :
        <<NzAt(len + (h - len), c0, r, c), 0 + NzAt(len + (g - len), c0, r, c)>> \in moves
  BY ONLY <1>1, BurstsTile, count \in Nat, len \in Nat, c0 \in Positive
<1>. HIDE DEF moves
<1>4. \A r \in 0 .. len - 1, c \in 0 .. count * c0 - 1 : <<NzAt(h, c0, r, c), NzAt(g, c0, r, c)>> \in moves
  <2>. SUFFICES ASSUME NEW r \in 0 .. len - 1, NEW c \in 0 .. count * c0 - 1
                PROVE  <<NzAt(h, c0, r, c), NzAt(g, c0, r, c)>> \in moves
    OBVIOUS
  <2>1. count * c0 \in Nat
    BY MulMonotone DEF Positive
  <2>2. c \in Nat /\ r \in Int
    BY <2>1
  <2>3. NzAt(g, c0, r, c) \in Int
    BY <2>2, NzForm
  <2>4. 0 + NzAt(g, c0, r, c) = NzAt(g, c0, r, c)
    BY ONLY <2>3
  <2>. QED  BY <1>1, <1>3, <2>4
<1>5. ASSUME NEW x \in moves
      PROVE  \E r \in 0 .. len - 1, c \in 0 .. count * c0 - 1 : x = <<NzAt(h, c0, r, c), NzAt(g, c0, r, c)>>
  <2>1. PICK r \in 0 .. len - 1, c \in 0 .. count * c0 - 1 : x[1] = NzAt(h, c0, r, c)
    BY <1>1, <1>2 DEF NzTile
  <2> DEFINE y == <<NzAt(h, c0, r, c), NzAt(g, c0, r, c)>>
  <2>2. y \in moves /\ y[1] = NzAt(h, c0, r, c)
    BY <1>4
  <2>3. Clean(moves)
    BY <1>2 DEF NzTile
  <2>. HIDE DEF y
  <2>4. x = y
    BY ONLY <2>1, <2>2, <2>3, x \in moves DEF Clean
  <2>. QED  BY <2>4 DEF y
<1>. QED  BY <1>4, <1>5 DEF BurstBlocks, moves

\* Rows copied one by one into column blocks are copied as one instruction would.
LEMMA RowsOneByOne ==
    ASSUME NEW rows \in Nat, NEW cols \in Nat, NEW v \in Nat, NEW h \in Nat, NEW c0 \in Positive
    PROVE  UNION {Nd2Nz(i * c0, i * v, 1, cols, 0, h, 0, c0) : i \in 0 .. rows - 1} = Nd2Nz(0, 0, rows, cols, v, h, 1, c0)
<1> DEFINE Row(i) == Nd2Nz(i * c0, i * v, 1, cols, 0, h, 0, c0)
           At(i, k, c) == <<i * c0 + (c \div c0) * h * c0 + k * 0 * c0 + (c % c0), i * v + k * 0 + c>>
           Cell(i, c) == <<0 + (c \div c0) * h * c0 + i * 1 * c0 + (c % c0), 0 + i * v + c>>
<1>1. \A i : Row(i) = {At(i, k, c) : k \in 0 .. 1 - 1, c \in 0 .. cols - 1}
  BY DEF Nd2Nz
<1>2. Nd2Nz(0, 0, rows, cols, v, h, 1, c0) = {Cell(i, c) : i \in 0 .. rows - 1, c \in 0 .. cols - 1}
  BY DEF Nd2Nz
<1>3. ASSUME NEW i \in 0 .. rows - 1, NEW k \in 0 .. 1 - 1, NEW c \in 0 .. cols - 1 PROVE At(i, k, c) = Cell(i, c)
  <2> DEFINE q == (c \div c0) * h * c0  x == c % c0  p == i * c0  z == i * v
  <2>1. k = 0 /\ c \in Nat /\ i \in Nat /\ c0 \in Int
    BY DEF Positive
  <2>2. c \div c0 \in Nat /\ x \in Nat
    BY <2>1, DivMod
  <2>3. q \in Int /\ p \in Int /\ z \in Int
    <3> DEFINE d == c \div c0
    <3>1. d \in Int
      BY <2>2
    <3>. HIDE DEF d
    <3>2. d * h * c0 \in Int
      BY <2>1, <3>1
    <3>. QED  BY <2>1, <3>2 DEF d
  <2>4. k * 0 * c0 = 0 /\ k * 0 = 0 /\ i * 1 * c0 = p
    BY <2>1
  <2>5. At(i, k, c) = <<p + q + k * 0 * c0 + x, z + k * 0 + c>> /\ Cell(i, c) = <<0 + q + i * 1 * c0 + x, 0 + z + c>>
    OBVIOUS
  <2>. HIDE DEF q, x, p, z, At, Cell
  <2>6. p + q + 0 + x = 0 + q + p + x /\ z + 0 + c = 0 + z + c
    BY <2>1, <2>2, <2>3
  <2>. QED  BY ONLY <2>4, <2>5, <2>6
<1>4. 0 \in 0 .. 1 - 1
  OBVIOUS
<1>. HIDE DEF At, Cell, Row
<1>5. \A i \in 0 .. rows - 1 : Row(i) = {Cell(i, c) : c \in 0 .. cols - 1}
  <2>. SUFFICES ASSUME NEW i \in 0 .. rows - 1 PROVE Row(i) = {Cell(i, c) : c \in 0 .. cols - 1}
    OBVIOUS
  <2>1. Row(i) = {At(i, k, c) : k \in 0 .. 1 - 1, c \in 0 .. cols - 1}
    BY <1>1
  <2>2. \A k \in 0 .. 1 - 1, c \in 0 .. cols - 1 : At(i, k, c) = Cell(i, c)
    BY <1>3
  <2>. QED  BY ONLY <1>4, <2>1, <2>2
<1>6. UNION {Row(i) : i \in 0 .. rows - 1} = {Cell(i, c) : i \in 0 .. rows - 1, c \in 0 .. cols - 1}
  BY ONLY <1>5
<1>. QED  BY <1>2, <1>6 DEF Row

\* The rows of ND in column blocks, cell by cell.
LEMMA Nd2NzBox ==
    ASSUME NEW rows \in Nat, NEW cols \in Nat, NEW v \in Nat, NEW h \in Nat, NEW c0 \in Positive, rows <= h
    PROVE  /\ \A x \in Nd2Nz(0, 0, rows, cols, v, h, 1, c0) : \E r \in 0 .. rows - 1, c \in 0 .. cols - 1 :
                x = <<NzAt(h, c0, r, c), RowMajorAt(v, r, c)>>
           /\ \A r \in 0 .. rows - 1, c \in 0 .. cols - 1 :
                <<NzAt(h, c0, r, c), RowMajorAt(v, r, c)>> \in Nd2Nz(0, 0, rows, cols, v, h, 1, c0)
<1> DEFINE Cell(r, c) == <<0 + (c \div c0) * h * c0 + r * 1 * c0 + (c % c0), 0 + r * v + c>>
<1>1. Nd2Nz(0, 0, rows, cols, v, h, 1, c0) = {Cell(r, c) : r \in 0 .. rows - 1, c \in 0 .. cols - 1}
  BY DEF Nd2Nz
<1>2. ASSUME NEW r \in 0 .. rows - 1, NEW c \in 0 .. cols - 1
      PROVE  Cell(r, c) = <<NzAt(h, c0, r, c), RowMajorAt(v, r, c)>>
  <2> DEFINE q == (c \div c0) * h * c0  x == c % c0  p == r * c0  z == r * v
  <2>1. c \in Nat /\ r \in Nat /\ c0 \in Int
    BY DEF Positive
  <2>2. c \div c0 \in Nat /\ x \in Nat
    BY <2>1, DivMod
  <2>3. q \in Int /\ p \in Int /\ z \in Int
    <3> DEFINE d == c \div c0
    <3>1. d \in Int
      BY <2>2
    <3>. HIDE DEF d
    <3>2. d * h * c0 \in Int
      BY <2>1, <3>1
    <3>. QED  BY <2>1, <3>2 DEF d
  <2>4. r * 1 * c0 = p
    BY <2>1
  <2>5. Cell(r, c) = <<0 + q + r * 1 * c0 + x, 0 + z + c>> /\ NzAt(h, c0, r, c) = q + p + x /\ RowMajorAt(v, r, c) = z + c
    BY DEF NzAt, RowMajorAt
  <2>. HIDE DEF q, x, p, z, Cell
  <2>6. 0 + q + p + x = q + p + x /\ 0 + z + c = z + c
    BY <2>1, <2>2, <2>3
  <2>. QED  BY ONLY <2>4, <2>5, <2>6
<1>. HIDE DEF Cell
<1>3. \A x \in {Cell(r, c) : r \in 0 .. rows - 1, c \in 0 .. cols - 1} :
        \E r \in 0 .. rows - 1, c \in 0 .. cols - 1 : x = Cell(r, c)
  OBVIOUS
<1>. QED  BY ONLY <1>1, <1>2, <1>3

\* A row of a fractal of half has as many elements as the fractal has rows.
LEMMA C0OfHalf == C0(2) = Cube
<1>1. Cube \in Nat \ {0} /\ Block = 2 * Cube
  BY FractalAssumption
<1>2. 2 \in Positive /\ 0 \in 0 .. 2 - 1 /\ Cube \in Nat
  BY <1>1 DEF Positive
<1>3. (2 * Cube + 0) \div 2 = Cube
  BY <1>2, DivModUnique
<1>. QED  BY <1>1, <1>3 DEF C0

\* A vector, and a matrix without gaps between its rows.
LEMMA IterND == ASSUME NEW j, IterLegal(j), j.op = "gm_to_l1_ND" PROVE IterRight(j)
<1> DEFINE c0 == IterC0(j)  n == j.rows * j.cols  len == CeilDiv(n, c0)  moves == Bursts(0, 0, 1, len, 0, 0, c0)
<1>1. IterNumbers(j)
  BY IterFacts
<1>2. n \in Nat /\ c0 \in Positive /\ j.rows \in Nat /\ j.cols \in Nat
  BY <1>1, MulMonotone DEF IterNumbers
<1>3. Iterate(j) = moves
  BY DEF Iterate, gm_to_l1_ND
<1>4. IterRoom(j) = 0 .. len * c0 - 1
  BY DEF IterRoom, CeilAlign
<1>5. \A r, c : IterMove(j, r, c) = <<RowMajorAt(j.cols, r, c), RowMajorAt(j.cols, r, c)>>
  BY DEF IterMove, IterPlace, IterSource
<1>6. len \in Nat /\ n <= len * c0 /\ len * c0 \in Nat
  <2>1. len \in Nat /\ n <= CeilAlign(n, c0) /\ CeilAlign(n, c0) \in Nat
    BY <1>2, CeilFacts
  <2>. QED  BY <2>1 DEF CeilAlign
<1>. HIDE DEF c0, n, len, moves
<1>7. /\ Clean(moves)
      /\ \A e \in 0 .. len * c0 - 1 : <<e, 0 + e>> \in moves
      /\ \A x \in moves : x[1] \in 0 .. len * c0 - 1
  <2>1. 0 \in Int
    OBVIOUS
  <2>. QED  BY <1>2, <1>6, <2>1, BurstLine DEF moves
<1>8. ASSUME NEW r \in 0 .. j.rows - 1, NEW c \in 0 .. j.cols - 1 PROVE IterMove(j, r, c) \in moves
  <2> DEFINE e == RowMajorAt(j.cols, r, c)
  <2>1. e \in 0 .. n - 1
    BY <1>2, RowMajorRange DEF n
  <2>. HIDE DEF e
  <2>2. e \in 0 .. len * c0 - 1 /\ 0 + e = e
    BY <1>2, <1>6, <2>1
  <2>3. <<e, e>> \in moves
    BY <1>7, <2>2
  <2>. QED  BY <1>5, <2>3 DEF e
<1>. QED  BY <1>3, <1>4, <1>7, <1>8 DEF IterRight

\* Column blocks to column blocks of another height: the moves, cell by cell.
LEMMA BlocksMoved ==
    ASSUME NEW j, IterLegal(j), j.op \in {"gm_to_l1_NZ", "ub_to_gm_NZ"},
           NEW g \in Nat, NEW h \in Nat, j.rows <= g, j.rows <= h,
           BurstBlocks(Iterate(j), h, g, IterC0(j), j.rows, j.cols \div IterC0(j)),
           \A r, c : IterPlace(j, r, c) = NzAt(h, IterC0(j), r, c) /\ IterSource(j, r, c) = NzAt(g, IterC0(j), r, c)
    PROVE  IterRight(j)
<1>1. IterNumbers(j) /\ j.cols % IterC0(j) = 0
  BY IterFacts DEF IterLegal
<1> DEFINE c0 == IterC0(j)
<1>2. (j.cols \div c0) * c0 = j.cols /\ j.cols \in Nat /\ c0 \in Positive
  <2>1. j.cols \in Nat /\ c0 \in Positive
    BY <1>1 DEF IterNumbers
  <2>2. j.cols = c0 * (j.cols \div c0) /\ j.cols \div c0 \in Nat
    BY <1>1, <2>1, CeilOfMultiple, DivMod
  <2> DEFINE q == j.cols \div c0
  <2>. HIDE DEF c0, q
  <2>3. q * c0 = c0 * q
    BY <2>1, <2>2 DEF q, Positive
  <2>. QED  BY <2>1, <2>2, <2>3 DEF q
<1>3. \A r, c : IterMove(j, r, c) = <<NzAt(h, c0, r, c), NzAt(g, c0, r, c)>>
  BY DEF IterMove
<1>4. BurstBlocks(Iterate(j), h, g, c0, j.rows, j.cols \div c0)
  OBVIOUS
<1>5. j.op # "gm_to_l1_ND"
  OBVIOUS
<1>. HIDE DEF c0
<1>6. \A x \in Iterate(j) : \E r \in 0 .. j.rows - 1, c \in 0 .. j.cols - 1 : x = IterMove(j, r, c)
  BY ONLY <1>2, <1>3, <1>4 DEF BurstBlocks
<1>7. \A r \in 0 .. j.rows - 1, c \in 0 .. j.cols - 1 : IterMove(j, r, c) \in Iterate(j)
  BY ONLY <1>2, <1>3, <1>4 DEF BurstBlocks
<1>8. \A r, c : IterPlace(j, r, c) = NzAt(h, c0, r, c)
  BY DEF c0
<1>9. j.cols <= j.cols
  BY <1>2
<1>. QED  BY <1>2, <1>5, <1>6, <1>7, <1>8, <1>9, NzRight

\* Column blocks copied one by one, or all of them.
LEMMA BlocksOneByOne ==
    ASSUME NEW count \in Nat, NEW len \in Nat, NEW from \in Nat, NEW to \in Nat, NEW c0 \in Positive
    PROVE  UNION {Bursts(i * to * c0, i * from * c0, 1, len, 0, 0, c0) : i \in 0 .. count - 1}
             = Bursts(0, 0, count, len, from - len, to - len, c0)
<1> DEFINE src == 0
<1>1. src \in Int /\ from \in Int /\ to \in Int
  OBVIOUS
<1>2. \A i \in 0 .. count - 1 : src + i * from * c0 = i * from * c0
  BY DEF Positive
<1>3. src = 0
  OBVIOUS
<1>. HIDE DEF src
<1>4. UNION {Bursts(i * to * c0, src + i * from * c0, 1, len, 0, 0, c0) : i \in 0 .. count - 1}
        = Bursts(0, src, count, len, from - len, to - len, c0)
  BY ONLY <1>1, count \in Nat, len \in Nat, c0 \in Positive, BurstsOneByOne
<1>. QED  BY ONLY <1>2, <1>3, <1>4

LEMMA IterNZ == ASSUME NEW j, IterLegal(j), j.op \in {"gm_to_l1_NZ", "ub_to_gm_NZ"} PROVE IterRight(j)
<1>1. IterNumbers(j) /\ j.rows <= j.ceil
  BY IterFacts DEF IterLegal
<1> DEFINE c0 == IterC0(j)  n == j.cols \div c0
<1>2. c0 \in Positive /\ n \in Nat /\ j.rows \in Nat /\ j.ceil \in Nat /\ j.rows <= j.rows
  <2>1. c0 \in Positive /\ j.cols \in Nat /\ j.rows \in Nat /\ j.ceil \in Nat
    BY <1>1 DEF IterNumbers
  <2>. QED  BY <2>1, DivMod
<1> DEFINE R == j.rows  H == j.ceil
<1>3. 0 \in Int /\ R - R = 0 /\ R \in Int /\ H \in Int
  BY <1>2
<1>4. CASE j.op = "gm_to_l1_NZ"
  <2>1. Iterate(j) = IF H - R < StrideLimitH THEN Bursts(0, 0, n, R, H - R, 0, c0)
                     ELSE UNION {Bursts(i * R * c0, i * H * c0, 1, R, 0, 0, c0) : i \in 0 .. n - 1}
    BY <1>4 DEF Iterate, gm_to_l1_NZ
  <2>2. UNION {Bursts(i * R * c0, i * H * c0, 1, R, 0, 0, c0) : i \in 0 .. n - 1} = Bursts(0, 0, n, R, H - R, R - R, c0)
    <3>. HIDE DEF R, H, c0, n
    <3>1. R \in Nat /\ H \in Nat
      BY <1>2 DEF R, H
    <3>. QED  BY ONLY <1>2, <3>1, BlocksOneByOne
  <2>4. Iterate(j) = Bursts(0, 0, n, R, H - R, R - R, c0)
    <3>. HIDE DEF R, H, c0, n
    <3>. QED  BY ONLY <1>3, <2>1, <2>2
  <2>5. BurstBlocks(Iterate(j), R, H, c0, R, n)
    BY <1>1, <1>2, <2>4, BurstsAreBox
  <2>6. \A r, c : IterPlace(j, r, c) = NzAt(R, c0, r, c) /\ IterSource(j, r, c) = NzAt(H, c0, r, c)
    BY <1>4 DEF IterPlace, IterSource
  <2>. QED  BY <1>1, <1>2, <2>5, <2>6, BlocksMoved
<1>5. CASE j.op = "ub_to_gm_NZ"
  <2>1. Iterate(j) = IF H - R < StrideLimitH THEN Bursts(0, 0, n, R, 0, H - R, c0)
                     ELSE UNION {Bursts(i * H * c0, i * R * c0, 1, R, 0, 0, c0) : i \in 0 .. n - 1}
    BY <1>5 DEF Iterate, ub_to_gm_NZ
  <2>2. UNION {Bursts(i * H * c0, i * R * c0, 1, R, 0, 0, c0) : i \in 0 .. n - 1} = Bursts(0, 0, n, R, R - R, H - R, c0)
    <3>. HIDE DEF R, H, c0, n
    <3>1. R \in Nat /\ H \in Nat
      BY <1>2 DEF R, H
    <3>. QED  BY ONLY <1>2, <3>1, BlocksOneByOne
  <2>4. Iterate(j) = Bursts(0, 0, n, R, R - R, H - R, c0)
    <3>. HIDE DEF R, H, c0, n
    <3>. QED  BY ONLY <1>3, <2>1, <2>2
  <2>5. BurstBlocks(Iterate(j), H, R, c0, R, n)
    BY <1>1, <1>2, <2>4, BurstsAreBox
  <2>6. \A r, c : IterPlace(j, r, c) = NzAt(H, c0, r, c) /\ IterSource(j, r, c) = NzAt(R, c0, r, c)
    BY <1>5 DEF IterPlace, IterSource
  <2>. QED  BY <1>1, <1>2, <2>5, <2>6, BlocksMoved
<1>. QED  BY <1>4, <1>5

\* ND becomes column blocks, or the rows of fractals that these are when transposed.
LEMMA IterNDtoNZ == ASSUME NEW j, IterLegal(j), j.op \in {"gm_to_l1_NDtoNZ", "gm_to_l1_NDtoZN"} PROVE IterRight(j)
<1>1. IterNumbers(j) /\ j.rows <= j.ceil /\ (j.op = "gm_to_l1_NDtoZN" => j.val < StrideLimitH \/ j.rows = 1)
  BY IterFacts DEF IterLegal
<1> DEFINE c0 == IterC0(j)  R == j.rows  C == j.cols  H == j.ceil  V == j.val  moves == Nd2Nz(0, 0, R, C, V, H, 1, c0)
<1>2. c0 \in Positive /\ R \in Nat /\ C \in Nat /\ H \in Nat /\ V \in Nat /\ R <= H
  BY <1>1 DEF IterNumbers
<1>3. UNION {Nd2Nz(i * c0, i * V, 1, C, 0, H, 0, c0) : i \in 0 .. R - 1} = moves
  <2>. HIDE DEF c0, R, C, H, V
  <2>. QED  BY <1>2, RowsOneByOne
<1>4. Iterate(j) = moves
  <2>1. CASE V < StrideLimitH
    BY <2>1 DEF Iterate, gm_to_l1_NDtoNZ, gm_to_l1_NDtoZN
  <2>2. CASE ~(V < StrideLimitH) /\ j.op = "gm_to_l1_NDtoNZ"
    <3>1. Iterate(j) = UNION {Nd2Nz(i * c0, i * V, 1, C, 0, H, 0, c0) : i \in 0 .. R - 1}
      BY <2>2 DEF Iterate, gm_to_l1_NDtoNZ
    <3>. QED  BY <1>3, <3>1
  <2>3. CASE ~(V < StrideLimitH) /\ j.op = "gm_to_l1_NDtoZN"
    <3>1. Iterate(j) = Nd2Nz(0, 0, 1, C, 0, H, 0, c0) /\ R = 1
      BY <1>1, <2>3 DEF Iterate, gm_to_l1_NDtoZN
    <3>2. UNION {Nd2Nz(i * c0, i * V, 1, C, 0, H, 0, c0) : i \in 0 .. R - 1} = Nd2Nz(0, 0, 1, C, 0, H, 0, c0)
      <4>. HIDE DEF c0, C, H, V, R
      <4>1. 0 .. R - 1 = {0} /\ 0 * c0 = 0 /\ 0 * V = 0
        BY <1>2, <3>1 DEF Positive
      <4>. QED  BY ONLY <4>1
    <3>. QED  BY <1>3, <3>1, <3>2
  <2>. QED  BY <2>1, <2>2, <2>3
<1>5. \A r, c : IterMove(j, r, c) = <<NzAt(H, c0, r, c), RowMajorAt(V, r, c)>> /\ IterPlace(j, r, c) = NzAt(H, c0, r, c)
  BY DEF IterMove, IterPlace, IterSource
<1>6. /\ \A x \in moves : \E r \in 0 .. R - 1, c \in 0 .. C - 1 : x = <<NzAt(H, c0, r, c), RowMajorAt(V, r, c)>>
      /\ \A r \in 0 .. R - 1, c \in 0 .. C - 1 : <<NzAt(H, c0, r, c), RowMajorAt(V, r, c)>> \in moves
  <2>. HIDE DEF c0, R, C, H, V
  <2>. QED  BY <1>2, Nd2NzBox
<1>7. \A x \in Iterate(j) : \E r \in 0 .. j.rows - 1, c \in 0 .. j.cols - 1 : x = IterMove(j, r, c)
  BY ONLY <1>4, <1>5, <1>6
<1>8. \A r \in 0 .. j.rows - 1, c \in 0 .. j.cols - 1 : IterMove(j, r, c) \in Iterate(j)
  BY ONLY <1>4, <1>5, <1>6
<1>9. \A r, c : IterPlace(j, r, c) = NzAt(H, c0, r, c)
  BY <1>5
<1>10. j.op # "gm_to_l1_ND" /\ j.cols <= j.cols
  BY <1>2
<1>. QED  BY <1>2, <1>7, <1>8, <1>9, <1>10, NzRight

\* Out of L0C, as rows or as column blocks of half.
LEMMA IterOutND == ASSUME NEW j, IterLegal(j), j.op = "l0c_to_gm_ND" PROVE IterRight(j)
<1>1. IterNumbers(j) /\ j.cols <= j.val
  BY IterFacts DEF IterLegal
<1> DEFINE R == j.rows  C == j.cols  V == j.val
<1>2. R \in Nat /\ C \in Nat /\ V \in Nat /\ C <= V
  BY <1>1 DEF IterNumbers
<1>3. Iterate(j) = {<<RowMajorAt(V, r, c) + 0, NzAt(j.ceil, Cube, r, c)>> : r \in 0 .. R - 1, c \in 0 .. C - 1}
  BY DEF Iterate, l0c_to_gm_ND, FixpipeRowMajor
<1>4. \A r, c : IterMove(j, r, c) = <<RowMajorAt(V, r, c), NzAt(j.ceil, Cube, r, c)>> /\ IterPlace(j, r, c) = RowMajorAt(V, r, c)
  BY DEF IterMove, IterPlace, IterSource
<1>. HIDE DEF R, C, V
<1>5. \A r \in 0 .. R - 1, c \in 0 .. C - 1 : RowMajorAt(V, r, c) + 0 = RowMajorAt(V, r, c)
  BY <1>2 DEF RowMajorAt
<1>6. Iterate(j) = {IterMove(j, r, c) : r \in 0 .. R - 1, c \in 0 .. C - 1}
  BY ONLY <1>3, <1>4, <1>5
<1>7. IterBox(j, C)
  BY ONLY <1>6 DEF IterBox, R
<1>8. IterApart(j, C)
  <2>. SUFFICES ASSUME NEW r1 \in 0 .. R - 1, NEW r2 \in 0 .. R - 1, NEW c1 \in 0 .. C - 1, NEW c2 \in 0 .. C - 1,
                       IterPlace(j, r1, c1) = IterPlace(j, r2, c2)
                PROVE  r1 = r2 /\ c1 = c2
    BY DEF IterApart, R
  <2>1. r1 \in Nat /\ r2 \in Nat /\ c1 \in 0 .. V - 1 /\ c2 \in 0 .. V - 1
    BY <1>2
  <2>2. RowMajorAt(V, r1, c1) = RowMajorAt(V, r2, c2)
    BY <1>4
  <2>. QED  BY ONLY <1>2, <2>1, <2>2, RowMajorInjective
<1>9. j.op # "gm_to_l1_ND" /\ j.cols <= C /\ C <= j.cols
  BY <1>2 DEF C
<1>. QED  BY <1>2, <1>7, <1>8, <1>9, BoxRight

LEMMA IterOutNZ == ASSUME NEW j, IterLegal(j), j.op = "l0c_to_gm_NZ" PROVE IterRight(j)
<1>1. IterNumbers(j) /\ j.rows <= j.val
  BY IterFacts DEF IterLegal
<1> DEFINE R == j.rows  C == j.cols  V == j.val
<1>2. R \in Nat /\ C \in Nat /\ V \in Nat /\ R <= V /\ Cube \in Positive /\ j.ceil \in Nat
  BY <1>1 DEF IterNumbers
<1> DEFINE Cell(r, c) == <<0 + (c \div Cube) * (V * Cube) + r * Cube + (c % Cube), NzAt(j.ceil, Cube, r, c)>>
<1>3. Iterate(j) = {Cell(r, c) : r \in 0 .. R - 1, c \in 0 .. C - 1}
  BY C0OfHalf DEF Iterate, l0c_to_gm_NZ, FixpipeNz
<1>4. \A r, c : /\ IterMove(j, r, c) = <<IterPlace(j, r, c), NzAt(j.ceil, Cube, r, c)>>
                /\ IterPlace(j, r, c) = NzAt(V, Cube, r, c)
  BY C0OfHalf DEF IterMove, IterPlace, IterSource, NzAt
<1>5. ASSUME NEW r \in 0 .. R - 1, NEW c \in 0 .. C - 1 PROVE Cell(r, c) = IterMove(j, r, c)
  <2> DEFINE q == c \div Cube  x == c % Cube
  <2>1. c \in Nat /\ r \in Int /\ Cube \in Int
    BY <1>2 DEF Positive
  <2>2. q \in Nat /\ x \in Nat
    BY <1>2, <2>1, DivMod
  <2>3. NzAt(V, Cube, r, c) = q * V * Cube + r * Cube + x
    BY DEF NzAt
  <2>4. Cell(r, c) = <<0 + q * (V * Cube) + r * Cube + x, NzAt(j.ceil, Cube, r, c)>>
    OBVIOUS
  <2>. HIDE DEF q, x, V, Cell
  <2>5. 0 + q * (V * Cube) + r * Cube + x = q * V * Cube + r * Cube + x
    BY <1>2, <2>1, <2>2
  <2>. QED  BY ONLY <1>4, <2>3, <2>4, <2>5
<1>. HIDE DEF Cell
<1>6. \A x \in Iterate(j) : \E r \in 0 .. R - 1, c \in 0 .. C - 1 : x = IterMove(j, r, c)
  BY ONLY <1>3, <1>5
<1>7. \A r \in 0 .. R - 1, c \in 0 .. C - 1 : IterMove(j, r, c) \in Iterate(j)
  BY ONLY <1>3, <1>5
<1>8. j.op # "gm_to_l1_ND" /\ C <= C
  BY <1>2
<1>9. \A r, c : IterPlace(j, r, c) = NzAt(V, Cube, r, c)
  BY <1>4
<1>. QED  BY <1>2, <1>6, <1>7, <1>8, <1>9, NzRight

\* Out of L0C to L1: the lengths, in units of 32 bytes of int32 and of half, are the rows.
LengthsAreRows(rows) == ((((rows * Cube * 4) \div Block) * 2) \div 4) = rows
LEMMA BlockLengths ==
    ASSUME NEW rows \in Nat, Cube \in Positive, Block = 2 * Cube
    PROVE  LengthsAreRows(rows)
<1>1. Block \in Positive /\ Cube \in Nat /\ 0 \in 0 .. Block - 1 /\ 2 * rows \in Nat
  BY DEF Positive
<1>2. Block * (2 * rows) + 0 = rows * Cube * 4
  BY <1>1
<1>3. (Block * (2 * rows) + 0) \div Block = 2 * rows
  BY ONLY <1>1, DivModUnique
<1>4. ((2 * rows) * 2) \div 4 = rows
  OBVIOUS
<1>5. (rows * Cube * 4) \div Block = 2 * rows
  BY ONLY <1>2, <1>3
<1>. QED  BY ONLY <1>4, <1>5 DEF LengthsAreRows

LEMMA IterL0cToL1 == ASSUME NEW j, IterLegal(j), j.op = "l0c_to_l1" PROVE IterRight(j)
<1>1. IterNumbers(j) /\ j.rows <= j.ceil
  BY IterFacts DEF IterLegal
<1> DEFINE R == j.rows  H == j.ceil  n == CeilDiv(j.cols, Cube)  C == n * Cube
<1>2. R \in Nat /\ H \in Nat /\ R <= H /\ j.cols \in Nat /\ Cube \in Positive /\ Block = 2 * Cube
  BY <1>1 DEF IterNumbers
<1>3. n \in Nat /\ C \in Nat /\ j.cols <= C /\ C = CeilAlign(j.cols, Cube)
  <2>1. n \in Nat /\ CeilAlign(j.cols, Cube) \in Nat /\ j.cols <= CeilAlign(j.cols, Cube)
    BY <1>2, CeilFacts
  <2>. QED  BY <2>1 DEF CeilAlign
<1> DEFINE len == (((R * Cube * 4) \div Block) * 2) \div 4
<1>5. Iterate(j) = Bursts(0, 0, n, len, 0, H - len, Cube)
  BY DEF Iterate, l0c_to_l1
<1>. HIDE DEF R, H, n, C
<1>4. len = R /\ R - R = 0 /\ R <= R
  <2>1. LengthsAreRows(R)
    BY <1>2, BlockLengths
  <2>2. R - R = 0 /\ R <= R
    BY <1>2
  <2>. QED  BY ONLY <2>1, <2>2 DEF LengthsAreRows
<1>. HIDE DEF len
<1>6. Iterate(j) = Bursts(0, 0, n, R, R - R, H - R, Cube)
  BY ONLY <1>4, <1>5
<1>7. BurstBlocks(Iterate(j), H, R, Cube, R, n)
  BY <1>2, <1>3, <1>4, <1>6, BurstsAreBox
<1>8. \A r, c : IterMove(j, r, c) = <<NzAt(H, Cube, r, c), NzAt(R, Cube, r, c)>> /\ IterPlace(j, r, c) = NzAt(H, Cube, r, c)
  BY DEF IterMove, IterPlace, IterSource, H, R
<1>9. \A x \in Iterate(j) : \E r \in 0 .. j.rows - 1, c \in 0 .. C - 1 : x = IterMove(j, r, c)
  <2>1. \A x \in Iterate(j) : \E r \in 0 .. R - 1, c \in 0 .. n * Cube - 1 : x = <<NzAt(H, Cube, r, c), NzAt(R, Cube, r, c)>>
    BY ONLY <1>7 DEF BurstBlocks
  <2>2. \A x \in Iterate(j) : \E r \in 0 .. R - 1, c \in 0 .. n * Cube - 1 : x = IterMove(j, r, c)
    BY ONLY <1>8, <2>1
  <2>. QED  BY ONLY <2>2 DEF R, C
<1>10. \A r \in 0 .. j.rows - 1, c \in 0 .. C - 1 : IterMove(j, r, c) \in Iterate(j)
  <2>1. \A r \in 0 .. R - 1, c \in 0 .. n * Cube - 1 : <<NzAt(H, Cube, r, c), NzAt(R, Cube, r, c)>> \in Iterate(j)
    BY ONLY <1>7 DEF BurstBlocks
  <2>2. \A r \in 0 .. R - 1, c \in 0 .. n * Cube - 1 : IterMove(j, r, c) \in Iterate(j)
    BY ONLY <1>8, <2>1
  <2>. QED  BY ONLY <2>2 DEF R, C
<1>11. j.op # "gm_to_l1_ND" /\ (j.op = "l0c_to_l1" /\ C <= CeilAlign(j.cols, Cube)) /\ j.rows <= H
  BY <1>2, <1>3 DEF R
<1>12. \A r, c : IterPlace(j, r, c) = NzAt(H, Cube, r, c)
  BY <1>8
<1>. QED  BY <1>2, <1>3, <1>9, <1>10, <1>11, <1>12, NzRight

-----------------------------------------------------------------------------
(* A kernel's own copies: fractals a number of fractals apart.             *)
(* Element e of the fractal a number of fractals down and across.                                    *)
Lie(F, mStride, kStride, i, b, e) == (i * mStride + b * kStride) * F + e

(* The moves of a tile of h x w fractals, fractal by fractal.                                        *)
IterFractals(j, h, w, down, across) ==
  /\ \A m \in Iterate(j) : \E i \in 0 .. down - 1, b \in 0 .. across - 1, x \in 0 .. h - 1, y \in 0 .. w - 1 :
        m = IterMove(j, h * i + x, w * b + y)
  /\ \A i \in 0 .. down - 1, b \in 0 .. across - 1, x \in 0 .. h - 1, y \in 0 .. w - 1 :
        IterMove(j, h * i + x, w * b + y) \in Iterate(j)

(* Its fractals have places of their own, and so have the elements of each.                          *)
IterLies(j, h, w, down, across, F, mStride, kStride, e) ==
  /\ \A i \in 0 .. down - 1, b \in 0 .. across - 1, x \in 0 .. h - 1, y \in 0 .. w - 1 :
        IterPlace(j, h * i + x, w * b + y) = Lie(F, mStride, kStride, i, b, e[x][y])
  /\ \A x \in 0 .. h - 1, y \in 0 .. w - 1 : e[x][y] \in 0 .. F - 1
  /\ Distinct(e, h, w)

SameFractal(mStride, kStride, i1, b1, i2, b2) == i1 * mStride + b1 * kStride = i2 * mStride + b2 * kStride

\* The number of fractals before one, and an element in it.
LEMMA LieForm ==
    ASSUME NEW F, NEW mStride \in Nat, NEW kStride \in Nat, NEW i \in Nat, NEW b \in Nat, NEW e
    PROVE  /\ i * mStride + b * kStride \in Nat
           /\ Lie(F, mStride, kStride, i, b, e) = RowMajorAt(F, i * mStride + b * kStride, e)
<1>1. i * mStride \in Nat /\ b * kStride \in Nat
  BY MulMonotone
<1>2. i * mStride + b * kStride \in Nat
  BY <1>1
<1>. QED  BY <1>2 DEF Lie, RowMajorAt

\* Fractals that do not overlap are the same one where they start at the same place.
LEMMA FractalAlone ==
    ASSUME NEW down, NEW across, NEW mStride, NEW kStride, FractalsApart(down, across, mStride, kStride),
           NEW i1 \in 0 .. down - 1, NEW i2 \in 0 .. down - 1, NEW b1 \in 0 .. across - 1, NEW b2 \in 0 .. across - 1,
           SameFractal(mStride, kStride, i1, b1, i2, b2)
    PROVE  i1 = i2 /\ b1 = b2
BY SMT DEF FractalsApart, SameFractal

\* A tile made of fractals that do not overlap is copied right.
LEMMA FractalsRight ==
    ASSUME NEW j, IterLegal(j), j.op # "gm_to_l1_ND", NEW h \in Positive, NEW w \in Positive,
           NEW down \in Nat, NEW across \in Nat, j.rows = down * h, j.cols = across * w,
           NEW F \in Nat, NEW mStride \in Nat, NEW kStride \in Nat, NEW e,
           IterFractals(j, h, w, down, across),
           IterLies(j, h, w, down, across, F, mStride, kStride, e),
           FractalsApart(down, across, mStride, kStride)
    PROVE  IterRight(j)
<1> DEFINE R == j.rows  C == j.cols
<1>1. R \in Nat /\ C \in Nat /\ C <= C
  BY IterFacts DEF IterNumbers
<1>2. R = down * h /\ C = across * w
  OBVIOUS
<1>. HIDE DEF R, C
<1>3. Cut(h, down, R) /\ Cut(w, across, C)
  BY ONLY <1>1, <1>2, h \in Positive, w \in Positive, down \in Nat, across \in Nat, CutIndex
<1>4. \A r \in 0 .. R - 1 : \E i \in 0 .. down - 1, x \in 0 .. h - 1 : r = h * i + x
  BY ONLY <1>3 DEF Cut
<1>5. \A c \in 0 .. C - 1 : \E b \in 0 .. across - 1, y \in 0 .. w - 1 : c = w * b + y
  BY ONLY <1>3 DEF Cut
<1>6. \A i \in 0 .. down - 1, x \in 0 .. h - 1 : h * i + x \in 0 .. R - 1
  BY ONLY <1>3 DEF Cut
<1>7. \A b \in 0 .. across - 1, y \in 0 .. w - 1 : w * b + y \in 0 .. C - 1
  BY ONLY <1>3 DEF Cut
<1>8. ASSUME NEW m \in Iterate(j) PROVE \E r \in 0 .. R - 1, c \in 0 .. C - 1 : m = IterMove(j, r, c)
  <2>1. PICK i \in 0 .. down - 1, b \in 0 .. across - 1, x \in 0 .. h - 1, y \in 0 .. w - 1 :
             m = IterMove(j, h * i + x, w * b + y)
    BY ONLY m \in Iterate(j), IterFractals(j, h, w, down, across) DEF IterFractals
  <2> DEFINE r == h * i + x  c == w * b + y
  <2>2. r \in 0 .. R - 1 /\ c \in 0 .. C - 1 /\ m = IterMove(j, r, c)
    BY ONLY <1>6, <1>7, <2>1, i \in 0 .. down - 1, b \in 0 .. across - 1, x \in 0 .. h - 1, y \in 0 .. w - 1
  <2>. HIDE DEF r, c
  <2>. QED  BY ONLY <2>2
<1>9. ASSUME NEW r \in 0 .. R - 1, NEW c \in 0 .. C - 1 PROVE IterMove(j, r, c) \in Iterate(j)
  <2>1. PICK i \in 0 .. down - 1, x \in 0 .. h - 1 : r = h * i + x
    BY ONLY <1>4, r \in 0 .. R - 1
  <2>2. PICK b \in 0 .. across - 1, y \in 0 .. w - 1 : c = w * b + y
    BY ONLY <1>5, c \in 0 .. C - 1
  <2>3. IterMove(j, h * i + x, w * b + y) \in Iterate(j)
    BY ONLY IterFractals(j, h, w, down, across), i \in 0 .. down - 1, b \in 0 .. across - 1, x \in 0 .. h - 1,
            y \in 0 .. w - 1 DEF IterFractals
  <2>. QED  BY ONLY <2>1, <2>2, <2>3
<1>10. IterBox(j, C)
  BY ONLY <1>8, <1>9 DEF IterBox, R
<1>11. IterApart(j, C)
  <2>. SUFFICES ASSUME NEW r1 \in 0 .. R - 1, NEW r2 \in 0 .. R - 1, NEW c1 \in 0 .. C - 1, NEW c2 \in 0 .. C - 1,
                       IterPlace(j, r1, c1) = IterPlace(j, r2, c2)
                PROVE  r1 = r2 /\ c1 = c2
    BY DEF IterApart, R
  <2>1. PICK i1 \in 0 .. down - 1, x1 \in 0 .. h - 1 : r1 = h * i1 + x1
    BY ONLY <1>4, r1 \in 0 .. R - 1
  <2>2. PICK b1 \in 0 .. across - 1, y1 \in 0 .. w - 1 : c1 = w * b1 + y1
    BY ONLY <1>5, c1 \in 0 .. C - 1
  <2>3. PICK i2 \in 0 .. down - 1, x2 \in 0 .. h - 1 : r2 = h * i2 + x2
    BY ONLY <1>4, r2 \in 0 .. R - 1
  <2>4. PICK b2 \in 0 .. across - 1, y2 \in 0 .. w - 1 : c2 = w * b2 + y2
    BY ONLY <1>5, c2 \in 0 .. C - 1
  <2> DEFINE e1 == e[x1][y1]  e2 == e[x2][y2]
  <2>5. IterPlace(j, h * i1 + x1, w * b1 + y1) = Lie(F, mStride, kStride, i1, b1, e1) /\ e1 \in 0 .. F - 1
    BY DEF IterLies
  <2>6. IterPlace(j, h * i2 + x2, w * b2 + y2) = Lie(F, mStride, kStride, i2, b2, e2) /\ e2 \in 0 .. F - 1
    BY DEF IterLies
  <2>7. Lie(F, mStride, kStride, i1, b1, e1) = Lie(F, mStride, kStride, i2, b2, e2)
    BY ONLY <2>1, <2>2, <2>3, <2>4, <2>5, <2>6, IterPlace(j, r1, c1) = IterPlace(j, r2, c2)
  <2>. HIDE DEF e1, e2
  <2>8. SameFractal(mStride, kStride, i1, b1, i2, b2) /\ e1 = e2
    <3> DEFINE p == i1 * mStride + b1 * kStride  q == i2 * mStride + b2 * kStride
    <3>1. i1 \in Nat /\ i2 \in Nat /\ b1 \in Nat /\ b2 \in Nat
      OBVIOUS
    <3>2. p \in Nat /\ Lie(F, mStride, kStride, i1, b1, e1) = RowMajorAt(F, p, e1)
      BY <3>1, LieForm
    <3>3. q \in Nat /\ Lie(F, mStride, kStride, i2, b2, e2) = RowMajorAt(F, q, e2)
      BY <3>1, LieForm
    <3>. HIDE DEF p, q
    <3>4. RowMajorAt(F, p, e1) = RowMajorAt(F, q, e2) /\ e1 \in 0 .. F - 1 /\ e2 \in 0 .. F - 1
      BY ONLY <2>5, <2>6, <2>7, <3>2, <3>3
    <3>5. p = q /\ e1 = e2
      BY ONLY <3>2, <3>3, <3>4, F \in Nat, RowMajorInjective
    <3>. QED  BY ONLY <3>5 DEF p, q, SameFractal
  <2>9. i1 = i2 /\ b1 = b2
    BY ONLY <2>8, FractalsApart(down, across, mStride, kStride), i1 \in 0 .. down - 1, i2 \in 0 .. down - 1,
            b1 \in 0 .. across - 1, b2 \in 0 .. across - 1, FractalAlone
  <2>10. x1 = x2 /\ y1 = y2
    <3>1. Distinct(e, h, w)
      BY DEF IterLies
    <3>2. e[x1][y1] = e[x2][y2]
      BY ONLY <2>8 DEF e1, e2
    <3>. QED  BY ONLY <3>1, <3>2, x1 \in 0 .. h - 1, x2 \in 0 .. h - 1, y1 \in 0 .. w - 1, y2 \in 0 .. w - 1 DEF Distinct
  <2>. QED  BY ONLY <2>1, <2>2, <2>3, <2>4, <2>9, <2>10
<1>12. j.cols <= C /\ C <= j.cols
  BY <1>1 DEF C
<1>. QED  BY <1>1, <1>10, <1>11, <1>12, BoxRight

\* What Strided and Transposed places of a tile are, fractal by fractal.
PlaceInFractal(j, h, w, ms, ks, i, b, x, y) ==
  /\ StridedAt(j, h, w, ms, ks, h * i + x, w * b + y) = Lie(Fractal(j.size), ms, ks, i, b, x * w + y)
  /\ TransposedAt(j, h, w, ms, ks, h * i + x, w * b + y) = Lie(Fractal(j.size), ms, ks, i, b, y * h + x)
LEMMA FractalPlaces ==
    ASSUME NEW j, NEW h \in Positive, NEW w \in Positive, NEW ms \in Nat, NEW ks \in Nat, Fractal(j.size) \in Nat,
           NEW i \in Nat, NEW b \in Nat, NEW x \in 0 .. h - 1, NEW y \in 0 .. w - 1
    PROVE  PlaceInFractal(j, h, w, ms, ks, i, b, x, y)
<1>1. (h * i + x) \div h = i /\ (h * i + x) % h = x /\ (w * b + y) \div w = b /\ (w * b + y) % w = y
  BY ONLY h \in Positive, w \in Positive, i \in Nat, b \in Nat, x \in 0 .. h - 1, y \in 0 .. w - 1, DivModUnique
<1> DEFINE p == (i * ms + b * ks) * Fractal(j.size)  s == x * w  t == y * h  r == h * i + x  c == w * b + y
<1>2. p \in Int /\ s \in Int /\ t \in Int /\ x \in Int /\ y \in Int
  <2> DEFINE F == Fractal(j.size)
  <2>1. F \in Int /\ h \in Int /\ w \in Int
    BY DEF Positive
  <2>. HIDE DEF F
  <2>2. i * ms \in Int /\ b * ks \in Int
    OBVIOUS
  <2>3. (i * ms + b * ks) * F \in Int
    BY <2>1, <2>2
  <2>. QED  BY <2>1, <2>3 DEF F
<1>3. /\ StridedAt(j, h, w, ms, ks, r, c) = ((r \div h) * ms + (c \div w) * ks) * Fractal(j.size) + (r % h) * w + (c % w)
      /\ TransposedAt(j, h, w, ms, ks, r, c) = ((r \div h) * ms + (c \div w) * ks) * Fractal(j.size) + (c % w) * h + (r % h)
  BY DEF StridedAt, TransposedAt
<1>4. StridedAt(j, h, w, ms, ks, r, c) = p + s + y /\ TransposedAt(j, h, w, ms, ks, r, c) = p + t + x
  BY ONLY <1>1, <1>3
<1>5. /\ Lie(Fractal(j.size), ms, ks, i, b, x * w + y) = p + (s + y)
      /\ Lie(Fractal(j.size), ms, ks, i, b, y * h + x) = p + (t + x)
  BY DEF Lie
<1>. HIDE DEF p, s, t, r, c
<1>6. p + s + y = p + (s + y) /\ p + t + x = p + (t + x)
  BY ONLY <1>2
<1>7. StridedAt(j, h, w, ms, ks, r, c) = Lie(Fractal(j.size), ms, ks, i, b, x * w + y)
  BY ONLY <1>4, <1>5, <1>6
<1>8. TransposedAt(j, h, w, ms, ks, r, c) = Lie(Fractal(j.size), ms, ks, i, b, y * h + x)
  BY ONLY <1>4, <1>5, <1>6
<1>. QED  BY ONLY <1>7, <1>8 DEF r, c, PlaceInFractal

\* Fractals kept, and fractals stored transposed, have their elements at places of their own.
LEMMA StridedLies ==
    ASSUME NEW j, NEW h \in Positive, NEW w \in Positive, NEW down \in Nat, NEW across \in Nat,
           NEW ms \in Nat, NEW ks \in Nat, Fractal(j.size) \in Nat, Fractal(j.size) = h * w,
           \A r, c : IterPlace(j, r, c) = StridedAt(j, h, w, ms, ks, r, c)
    PROVE  IterLies(j, h, w, down, across, Fractal(j.size), ms, ks,
                    [x \in 0 .. h - 1 |-> [y \in 0 .. w - 1 |-> x * w + y]])
<1> DEFINE e == [x \in 0 .. h - 1 |-> [y \in 0 .. w - 1 |-> x * w + y]]  F == Fractal(j.size)
<1>2. \A x \in 0 .. h - 1, y \in 0 .. w - 1 : e[x][y] = x * w + y /\ e[x][y] = RowMajorAt(w, x, y)
  BY DEF RowMajorAt
<1>3. h \in Nat /\ w \in Nat /\ F = h * w
  BY DEF Positive
<1>. HIDE DEF e, F
<1>4. ASSUME NEW i \in 0 .. down - 1, NEW b \in 0 .. across - 1, NEW x \in 0 .. h - 1, NEW y \in 0 .. w - 1
      PROVE  IterPlace(j, h * i + x, w * b + y) = Lie(F, ms, ks, i, b, e[x][y])
  <2>1. i \in Nat /\ b \in Nat
    OBVIOUS
  <2>2. StridedAt(j, h, w, ms, ks, h * i + x, w * b + y) = Lie(F, ms, ks, i, b, x * w + y)
    <3>1. /\ StridedAt(j, h, w, ms, ks, h * i + x, w * b + y) = Lie(Fractal(j.size), ms, ks, i, b, x * w + y)
          /\ TransposedAt(j, h, w, ms, ks, h * i + x, w * b + y) = Lie(Fractal(j.size), ms, ks, i, b, y * h + x)
      <4>1. PlaceInFractal(j, h, w, ms, ks, i, b, x, y)
        BY <2>1, FractalPlaces
      <4>. QED  BY ONLY <4>1 DEF PlaceInFractal
    <3>. QED  BY ONLY <3>1 DEF F
  <2>3. e[x][y] = x * w + y
    BY <1>2
  <2>4. IterPlace(j, h * i + x, w * b + y) = StridedAt(j, h, w, ms, ks, h * i + x, w * b + y)
    BY Zenon
  <2>. QED  BY ONLY <2>2, <2>3, <2>4
<1>5. ASSUME NEW x \in 0 .. h - 1, NEW y \in 0 .. w - 1 PROVE e[x][y] \in 0 .. F - 1
  <2>1. RowMajorAt(w, x, y) \in 0 .. h * w - 1
    BY ONLY <1>3, x \in 0 .. h - 1, y \in 0 .. w - 1, RowMajorRange
  <2>. QED  BY ONLY <1>2, <1>3, <2>1, x \in 0 .. h - 1, y \in 0 .. w - 1
<1>6. Distinct(e, h, w)
  <2>. SUFFICES ASSUME NEW x1 \in 0 .. h - 1, NEW x2 \in 0 .. h - 1, NEW y1 \in 0 .. w - 1, NEW y2 \in 0 .. w - 1,
                       e[x1][y1] = e[x2][y2]
                PROVE  x1 = x2 /\ y1 = y2
    BY DEF Distinct
  <2>1. RowMajorAt(w, x1, y1) = RowMajorAt(w, x2, y2)
    BY <1>2
  <2>2. x1 \in Nat /\ x2 \in Nat
    OBVIOUS
  <2>. QED  BY ONLY <1>3, <2>1, <2>2, y1 \in 0 .. w - 1, y2 \in 0 .. w - 1, RowMajorInjective
<1>7. IterLies(j, h, w, down, across, F, ms, ks, e)
  BY ONLY <1>4, <1>5, <1>6 DEF IterLies
<1>. QED  BY ONLY <1>7 DEF e, F

LEMMA TransposedLies ==
    ASSUME NEW j, NEW h \in Positive, NEW w \in Positive, NEW down \in Nat, NEW across \in Nat,
           NEW ms \in Nat, NEW ks \in Nat, Fractal(j.size) \in Nat, Fractal(j.size) = h * w,
           \A r, c : IterPlace(j, r, c) = TransposedAt(j, h, w, ms, ks, r, c)
    PROVE  IterLies(j, h, w, down, across, Fractal(j.size), ms, ks,
                    [x \in 0 .. h - 1 |-> [y \in 0 .. w - 1 |-> y * h + x]])
<1> DEFINE e == [x \in 0 .. h - 1 |-> [y \in 0 .. w - 1 |-> y * h + x]]  F == Fractal(j.size)
<1>2. \A x \in 0 .. h - 1, y \in 0 .. w - 1 : e[x][y] = y * h + x /\ e[x][y] = RowMajorAt(h, y, x)
  BY DEF RowMajorAt
<1>3. h \in Nat /\ w \in Nat /\ F = w * h
  BY DEF Positive
<1>. HIDE DEF e, F
<1>4. ASSUME NEW i \in 0 .. down - 1, NEW b \in 0 .. across - 1, NEW x \in 0 .. h - 1, NEW y \in 0 .. w - 1
      PROVE  IterPlace(j, h * i + x, w * b + y) = Lie(F, ms, ks, i, b, e[x][y])
  <2>1. i \in Nat /\ b \in Nat
    OBVIOUS
  <2>2. TransposedAt(j, h, w, ms, ks, h * i + x, w * b + y) = Lie(F, ms, ks, i, b, y * h + x)
    <3>1. /\ StridedAt(j, h, w, ms, ks, h * i + x, w * b + y) = Lie(Fractal(j.size), ms, ks, i, b, x * w + y)
          /\ TransposedAt(j, h, w, ms, ks, h * i + x, w * b + y) = Lie(Fractal(j.size), ms, ks, i, b, y * h + x)
      <4>1. PlaceInFractal(j, h, w, ms, ks, i, b, x, y)
        BY <2>1, FractalPlaces
      <4>. QED  BY ONLY <4>1 DEF PlaceInFractal
    <3>. QED  BY ONLY <3>1 DEF F
  <2>3. e[x][y] = y * h + x
    BY <1>2
  <2>4. IterPlace(j, h * i + x, w * b + y) = TransposedAt(j, h, w, ms, ks, h * i + x, w * b + y)
    BY Zenon
  <2>. QED  BY ONLY <2>2, <2>3, <2>4
<1>5. ASSUME NEW x \in 0 .. h - 1, NEW y \in 0 .. w - 1 PROVE e[x][y] \in 0 .. F - 1
  <2>1. RowMajorAt(h, y, x) \in 0 .. w * h - 1
    BY ONLY <1>3, x \in 0 .. h - 1, y \in 0 .. w - 1, RowMajorRange
  <2>. QED  BY ONLY <1>2, <1>3, <2>1, x \in 0 .. h - 1, y \in 0 .. w - 1
<1>6. Distinct(e, h, w)
  <2>. SUFFICES ASSUME NEW x1 \in 0 .. h - 1, NEW x2 \in 0 .. h - 1, NEW y1 \in 0 .. w - 1, NEW y2 \in 0 .. w - 1,
                       e[x1][y1] = e[x2][y2]
                PROVE  x1 = x2 /\ y1 = y2
    BY DEF Distinct
  <2>1. RowMajorAt(h, y1, x1) = RowMajorAt(h, y2, x2)
    BY <1>2
  <2>2. y1 \in Nat /\ y2 \in Nat
    OBVIOUS
  <2>. QED  BY ONLY <1>3, <2>1, <2>2, x1 \in 0 .. h - 1, x2 \in 0 .. h - 1, RowMajorInjective
<1>7. IterLies(j, h, w, down, across, F, ms, ks, e)
  BY ONLY <1>4, <1>5, <1>6 DEF IterLies
<1>. QED  BY ONLY <1>7 DEF e, F

\* A row of fractals loaded, element by element.
LEMMA LieSum ==
    ASSUME NEW F \in Int, NEW m \in Int, NEW k \in Int, NEW i \in Int, NEW b \in Int, NEW e \in Int
    PROVE  i * m * F + b * k * F + e = Lie(F, m, k, i, b, e)
<1> DEFINE p == i * m  q == b * k
<1>1. p \in Int /\ q \in Int
  OBVIOUS
<1>2. Lie(F, m, k, i, b, e) = (p + q) * F + e
  BY DEF Lie
<1>. HIDE DEF p, q
<1>3. (p + q) * F + e = p * F + q * F + e
  BY <1>1
<1>. QED  BY <1>2, <1>3 DEF p, q

FractalRow(moves, F, md, kd, ms, ks, i, n) ==
  moves = {<<Lie(F, md, kd, i, b, e), Lie(F, ms, ks, i, b, e)>> : b \in 0 .. n - 1, e \in 0 .. F - 1}
LEMMA Load2DRow ==
    ASSUME NEW F \in Nat, NEW md \in Nat, NEW kd \in Nat, NEW ms \in Nat, NEW ks \in Nat, NEW i \in Nat, NEW n \in Nat
    PROVE  FractalRow(Load2D(i * md * F, i * ms * F, n, ks, kd - 1, F), F, md, kd, ms, ks, i, n)
<1> DEFINE At(b, e) == <<i * md * F + b * (kd - 1 + 1) * F + e, i * ms * F + b * ks * F + e>>
           Cell(b, e) == <<Lie(F, md, kd, i, b, e), Lie(F, ms, ks, i, b, e)>>
           row == Load2D(i * md * F, i * ms * F, n, ks, kd - 1, F)
           cells == {At(b, e) : b \in 0 .. n - 1, e \in 0 .. F - 1}
<1>1. row = cells
  BY DEF Load2D
<1>2. ASSUME NEW b \in 0 .. n - 1, NEW e \in 0 .. F - 1 PROVE At(b, e) = Cell(b, e)
  <2>1. kd - 1 + 1 = kd
    OBVIOUS
  <2>2. b \in Int /\ e \in Int /\ F \in Int /\ md \in Int /\ kd \in Int /\ ms \in Int /\ ks \in Int /\ i \in Int
    OBVIOUS
  <2>3. i * md * F + b * kd * F + e = Lie(F, md, kd, i, b, e)
    BY ONLY <2>2, LieSum
  <2>4. i * ms * F + b * ks * F + e = Lie(F, ms, ks, i, b, e)
    BY ONLY <2>2, LieSum
  <2>5. At(b, e) = <<i * md * F + b * kd * F + e, i * ms * F + b * ks * F + e>>
    BY ONLY <2>1
  <2>. QED  BY ONLY <2>3, <2>4, <2>5
<1>3. FractalRow(cells, F, md, kd, ms, ks, i, n)
  <2>1. {Cell(b, e) : b \in 0 .. n - 1, e \in 0 .. F - 1}
          = {<<Lie(F, md, kd, i, b, e), Lie(F, ms, ks, i, b, e)>> : b \in 0 .. n - 1, e \in 0 .. F - 1}
    OBVIOUS
  <2>. HIDE DEF At, Cell
  <2>2. {At(b, e) : b \in 0 .. n - 1, e \in 0 .. F - 1} = {Cell(b, e) : b \in 0 .. n - 1, e \in 0 .. F - 1}
    BY ONLY <1>2
  <2>. QED  BY ONLY <2>1, <2>2 DEF FractalRow, cells
<1>. HIDE DEF row, cells
<1>4. FractalRow(row, F, md, kd, ms, ks, i, n)
  BY ONLY <1>1, <1>3
<1>. QED  BY ONLY <1>4 DEF row

TurnedRow(moves, F, md, kd, ms, ks, i, n) ==
  moves = {<<Lie(F, md, kd, i, b, c * Cube + r), Lie(F, ms, ks, i, b, r * Cube + c)>> :
             b \in 0 .. n - 1, r \in 0 .. Cube - 1, c \in 0 .. Cube - 1}
LEMMA TransposedRow ==
    ASSUME Cube \in Nat, NEW F \in Nat, F = Cube * Cube, NEW md \in Nat, NEW kd \in Nat, NEW ms \in Nat, NEW ks \in Nat,
           NEW i \in Nat, NEW n \in Nat
    PROVE  TurnedRow(Load2DTransposed(i * md * F, i * ms * F, n, ks, kd - 1), F, md, kd, ms, ks, i, n)
<1> DEFINE At(b, r, c) == <<i * md * F + b * (kd - 1 + 1) * Cube * Cube + c * Cube + r,
                            i * ms * F + b * ks * Cube * Cube + r * Cube + c>>
           Cell(b, r, c) == <<Lie(F, md, kd, i, b, c * Cube + r), Lie(F, ms, ks, i, b, r * Cube + c)>>
<1>1. Load2DTransposed(i * md * F, i * ms * F, n, ks, kd - 1)
        = {At(b, r, c) : b \in 0 .. n - 1, r \in 0 .. Cube - 1, c \in 0 .. Cube - 1}
  BY DEF Load2DTransposed
<1>2. ASSUME NEW b \in 0 .. n - 1, NEW r \in 0 .. Cube - 1, NEW c \in 0 .. Cube - 1 PROVE At(b, r, c) = Cell(b, r, c)
  <2>1. kd - 1 + 1 = kd
    OBVIOUS
  <2> DEFINE u == c * Cube  v == r * Cube  p == i * md * F  q == i * ms * F  x == b * kd  y == b * ks
             s == x * Cube * Cube  t == y * Cube * Cube
  <2>2. /\ b \in Int /\ r \in Int /\ c \in Int /\ F \in Int /\ md \in Int /\ kd \in Int /\ ms \in Int /\ ks \in Int /\ i \in Int
        /\ Cube \in Int
    OBVIOUS
  <2>3. u \in Int /\ v \in Int /\ x \in Int /\ y \in Int
    BY ONLY <2>2
  <2>4. p \in Int /\ q \in Int
    <3> DEFINE a == i * md  d == i * ms
    <3>1. a \in Int /\ d \in Int
      BY ONLY <2>2
    <3>. HIDE DEF a, d
    <3>2. a * F \in Int /\ d * F \in Int
      BY ONLY <2>2, <3>1
    <3>. QED  BY ONLY <3>2 DEF a, d
  <2>5. u + r \in Int /\ v + c \in Int
    BY ONLY <2>2, <2>3
  <2>6. p + x * F + (u + r) = Lie(F, md, kd, i, b, u + r)
    BY ONLY <2>2, <2>5, LieSum
  <2>7. q + y * F + (v + c) = Lie(F, ms, ks, i, b, v + c)
    BY ONLY <2>2, <2>5, LieSum
  <2>8. s = x * F /\ t = y * F /\ s \in Int /\ t \in Int
    <3>. HIDE DEF x, y
    <3>1. x * Cube * Cube = x * (Cube * Cube) /\ y * Cube * Cube = y * (Cube * Cube)
          /\ x * Cube * Cube \in Int /\ y * Cube * Cube \in Int
      BY ONLY <2>2, <2>3
    <3>. QED  BY ONLY <3>1, F = Cube * Cube
  <2>9. At(b, r, c) = <<p + s + u + r, q + t + v + c>>
    BY ONLY <2>1
  <2>10. Cell(b, r, c) = <<Lie(F, md, kd, i, b, u + r), Lie(F, ms, ks, i, b, v + c)>>
    OBVIOUS
  <2>. HIDE DEF u, v, p, q, x, y, s, t, At, Cell
  <2>11. p + s + u + r = p + s + (u + r) /\ q + t + v + c = q + t + (v + c)
    BY ONLY <2>2, <2>3, <2>4, <2>8
  <2>. QED  BY ONLY <2>6, <2>7, <2>8, <2>9, <2>10, <2>11
<1>3. {Cell(b, r, c) : b \in 0 .. n - 1, r \in 0 .. Cube - 1, c \in 0 .. Cube - 1}
        = {<<Lie(F, md, kd, i, b, c * Cube + r), Lie(F, ms, ks, i, b, r * Cube + c)>> :
             b \in 0 .. n - 1, r \in 0 .. Cube - 1, c \in 0 .. Cube - 1}
  OBVIOUS
<1>. HIDE DEF At, Cell
<1>4. {At(b, r, c) : b \in 0 .. n - 1, r \in 0 .. Cube - 1, c \in 0 .. Cube - 1}
        = {Cell(b, r, c) : b \in 0 .. n - 1, r \in 0 .. Cube - 1, c \in 0 .. Cube - 1}
  BY ONLY <1>2
<1>. QED  BY ONLY <1>1, <1>3, <1>4 DEF TurnedRow

\* A tile's edge in fractals.
LEMMA Edge == ASSUME NEW n \in Nat, NEW b \in Positive, n % b = 0 PROVE n \div b \in Nat /\ n = (n \div b) * b
<1> DEFINE q == n \div b
<1>1. q \in Nat /\ n = b * q /\ b \in Nat
  BY DivMod, CeilOfMultiple DEF Positive
<1>. HIDE DEF q
<1>2. n = q * b
  BY <1>1
<1>. QED  BY <1>1, <1>2 DEF q

\* Fractals kept as they are.
LEMMA IterA == ASSUME NEW j, IterLegal(j), j.op = "l1_to_l0_a" PROVE IterRight(j)
<1>1. /\ IterNumbers(j) /\ j.rows % Cube = 0 /\ j.cols % IterC0(j) = 0 /\ j.kDst > 0
      /\ FractalsApart(j.rows \div Cube, j.cols \div IterC0(j), j.mDst, j.kDst)
  BY IterFacts DEF IterLegal
<1> DEFINE h == Cube  w == IterC0(j)  down == j.rows \div h  across == j.cols \div w  F == Fractal(j.size)
           md == j.mDst  kd == j.kDst  ms == j.mSrc  ks == j.kSrc
           row(i) == Load2D(i * md * F, i * ms * F, across, ks, kd - 1, F)
           e == [x \in 0 .. h - 1 |-> [y \in 0 .. w - 1 |-> x * w + y]]
<1>2. /\ h \in Positive /\ w \in Positive /\ F = h * w /\ F \in Nat /\ h \in Nat /\ w \in Nat
      /\ md \in Nat /\ kd \in Nat /\ ms \in Nat /\ ks \in Nat
  BY <1>1 DEF IterNumbers, Positive
<1>3. down \in Nat /\ j.rows = down * h /\ across \in Nat /\ j.cols = across * w
  BY <1>1, Edge DEF IterNumbers
<1>4. Iterate(j) = UNION {row(i) : i \in 0 .. down - 1}
  BY DEF Iterate, l1_to_l0_a
<1>5. \A i \in 0 .. down - 1 : FractalRow(row(i), F, md, kd, ms, ks, i, across)
  <2>. SUFFICES ASSUME NEW i \in 0 .. down - 1 PROVE FractalRow(row(i), F, md, kd, ms, ks, i, across)
    OBVIOUS
  <2>1. i \in Nat
    OBVIOUS
  <2>. HIDE DEF F, md, kd, ms, ks, across
  <2>. QED  BY ONLY <1>2, <1>3, <2>1, Load2DRow
<1>6. \A r, c : IterPlace(j, r, c) = StridedAt(j, h, w, md, kd, r, c) /\ IterSource(j, r, c) = StridedAt(j, h, w, ms, ks, r, c)
  BY DEF IterPlace, IterSource
<1>7. \A i \in 0 .. down - 1, b \in 0 .. across - 1, x \in 0 .. h - 1, y \in 0 .. w - 1 :
        IterMove(j, h * i + x, w * b + y) = <<Lie(F, md, kd, i, b, w * x + y), Lie(F, ms, ks, i, b, w * x + y)>>
  <2>. SUFFICES ASSUME NEW i \in 0 .. down - 1, NEW b \in 0 .. across - 1, NEW x \in 0 .. h - 1, NEW y \in 0 .. w - 1
                PROVE  IterMove(j, h * i + x, w * b + y) = <<Lie(F, md, kd, i, b, w * x + y), Lie(F, ms, ks, i, b, w * x + y)>>
    OBVIOUS
  <2>1. i \in Nat /\ b \in Nat /\ w * x + y = x * w + y
    BY <1>2
  <2>2. PlaceInFractal(j, h, w, md, kd, i, b, x, y) /\ PlaceInFractal(j, h, w, ms, ks, i, b, x, y)
    BY <1>2, <2>1, FractalPlaces
  <2> DEFINE r == h * i + x  c == w * b + y
  <2>3. /\ StridedAt(j, h, w, md, kd, r, c) = Lie(F, md, kd, i, b, x * w + y)
        /\ StridedAt(j, h, w, ms, ks, r, c) = Lie(F, ms, ks, i, b, x * w + y)
    BY ONLY <2>2 DEF PlaceInFractal, F
  <2>. HIDE DEF r, c, F, md, kd, ms, ks, h, w
  <2>4. IterMove(j, r, c) = <<Lie(F, md, kd, i, b, x * w + y), Lie(F, ms, ks, i, b, x * w + y)>>
    BY ONLY <1>6, <2>3 DEF IterMove
  <2>5. IterMove(j, r, c) = <<Lie(F, md, kd, i, b, w * x + y), Lie(F, ms, ks, i, b, w * x + y)>>
    BY ONLY <2>1, <2>4
  <2>. QED  BY ONLY <2>5 DEF r, c
<1>. HIDE DEF h, w, down, across, F, md, kd, ms, ks, row, e
<1>8. Cut(w, h, F)
  BY ONLY <1>2, CutIndex
<1>9. ASSUME NEW m \in Iterate(j)
      PROVE  \E i \in 0 .. down - 1, b \in 0 .. across - 1, x \in 0 .. h - 1, y \in 0 .. w - 1 :
                m = IterMove(j, h * i + x, w * b + y)
  <2>1. PICK i \in 0 .. down - 1 : m \in row(i)
    BY ONLY <1>4, m \in Iterate(j)
  <2>2. PICK b \in 0 .. across - 1, k \in 0 .. F - 1 : m = <<Lie(F, md, kd, i, b, k), Lie(F, ms, ks, i, b, k)>>
    BY ONLY <1>5, <2>1, i \in 0 .. down - 1 DEF FractalRow
  <2>3. PICK x \in 0 .. h - 1, y \in 0 .. w - 1 : k = w * x + y
    BY ONLY <1>8, k \in 0 .. F - 1 DEF Cut
  <2>4. m = <<Lie(F, md, kd, i, b, w * x + y), Lie(F, ms, ks, i, b, w * x + y)>>
    BY ONLY <2>2, <2>3
  <2>5. m = IterMove(j, h * i + x, w * b + y)
    BY ONLY <1>7, <2>4, i \in 0 .. down - 1, b \in 0 .. across - 1, x \in 0 .. h - 1, y \in 0 .. w - 1
  <2>. QED  BY ONLY <2>5
<1>10. ASSUME NEW i \in 0 .. down - 1, NEW b \in 0 .. across - 1, NEW x \in 0 .. h - 1, NEW y \in 0 .. w - 1
       PROVE  IterMove(j, h * i + x, w * b + y) \in Iterate(j)
  <2> DEFINE k == w * x + y  m == <<Lie(F, md, kd, i, b, k), Lie(F, ms, ks, i, b, k)>>
  <2>1. k \in 0 .. F - 1
    BY ONLY <1>8, x \in 0 .. h - 1, y \in 0 .. w - 1 DEF Cut
  <2>2. IterMove(j, h * i + x, w * b + y) = m
    BY ONLY <1>7, i \in 0 .. down - 1, b \in 0 .. across - 1, x \in 0 .. h - 1, y \in 0 .. w - 1
  <2>. HIDE DEF k
  <2>3. m \in row(i)
    BY ONLY <1>5, <2>1, i \in 0 .. down - 1, b \in 0 .. across - 1 DEF FractalRow
  <2>. HIDE DEF m
  <2>4. m \in Iterate(j)
    BY ONLY <1>4, <2>3, i \in 0 .. down - 1
  <2>. QED  BY ONLY <2>2, <2>4
<1>11. IterFractals(j, h, w, down, across)
  BY ONLY <1>9, <1>10 DEF IterFractals
<1>12. IterLies(j, h, w, down, across, F, md, kd, e)
  <2>1. \A r, c : IterPlace(j, r, c) = StridedAt(j, h, w, md, kd, r, c)
    BY ONLY <1>6
  <2>2. Fractal(j.size) = h * w /\ Fractal(j.size) \in Nat
    BY ONLY <1>2 DEF F
  <2>. QED  BY ONLY <1>2, <1>3, <2>1, <2>2, StridedLies DEF e, F
<1>13. FractalsApart(down, across, md, kd) /\ j.op # "gm_to_l1_ND"
  BY <1>1 DEF down, across, md, kd, h, w
<1>. QED  BY <1>2, <1>3, <1>11, <1>12, <1>13, FractalsRight

\* Square fractals, each of them transposed.
LEMMA IterTurned == ASSUME NEW j, IterLegal(j), j.op \in {"l1_to_l0_a_Transposed", "l1_to_l0_b"} PROVE IterRight(j)
<1>1. IterNumbers(j) /\ j.rows % Cube = 0 /\ j.cols % Cube = 0 /\ j.kDst > 0 /\ IterC0(j) = Cube
      /\ FractalsApart(j.rows \div Cube, j.cols \div Cube, j.mDst, j.kDst)
  <2>1. j.size = 2
    BY DEF IterLegal
  <2>2. IterC0(j) = Cube
    BY <2>1, C0OfHalf DEF IterC0
  <2>. QED  BY <2>2, IterFacts DEF IterLegal
<1> DEFINE h == Cube  down == j.rows \div h  across == j.cols \div h  F == Fractal(j.size)
           md == j.mDst  kd == j.kDst  ms == j.mSrc  ks == j.kSrc
           row(i) == Load2DTransposed(i * md * F, i * ms * F, across, ks, kd - 1)
           e == [x \in 0 .. h - 1 |-> [y \in 0 .. h - 1 |-> x * h + y]]
           f == [x \in 0 .. h - 1 |-> [y \in 0 .. h - 1 |-> y * h + x]]
<1>2. /\ h \in Positive /\ F = h * h /\ F \in Nat /\ h \in Nat
      /\ md \in Nat /\ kd \in Nat /\ ms \in Nat /\ ks \in Nat
  BY <1>1 DEF IterNumbers, Positive
<1>3. down \in Nat /\ j.rows = down * h /\ across \in Nat /\ j.cols = across * h
  BY <1>1, Edge DEF IterNumbers
<1>4. Iterate(j) = UNION {row(i) : i \in 0 .. down - 1}
  BY <1>1 DEF Iterate, l1_to_l0_a_Transposed, l1_to_l0_b
<1>5. \A i \in 0 .. down - 1 : TurnedRow(row(i), F, md, kd, ms, ks, i, across)
  <2>. SUFFICES ASSUME NEW i \in 0 .. down - 1 PROVE TurnedRow(row(i), F, md, kd, ms, ks, i, across)
    OBVIOUS
  <2>1. i \in Nat /\ Cube \in Nat /\ F = Cube * Cube
    BY <1>2
  <2>. HIDE DEF F, md, kd, ms, ks, across
  <2>. QED  BY ONLY <1>2, <1>3, <2>1, TransposedRow
<1> DEFINE kept == j.op = "l1_to_l0_a_Transposed"
           At(i, b, x, y) == <<Lie(F, md, kd, i, b, x * h + y), Lie(F, ms, ks, i, b, y * h + x)>>
<1>6. /\ kept => \A r, c : IterPlace(j, r, c) = StridedAt(j, h, h, md, kd, r, c) /\ IterSource(j, r, c) = TransposedAt(j, h, h, ms, ks, r, c)
      /\ ~kept => \A r, c : IterPlace(j, r, c) = TransposedAt(j, h, h, md, kd, r, c) /\ IterSource(j, r, c) = StridedAt(j, h, h, ms, ks, r, c)
  BY <1>1 DEF IterPlace, IterSource
<1>7. \A i \in 0 .. down - 1, b \in 0 .. across - 1, x \in 0 .. h - 1, y \in 0 .. h - 1 :
        IterMove(j, h * i + x, h * b + y) = IF kept THEN At(i, b, x, y) ELSE At(i, b, y, x)
  <2>. SUFFICES ASSUME NEW i \in 0 .. down - 1, NEW b \in 0 .. across - 1, NEW x \in 0 .. h - 1, NEW y \in 0 .. h - 1
                PROVE  IterMove(j, h * i + x, h * b + y) = IF kept THEN At(i, b, x, y) ELSE At(i, b, y, x)
    OBVIOUS
  <2>1. i \in Nat /\ b \in Nat
    OBVIOUS
  <2>2. PlaceInFractal(j, h, h, md, kd, i, b, x, y) /\ PlaceInFractal(j, h, h, ms, ks, i, b, x, y)
    BY <1>2, <2>1, FractalPlaces
  <2> DEFINE r == h * i + x  c == h * b + y
  <2>3. /\ StridedAt(j, h, h, md, kd, r, c) = Lie(F, md, kd, i, b, x * h + y)
        /\ TransposedAt(j, h, h, md, kd, r, c) = Lie(F, md, kd, i, b, y * h + x)
        /\ StridedAt(j, h, h, ms, ks, r, c) = Lie(F, ms, ks, i, b, x * h + y)
        /\ TransposedAt(j, h, h, ms, ks, r, c) = Lie(F, ms, ks, i, b, y * h + x)
    BY ONLY <2>2 DEF PlaceInFractal, F
  <2>4. /\ At(i, b, x, y) = <<Lie(F, md, kd, i, b, x * h + y), Lie(F, ms, ks, i, b, y * h + x)>>
        /\ At(i, b, y, x) = <<Lie(F, md, kd, i, b, y * h + x), Lie(F, ms, ks, i, b, x * h + y)>>
    OBVIOUS
  <2>. HIDE DEF r, c, F, md, kd, ms, ks, h, kept, At
  <2>5. kept => IterMove(j, r, c) = At(i, b, x, y)
    BY ONLY <1>6, <2>3, <2>4 DEF IterMove
  <2>6. ~kept => IterMove(j, r, c) = At(i, b, y, x)
    BY ONLY <1>6, <2>3, <2>4 DEF IterMove
  <2>. QED  BY ONLY <2>5, <2>6 DEF r, c
<1>8. \A i \in 0 .. down - 1 : row(i) = {At(i, b, x, y) : b \in 0 .. across - 1, y \in 0 .. h - 1, x \in 0 .. h - 1}
  BY ONLY <1>5 DEF TurnedRow
<1>. HIDE DEF h, down, across, F, md, kd, ms, ks, row, e, f, At, kept
<1>9. ASSUME NEW m \in Iterate(j)
      PROVE  \E i \in 0 .. down - 1, b \in 0 .. across - 1, x \in 0 .. h - 1, y \in 0 .. h - 1 :
                m = IterMove(j, h * i + x, h * b + y)
  <2>1. PICK i \in 0 .. down - 1 : m \in row(i)
    BY ONLY <1>4, m \in Iterate(j)
  <2>2. PICK b \in 0 .. across - 1, x \in 0 .. h - 1, y \in 0 .. h - 1 : m = At(i, b, x, y)
    BY ONLY <1>8, <2>1, i \in 0 .. down - 1
  <2>3. kept => m = IterMove(j, h * i + x, h * b + y)
    BY ONLY <1>7, <2>2, i \in 0 .. down - 1, b \in 0 .. across - 1, x \in 0 .. h - 1, y \in 0 .. h - 1
  <2>4. ~kept => m = IterMove(j, h * i + y, h * b + x)
    BY ONLY <1>7, <2>2, i \in 0 .. down - 1, b \in 0 .. across - 1, x \in 0 .. h - 1, y \in 0 .. h - 1
  <2>. QED  BY ONLY <2>3, <2>4
<1>10. ASSUME NEW i \in 0 .. down - 1, NEW b \in 0 .. across - 1, NEW x \in 0 .. h - 1, NEW y \in 0 .. h - 1
       PROVE  IterMove(j, h * i + x, h * b + y) \in Iterate(j)
  <2>1. At(i, b, x, y) \in row(i) /\ At(i, b, y, x) \in row(i)
    BY ONLY <1>8, i \in 0 .. down - 1, b \in 0 .. across - 1, x \in 0 .. h - 1, y \in 0 .. h - 1
  <2>2. IterMove(j, h * i + x, h * b + y) = IF kept THEN At(i, b, x, y) ELSE At(i, b, y, x)
    BY ONLY <1>7, i \in 0 .. down - 1, b \in 0 .. across - 1, x \in 0 .. h - 1, y \in 0 .. h - 1
  <2> DEFINE m == IterMove(j, h * i + x, h * b + y)
  <2>3. m \in row(i)
    BY ONLY <2>1, <2>2
  <2>. HIDE DEF m
  <2>4. m \in Iterate(j)
    BY ONLY <1>4, <2>3, i \in 0 .. down - 1
  <2>. QED  BY ONLY <2>4 DEF m
<1>11. IterFractals(j, h, h, down, across)
  BY ONLY <1>9, <1>10 DEF IterFractals
<1>12. Fractal(j.size) = h * h /\ Fractal(j.size) \in Nat
  BY ONLY <1>2 DEF F
<1>13. kept => IterLies(j, h, h, down, across, F, md, kd, e)
  <2>1. kept => \A r, c : IterPlace(j, r, c) = StridedAt(j, h, h, md, kd, r, c)
    BY ONLY <1>6
  <2>. QED  BY ONLY <1>2, <1>3, <1>12, <2>1, StridedLies DEF e, F
<1>14. ~kept => IterLies(j, h, h, down, across, F, md, kd, f)
  <2>1. ~kept => \A r, c : IterPlace(j, r, c) = TransposedAt(j, h, h, md, kd, r, c)
    BY ONLY <1>6
  <2>. QED  BY ONLY <1>2, <1>3, <1>12, <2>1, TransposedLies DEF f, F
<1>15. FractalsApart(down, across, md, kd) /\ j.op # "gm_to_l1_ND"
  BY <1>1 DEF down, across, md, kd, h
<1>16. PICK g : IterLies(j, h, h, down, across, F, md, kd, g)
  BY ONLY <1>13, <1>14
<1>. QED  BY <1>2, <1>3, <1>11, <1>15, <1>16, FractalsRight

\* A column of fractals, each of them one column of the tile.
LEMMA IterVector == ASSUME NEW j, IterLegal(j), j.op = "l1_to_l0_a_Vector" PROVE IterRight(j)
<1>1. IterNumbers(j) /\ j.rows = Fractal(j.size)
  BY IterFacts DEF IterLegal
<1> DEFINE R == j.rows  C == j.cols  md == j.kDst + 1  ms == j.kSrc
           At(b, e) == <<0 + b * md * R + e, 0 + b * ms * R + e>>
<1>2. R \in Positive /\ R \in Nat /\ C \in Nat /\ md \in Positive /\ md \in Nat /\ ms \in Nat
  BY <1>1 DEF IterNumbers, Positive
<1>3. Iterate(j) = {At(b, e) : b \in 0 .. C - 1, e \in 0 .. R - 1}
  BY <1>1 DEF Iterate, l1_to_l0_a_Vector, Load2D
<1>4. \A r, c : IterPlace(j, r, c) = c * md * R + r /\ IterSource(j, r, c) = c * ms * R + r
  BY <1>1 DEF IterPlace, IterSource
<1>5. ASSUME NEW r \in 0 .. R - 1, NEW c \in 0 .. C - 1 PROVE At(c, r) = IterMove(j, r, c)
  <2> DEFINE p == c * md * R  q == c * ms * R
  <2>1. p \in Int /\ q \in Int /\ r \in Int
    <3>. HIDE DEF md, R, ms
    <3> DEFINE u == c * md  v == c * ms
    <3>1. u \in Int /\ v \in Int
      BY <1>2
    <3>. HIDE DEF u, v
    <3>2. u * R \in Int /\ v * R \in Int
      BY <1>2, <3>1
    <3>. QED  BY <3>2 DEF u, v
  <2>2. At(c, r) = <<0 + p + r, 0 + q + r>> /\ IterMove(j, r, c) = <<p + r, q + r>>
    BY <1>4 DEF IterMove
  <2>. HIDE DEF p, q, At
  <2>3. 0 + p + r = p + r /\ 0 + q + r = q + r
    BY ONLY <2>1
  <2>. QED  BY ONLY <2>2, <2>3
<1>. HIDE DEF At
<1>6. \A x \in Iterate(j) : \E r \in 0 .. R - 1, c \in 0 .. C - 1 : x = IterMove(j, r, c)
  BY ONLY <1>3, <1>5
<1>7. \A r \in 0 .. R - 1, c \in 0 .. C - 1 : IterMove(j, r, c) \in Iterate(j)
  BY ONLY <1>3, <1>5
<1>8. IterBox(j, C)
  BY ONLY <1>6, <1>7 DEF IterBox
<1>9. IterApart(j, C)
  <2>. HIDE DEF md
  <2>. SUFFICES ASSUME NEW r1 \in 0 .. R - 1, NEW r2 \in 0 .. R - 1, NEW c1 \in 0 .. C - 1, NEW c2 \in 0 .. C - 1,
                       IterPlace(j, r1, c1) = IterPlace(j, r2, c2)
                PROVE  r1 = r2 /\ c1 = c2
    BY DEF IterApart
  <2> DEFINE s == md * R
  <2>1. IterPlace(j, r1, c1) = c1 * md * R + r1 /\ IterPlace(j, r2, c2) = c2 * md * R + r2
    BY ONLY <1>4
  <2>. HIDE DEF R, C
  <2>2. c1 * md * R = c1 * s /\ c2 * md * R = c2 * s /\ c1 \in Nat /\ c2 \in Nat /\ s \in Nat /\ R <= s
    <3>1. c1 \in Nat /\ c2 \in Nat
      BY <1>2
    <3>2. 1 \in Nat /\ 1 <= md /\ 1 * R = R
      BY <1>2 DEF Positive
    <3>3. 1 * R <= md * R /\ md * R \in Nat
      BY <1>2, <3>2, MulMonotone
    <3>4. c1 * md * R = c1 * (md * R) /\ c2 * md * R = c2 * (md * R)
      BY ONLY <1>2, <3>1
    <3>. QED  BY <3>1, <3>2, <3>3, <3>4
  <2>. HIDE DEF s
  <2>3. r1 \in 0 .. s - 1 /\ r2 \in 0 .. s - 1
    BY <1>2, <2>2
  <2>4. RowMajorAt(s, c1, r1) = RowMajorAt(s, c2, r2)
    BY ONLY <2>1, <2>2, IterPlace(j, r1, c1) = IterPlace(j, r2, c2) DEF RowMajorAt
  <2>. QED  BY ONLY <2>2, <2>3, <2>4, RowMajorInjective
<1>10. j.op # "gm_to_l1_ND" /\ j.cols <= C /\ C <= j.cols
  BY <1>2
<1>. QED  BY <1>2, <1>8, <1>9, <1>10, BoxRight

\* Column blocks become rows of fractals.
LEMMA IterNZtoZZ == ASSUME NEW j, IterLegal(j), j.op = "l1_to_l0_a_NZ" PROVE IterRight(j)
<1>1. IterNumbers(j) /\ j.rows % Cube = 0 /\ j.cols % IterC0(j) = 0
  BY IterFacts DEF IterLegal
<1> DEFINE R == j.rows  C == j.cols  h == Cube  w == IterC0(j)  down == R \div h  across == C \div w  F == Fractal(j.size)
           At(i, b, e) == <<i * h * C + b * (0 + 1) * F + e, i * F + b * down * F + e>>
<1>2. /\ h \in Positive /\ w \in Positive /\ F = h * w /\ F \in Nat /\ h \in Nat /\ w \in Nat /\ R \in Nat /\ C \in Nat
  BY <1>1 DEF IterNumbers, Positive
<1>3. down \in Nat /\ R = down * h /\ across \in Nat /\ C = across * w
  BY <1>1, Edge DEF IterNumbers
<1>4. Iterate(j) = UNION {{At(i, b, e) : b \in 0 .. across - 1, e \in 0 .. F - 1} : i \in 0 .. down - 1}
  BY DEF Iterate, l1_to_l0_a_NZ, Load2D
<1>5. \A r, c : IterMove(j, r, c) = <<ZzAt(C, w, r, c), NzAt(R, w, r, c)>> /\ IterPlace(j, r, c) = ZzAt(C, w, r, c)
  BY DEF IterMove, IterPlace, IterSource
<1>6. ASSUME NEW i \in 0 .. down - 1, NEW b \in 0 .. across - 1, NEW x \in 0 .. h - 1, NEW y \in 0 .. w - 1
      PROVE  At(i, b, w * x + y) = IterMove(j, h * i + x, w * b + y)
  <2> DEFINE r == h * i + x  c == w * b + y
  <2>1. i \in Nat /\ b \in Nat /\ x \in Nat /\ y \in Nat
    OBVIOUS
  <2>2. r \div h = i /\ r % h = x /\ c \div w = b /\ c % w = y
    <3>1. h \in Positive /\ w \in Positive
      BY <1>2
    <3>. HIDE DEF h, w
    <3>2. (h * i + x) \div h = i /\ (h * i + x) % h = x
      BY ONLY <2>1, <3>1, x \in 0 .. h - 1, DivModUnique
    <3>3. (w * b + y) \div w = b /\ (w * b + y) % w = y
      BY ONLY <2>1, <3>1, y \in 0 .. w - 1, DivModUnique
    <3>. QED  BY ONLY <3>2, <3>3 DEF r, c
  <2>3. ZzAt(C, w, r, c) = (r \div h) * h * C + (c \div w) * h * w + (r % h) * w + (c % w)
    BY DEF ZzAt
  <2>4. NzAt(R, w, r, c) = (c \div w) * R * w + r * w + (c % w)
    BY DEF NzAt
  <2>5. ZzAt(C, w, r, c) = i * h * C + b * h * w + x * w + y /\ NzAt(R, w, r, c) = b * R * w + r * w + y
    BY ONLY <2>2, <2>3, <2>4
  <2> DEFINE p == i * h * C  q == b * F  s == x * w  u == b * down * F  v == i * F
  <2>6. s \in Int /\ q \in Int /\ p \in Int /\ u \in Int /\ v \in Int
    <3>. HIDE DEF h, w, C, F, down
    <3> DEFINE k == i * h  n == b * down
    <3>1. k \in Int /\ n \in Int /\ s \in Int /\ q \in Int /\ v \in Int
      BY <1>2, <1>3, <2>1
    <3>. HIDE DEF k, n
    <3>2. k * C \in Int /\ n * F \in Int
      BY <1>2, <3>1
    <3>. QED  BY <3>1, <3>2 DEF k, n
  <2>7. b * h * w = q /\ w * x = s /\ b * (0 + 1) * F = q
    <3>. HIDE DEF h, w, F
    <3>1. b * h * w = b * (h * w) /\ w * x = x * w
      BY <1>2, <2>1
    <3>2. b * (0 + 1) * F = b * F
      BY <2>1
    <3>. QED  BY <1>2, <3>1, <3>2
  <2>8. b * R * w = u /\ r * w = v + s
    <3>. HIDE DEF h, w, F, R, down
    <3>1. b * (down * h) * w = b * down * (h * w)
      BY ONLY <1>2, <1>3, <2>1
    <3>2. r * w = i * (h * w) + x * w
      BY ONLY <1>2, <2>1 DEF r
    <3>. QED  BY ONLY <1>2, <1>3, <3>1, <3>2
  <2>9. At(i, b, w * x + y) = <<p + b * (0 + 1) * F + (w * x + y), v + u + (w * x + y)>>
    OBVIOUS
  <2>. HIDE DEF p, q, s, u, v, r, c, h, w, F, R, C, At
  <2>10. ZzAt(C, w, r, c) = p + q + s + y /\ NzAt(R, w, r, c) = u + (v + s) + y
    BY ONLY <2>5, <2>7, <2>8 DEF p, s
  <2>11. At(i, b, w * x + y) = <<p + q + (s + y), v + u + (s + y)>>
    BY ONLY <2>7, <2>9
  <2>12. p + q + s + y = p + q + (s + y) /\ u + (v + s) + y = v + u + (s + y)
    BY ONLY <2>1, <2>6
  <2>13. IterMove(j, r, c) = At(i, b, w * x + y)
    BY ONLY <1>5, <2>10, <2>11, <2>12
  <2>. QED  BY ONLY <2>13 DEF r, c
<1>. HIDE DEF R, C, h, w, down, across, F, At
<1>7. Cut(w, h, F) /\ Cut(h, down, R) /\ Cut(w, across, C)
  BY ONLY <1>2, <1>3, CutIndex
<1>8. ASSUME NEW m \in Iterate(j) PROVE \E r \in 0 .. R - 1, c \in 0 .. C - 1 : m = IterMove(j, r, c)
  <2>1. PICK i \in 0 .. down - 1, b \in 0 .. across - 1, e \in 0 .. F - 1 : m = At(i, b, e)
    BY ONLY <1>4, m \in Iterate(j)
  <2>2. PICK x \in 0 .. h - 1, y \in 0 .. w - 1 : e = w * x + y
    BY ONLY <1>7, e \in 0 .. F - 1 DEF Cut
  <2> DEFINE r == h * i + x  c == w * b + y
  <2>3. r \in 0 .. R - 1 /\ c \in 0 .. C - 1
    BY ONLY <1>7, i \in 0 .. down - 1, b \in 0 .. across - 1, x \in 0 .. h - 1, y \in 0 .. w - 1 DEF Cut
  <2>4. m = IterMove(j, r, c)
    <3>1. At(i, b, w * x + y) = IterMove(j, h * i + x, w * b + y)
      BY ONLY <1>6, i \in 0 .. down - 1, b \in 0 .. across - 1, x \in 0 .. h - 1, y \in 0 .. w - 1
    <3>. QED  BY ONLY <2>1, <2>2, <3>1
  <2>. HIDE DEF r, c
  <2>. QED  BY ONLY <2>3, <2>4
<1>9. ASSUME NEW r \in 0 .. R - 1, NEW c \in 0 .. C - 1 PROVE IterMove(j, r, c) \in Iterate(j)
  <2>1. PICK i \in 0 .. down - 1, x \in 0 .. h - 1 : r = h * i + x
    BY ONLY <1>7, r \in 0 .. R - 1 DEF Cut
  <2>2. PICK b \in 0 .. across - 1, y \in 0 .. w - 1 : c = w * b + y
    BY ONLY <1>7, c \in 0 .. C - 1 DEF Cut
  <2> DEFINE e == w * x + y
  <2>3. e \in 0 .. F - 1
    BY ONLY <1>7, x \in 0 .. h - 1, y \in 0 .. w - 1 DEF Cut
  <2>4. At(i, b, e) = IterMove(j, h * i + x, w * b + y)
    BY ONLY <1>6, i \in 0 .. down - 1, b \in 0 .. across - 1, x \in 0 .. h - 1, y \in 0 .. w - 1
  <2>. HIDE DEF e
  <2>5. At(i, b, e) \in Iterate(j)
    BY ONLY <1>4, <2>3, i \in 0 .. down - 1, b \in 0 .. across - 1
  <2>. QED  BY ONLY <2>1, <2>2, <2>4, <2>5
<1>10. IterBox(j, C)
  BY ONLY <1>8, <1>9 DEF IterBox, R
<1>11. IterApart(j, C)
  <2>. SUFFICES ASSUME NEW r1 \in 0 .. R - 1, NEW r2 \in 0 .. R - 1, NEW c1 \in 0 .. C - 1, NEW c2 \in 0 .. C - 1,
                       IterPlace(j, r1, c1) = IterPlace(j, r2, c2)
                PROVE  r1 = r2 /\ c1 = c2
    BY DEF IterApart, R
  <2>1. C % w = 0
    BY <1>1 DEF C, w
  <2>2. ZzApart(C, w)
    BY <1>2, <2>1, ZzPlacesApart DEF h
  <2>3. ZzAt(C, w, r1, c1) = ZzAt(C, w, r2, c2)
    BY ONLY <1>5, IterPlace(j, r1, c1) = IterPlace(j, r2, c2)
  <2>4. r1 \in Nat /\ r2 \in Nat
    BY <1>2
  <2>. QED  BY ONLY <2>2, <2>3, <2>4, c1 \in 0 .. C - 1, c2 \in 0 .. C - 1 DEF ZzApart
<1>12. j.op # "gm_to_l1_ND" /\ j.cols <= C /\ C <= j.cols
  BY <1>2 DEF C
<1>. QED  BY <1>2, <1>10, <1>11, <1>12, BoxRight

\* Every place below h * w is that of a cell of column blocks.
LEMMA NzReaches ==
    ASSUME NEW h \in Nat, NEW c0 \in Positive, NEW q \in Nat, NEW k \in 0 .. (q * h) * c0 - 1
    PROVE  \E r \in 0 .. h - 1, c \in 0 .. q * c0 - 1 : k = NzAt(h, c0, r, c)
<1>1. q * h \in Nat /\ q * c0 \in Nat /\ c0 \in Nat
  BY MulMonotone DEF Positive
<1>2. h \in Positive
  <2>. SUFFICES ASSUME h = 0 PROVE FALSE
    BY DEF Positive
  <2>1. q * h = 0
    OBVIOUS
  <2>2. (q * h) * c0 = 0
    BY <1>1, <2>1
  <2>. QED  BY <2>2
<1> DEFINE n == q * h  size == n * c0  wide == q * c0
<1>3. Cut(c0, n, size) /\ Cut(h, q, n) /\ Cut(c0, q, wide)
  <2>1. n \in Nat
    BY <1>1
  <2>2. Cut(h, q, n)
    BY <1>2, CutIndex
  <2>3. Cut(c0, q, wide)
    BY CutIndex
  <2>. HIDE DEF n
  <2>4. Cut(c0, n, size)
    BY <2>1, CutIndex
  <2>. QED  BY <2>2, <2>3, <2>4
<1>4. k \in 0 .. size - 1
  OBVIOUS
<1>. HIDE DEF n, size, wide
<1>5. PICK s \in 0 .. n - 1, x \in 0 .. c0 - 1 : k = c0 * s + x
  BY ONLY <1>3, <1>4 DEF Cut
<1>6. PICK d \in 0 .. q - 1, r \in 0 .. h - 1 : s = h * d + r
  BY ONLY <1>3, <1>5 DEF Cut
<1> DEFINE c == c0 * d + x
<1>7. c \in 0 .. wide - 1
  BY ONLY <1>3, d \in 0 .. q - 1, x \in 0 .. c0 - 1 DEF Cut
<1>8. c \div c0 = d /\ c % c0 = x
  <2>1. d \in Nat
    OBVIOUS
  <2>. QED  BY ONLY <2>1, c0 \in Positive, x \in 0 .. c0 - 1, DivModUnique
<1>. HIDE DEF c
<1>9. NzAt(h, c0, r, c) = d * h * c0 + r * c0 + x
  BY ONLY <1>8 DEF NzAt
<1>10. c0 * (h * d + r) + x = d * h * c0 + r * c0 + x
  BY <1>1
<1>11. k = NzAt(h, c0, r, c)
  BY ONLY <1>5, <1>6, <1>9, <1>10
<1>. QED  BY ONLY <1>7, <1>11, r \in 0 .. h - 1 DEF wide

\* Fractals that lie in the order of L0B.
LEMMA IterZN == ASSUME NEW j, IterLegal(j), j.op = "l1_to_l0_b_Transposed" PROVE IterRight(j)
<1>1. IterNumbers(j) /\ j.rows % IterC0(j) = 0 /\ j.cols % Cube = 0
  BY IterFacts DEF IterLegal
<1> DEFINE R == j.rows  C == j.cols  h == Cube  w == IterC0(j)  q == R \div w  p == C \div h  F == Fractal(j.size)
           n == (R * C) \div F
           At(b, e) == <<0 + b * (0 + 1) * F + e, 0 + b * 1 * F + e>>
<1>2. /\ h \in Positive /\ w \in Positive /\ F = h * w /\ F \in Positive /\ h \in Nat /\ w \in Nat /\ R \in Nat /\ C \in Nat
      /\ F \in Nat
  BY <1>1 DEF IterNumbers, Positive
<1>3. q \in Nat /\ R = q * w /\ p \in Nat /\ C = p * h
  BY <1>1, Edge DEF IterNumbers
<1>4. Iterate(j) = {At(b, e) : b \in 0 .. n - 1, e \in 0 .. F - 1}
  BY DEF Iterate, l1_to_l0_b_Transposed, Load2D
<1>5. \A r, c : /\ IterMove(j, r, c) = <<NzAt(C, w, c, r), NzAt(C, w, c, r)>>
                /\ IterPlace(j, r, c) = NzAt(C, w, c, r)
  BY ZnIsNz DEF IterMove, IterPlace, IterSource
<1>6. ASSUME NEW b \in 0 .. n - 1, NEW e \in 0 .. F - 1 PROVE At(b, e) = <<F * b + e, F * b + e>>
  <2>1. b \in Int /\ e \in Int
    OBVIOUS
  <2>. HIDE DEF F, n
  <2>2. 0 + b * (0 + 1) * F + e = F * b + e /\ 0 + b * 1 * F + e = F * b + e
    BY <1>2, <2>1
  <2>. QED  BY <2>2
<1>7. n \in Nat /\ n * F = (q * C) * w /\ (q * C) * w = C * R
  <2>. HIDE DEF F, h, w, p, q, R, C
  <2>1. R * C = F * (q * p) /\ q * p \in Nat
    <3>1. q * p \in Nat
      BY <1>3, MulMonotone
    <3>2. (q * w) * (p * h) = (h * w) * (q * p)
      BY ONLY <1>2, <1>3
    <3>. QED  BY ONLY <1>2, <1>3, <3>1, <3>2
  <2> DEFINE k == q * p
  <2>. HIDE DEF k
  <2>2. k \in Nat /\ R * C = F * k + 0 /\ 0 \in 0 .. F - 1
    BY <1>2, <2>1 DEF k, Positive
  <2>3. (F * k + 0) \div F = k
    BY ONLY <1>2, <2>2, DivModUnique
  <2>4. n = k
    BY ONLY <2>2, <2>3
  <2>5. k * F = F * k + 0
    BY <1>2, <2>2
  <2>6. (q * C) * w = (q * w) * C /\ R * C = C * R
    BY <1>2, <1>3
  <2>. QED  BY ONLY <1>3, <2>2, <2>4, <2>5, <2>6
<1>. HIDE DEF R, C, h, w, p, q, F, n, At
<1>8. Cut(F, n, (q * C) * w)
  <2> DEFINE size == (q * C) * w
  <2>1. size = n * F
    BY ONLY <1>7
  <2>. HIDE DEF size
  <2>2. Cut(F, n, size)
    BY ONLY <1>2, <1>7, <2>1, CutIndex
  <2>. QED  BY ONLY <2>2 DEF size
<1>9. ASSUME NEW m \in Iterate(j) PROVE \E r \in 0 .. R - 1, c \in 0 .. C - 1 : m = IterMove(j, r, c)
  <2>1. PICK b \in 0 .. n - 1, e \in 0 .. F - 1 : m = At(b, e)
    BY ONLY <1>4, m \in Iterate(j)
  <2> DEFINE k == F * b + e
  <2>2. m = <<k, k>> /\ k \in 0 .. (q * C) * w - 1
    BY ONLY <1>6, <1>8, <2>1, b \in 0 .. n - 1, e \in 0 .. F - 1 DEF Cut
  <2>. HIDE DEF k
  <2>3. PICK c \in 0 .. C - 1, r \in 0 .. q * w - 1 : k = NzAt(C, w, c, r)
    <3>1. C \in Nat /\ w \in Positive /\ q \in Nat /\ k \in 0 .. (q * C) * w - 1
      BY ONLY <1>2, <1>3, <2>2
    <3>. QED  BY ONLY <3>1, NzReaches
  <2>4. r \in 0 .. R - 1 /\ m = IterMove(j, r, c)
    BY ONLY <1>3, <1>5, <2>2, <2>3, r \in 0 .. q * w - 1
  <2>. QED  BY ONLY <2>4, c \in 0 .. C - 1
<1>10. ASSUME NEW r \in 0 .. R - 1, NEW c \in 0 .. C - 1 PROVE IterMove(j, r, c) \in Iterate(j)
  <2> DEFINE k == NzAt(C, w, c, r)
  <2>1. R % w = 0
    BY <1>1 DEF R, w
  <2>2. k \in 0 .. C * R - 1
    BY ONLY <1>2, <2>1, c \in 0 .. C - 1, r \in 0 .. R - 1, NzRange
  <2>3. IterMove(j, r, c) = <<k, k>>
    BY ONLY <1>5
  <2>. HIDE DEF k
  <2>4. k \in 0 .. (q * C) * w - 1
    BY ONLY <1>7, <2>2
  <2>5. PICK b \in 0 .. n - 1, e \in 0 .. F - 1 : k = F * b + e
    BY ONLY <1>8, <2>4 DEF Cut
  <2>6. At(b, e) = <<k, k>>
    BY ONLY <1>6, <2>5, b \in 0 .. n - 1, e \in 0 .. F - 1
  <2>7. At(b, e) \in Iterate(j)
    BY ONLY <1>4, b \in 0 .. n - 1, e \in 0 .. F - 1
  <2>. QED  BY ONLY <2>3, <2>6, <2>7
<1>11. IterBox(j, C)
  BY ONLY <1>9, <1>10 DEF IterBox, R
<1>12. IterApart(j, C)
  <2>. SUFFICES ASSUME NEW r1 \in 0 .. R - 1, NEW r2 \in 0 .. R - 1, NEW c1 \in 0 .. C - 1, NEW c2 \in 0 .. C - 1,
                       IterPlace(j, r1, c1) = IterPlace(j, r2, c2)
                PROVE  r1 = r2 /\ c1 = c2
    BY DEF IterApart, R
  <2>1. NzAt(C, w, c1, r1) = NzAt(C, w, c2, r2)
    BY ONLY <1>5, IterPlace(j, r1, c1) = IterPlace(j, r2, c2)
  <2>2. r1 \in Nat /\ r2 \in Nat
    BY <1>2
  <2>. QED  BY ONLY <1>2, <2>1, <2>2, c1 \in 0 .. C - 1, c2 \in 0 .. C - 1, NzInjective
<1>13. j.op # "gm_to_l1_ND" /\ j.cols <= C /\ C <= j.cols
  BY <1>2 DEF C
<1>. QED  BY <1>2, <1>11, <1>12, <1>13, BoxRight

\* Every copy of the kernels.
LEMMA IterSound == ASSUME NEW j, j.unit = "iterator", IterLegal(j) PROVE Sound(j)
<1>1. j.op \in {"gm_to_l1_ND", "gm_to_l1_NZ", "gm_to_l1_NDtoNZ", "gm_to_l1_NDtoZN", "ub_to_gm_NZ",
                 "l1_to_l0_a_Vector", "l1_to_l0_a", "l1_to_l0_a_Transposed", "l1_to_l0_a_NZ", "l1_to_l0_b",
                 "l1_to_l0_b_Transposed", "l0c_to_gm_ND", "l0c_to_gm_NZ", "l0c_to_l1"}
  BY DEF IterLegal
<1>2. CASE j.op \in {"gm_to_l1_ND", "gm_to_l1_NZ", "ub_to_gm_NZ", "gm_to_l1_NDtoNZ", "gm_to_l1_NDtoZN"}
  <2>1. IterRight(j)
    BY <1>2, IterND, IterNZ, IterNDtoNZ
  <2>. QED  BY <2>1, IterSoundIfRight
<1>3. CASE j.op \in {"l1_to_l0_a_Vector", "l1_to_l0_a", "l1_to_l0_a_Transposed", "l1_to_l0_b"}
  <2>1. IterRight(j)
    BY <1>3, IterVector, IterA, IterTurned
  <2>. QED  BY <2>1, IterSoundIfRight
<1>4. CASE j.op \in {"l1_to_l0_a_NZ", "l1_to_l0_b_Transposed"}
  <2>1. IterRight(j)
    BY <1>4, IterNZtoZZ, IterZN
  <2>. QED  BY <2>1, IterSoundIfRight
<1>5. CASE j.op \in {"l0c_to_gm_ND", "l0c_to_gm_NZ", "l0c_to_l1"}
  <2>1. IterRight(j)
    BY <1>5, IterOutND, IterOutNZ, IterL0cToL1
  <2>. QED  BY <2>1, IterSoundIfRight
<1>. QED  BY <1>1, <1>2, <1>3, <1>4, <1>5

-----------------------------------------------------------------------------
(* Attention: copies of rows.                                              *)
(* Rows of elements copied with a pitch and a stride of their own; what such a copy brings.          *)
Rows(n, w, pitch, stride, src) ==
  {<<b * pitch + e, src + b * stride + e>> : b \in 0 .. n - 1, e \in 0 .. w - 1}
RowsCopied(moves, n, pitch, stride, src, len) ==
  /\ Clean(moves)
  /\ \A r \in 0 .. n - 1, e \in 0 .. len - 1 : <<r * pitch + e, src + r * stride + e>> \in moves

\* Rows no longer than their pitch do not overlap.
LEMMA RowsAreCopied ==
    ASSUME NEW n \in Nat, NEW w \in Nat, NEW pitch \in Nat, w <= pitch, NEW stride, NEW src, NEW len \in Nat, len <= w
    PROVE  RowsCopied(Rows(n, w, pitch, stride, src), n, pitch, stride, src, len)
<1> DEFINE moves == Rows(n, w, pitch, stride, src)
           At(b, e) == <<b * pitch + e, src + b * stride + e>>
           f == [b \in 0 .. n - 1 |-> [e \in 0 .. w - 1 |-> b * pitch + e]]
           g == [b \in 0 .. n - 1 |-> [e \in 0 .. w - 1 |-> src + b * stride + e]]
<1>1. moves = {At(b, e) : b \in 0 .. n - 1, e \in 0 .. w - 1}
  BY DEF Rows
<1>2. \A b \in 0 .. n - 1, e \in 0 .. w - 1 : At(b, e) = <<f[b][e], g[b][e]>>
  OBVIOUS
<1>3. \A b \in 0 .. n - 1, e \in 0 .. w - 1 : f[b][e] = RowMajorAt(pitch, b, e)
  BY DEF RowMajorAt
<1>4. \A r \in 0 .. n - 1, e \in 0 .. len - 1 : e \in 0 .. w - 1 /\ At(r, e) = <<r * pitch + e, src + r * stride + e>>
  OBVIOUS
<1>. HIDE DEF f, g, At, moves
<1>5. Tabled(moves, n, w, f, g)
  BY ONLY <1>1, <1>2 DEF Tabled
<1>6. Distinct(f, n, w)
  <2>. SUFFICES ASSUME NEW r1 \in 0 .. n - 1, NEW r2 \in 0 .. n - 1, NEW c1 \in 0 .. w - 1, NEW c2 \in 0 .. w - 1,
                       f[r1][c1] = f[r2][c2]
                PROVE  r1 = r2 /\ c1 = c2
    BY DEF Distinct
  <2>1. RowMajorAt(pitch, r1, c1) = RowMajorAt(pitch, r2, c2)
    BY <1>3
  <2>2. r1 \in Nat /\ r2 \in Nat /\ c1 \in 0 .. pitch - 1 /\ c2 \in 0 .. pitch - 1
    OBVIOUS
  <2>. QED  BY ONLY <2>1, <2>2, pitch \in Nat, RowMajorInjective
<1>7. Clean(moves)
  BY <1>5, <1>6, TableClean
<1>8. ASSUME NEW r \in 0 .. n - 1, NEW e \in 0 .. len - 1
      PROVE  <<r * pitch + e, src + r * stride + e>> \in moves
  <2>1. e \in 0 .. w - 1 /\ At(r, e) = <<r * pitch + e, src + r * stride + e>>
    BY ONLY <1>4, r \in 0 .. n - 1, e \in 0 .. len - 1
  <2>2. At(r, e) \in moves
    BY ONLY <1>1, <2>1, r \in 0 .. n - 1
  <2>. QED  BY ONLY <2>1, <2>2
<1>. QED  BY ONLY <1>7, <1>8 DEF RowsCopied, moves

\* Bursts of blocks, and of elements, are rows.
LEMMA BurstsAreRows ==
    ASSUME NEW n \in Nat, NEW len \in Nat, NEW srcGap \in Int, NEW dstGap \in Nat, NEW src \in Int, NEW c0 \in Positive,
           NEW pitch, NEW stride, pitch = (len + dstGap) * c0, stride = (len + srcGap) * c0,
           NEW L \in Nat, L <= len * c0
    PROVE  RowsCopied(Bursts(0, src, n, len, srcGap, dstGap, c0), n, pitch, stride, src, L)
<1> DEFINE At(b, e) == <<0 + b * (len + dstGap) * c0 + e, src + b * (len + srcGap) * c0 + e>>
           Cell(b, e) == <<b * pitch + e, src + b * stride + e>>
           w == len * c0
<1>1. Bursts(0, src, n, len, srcGap, dstGap, c0) = {At(b, e) : b \in 0 .. n - 1, e \in 0 .. w - 1}
  BY DEF Bursts
<1>2. Rows(n, w, pitch, stride, src) = {Cell(b, e) : b \in 0 .. n - 1, e \in 0 .. w - 1}
  BY DEF Rows
<1>3. w \in Nat /\ pitch \in Nat /\ w <= pitch /\ c0 \in Nat
  <2>1. c0 \in Nat /\ len + dstGap \in Nat /\ len <= len + dstGap
    BY DEF Positive
  <2>2. len * c0 <= (len + dstGap) * c0 /\ (len + dstGap) * c0 \in Nat /\ len * c0 \in Nat
    BY <2>1, MulMonotone
  <2>. QED  BY <2>1, <2>2
<1>4. ASSUME NEW b \in 0 .. n - 1, NEW e \in 0 .. w - 1 PROVE At(b, e) = Cell(b, e)
  <2> DEFINE x == len + dstGap  y == len + srcGap
  <2>1. b \in Int /\ e \in Int /\ c0 \in Int /\ x \in Int /\ y \in Int /\ stride = y * c0 /\ pitch = x * c0
    BY <1>3
  <2>2. At(b, e) = <<0 + b * x * c0 + e, src + b * y * c0 + e>>
    OBVIOUS
  <2>. HIDE DEF x, y, At
  <2>3. b * x * c0 = b * (x * c0) /\ b * y * c0 = b * (y * c0) /\ b * (x * c0) \in Int
    BY ONLY <2>1
  <2>4. 0 + b * (x * c0) + e = b * (x * c0) + e
    BY ONLY <2>1, <2>3
  <2>5. At(b, e) = <<b * pitch + e, src + b * stride + e>>
    BY ONLY <2>1, <2>2, <2>3, <2>4
  <2>. QED  BY ONLY <2>5
<1>5. RowsCopied(Rows(n, w, pitch, stride, src), n, pitch, stride, src, L)
  <2>1. L <= w
    OBVIOUS
  <2>. HIDE DEF w
  <2>. QED  BY <1>3, <2>1, RowsAreCopied
<1>. HIDE DEF At, Cell, w
<1>6. Bursts(0, src, n, len, srcGap, dstGap, c0) = Rows(n, w, pitch, stride, src)
  BY ONLY <1>1, <1>2, <1>4
<1>. QED  BY ONLY <1>5, <1>6

LEMMA PadBurstsAreRows ==
    ASSUME NEW n \in Nat, NEW len \in Nat, NEW padding \in Nat, NEW srcGap \in Int, NEW dstGap \in Nat, NEW src \in Int,
           NEW c0 \in Positive,
           NEW pitch, NEW stride, pitch = (CeilDiv(len + padding, c0) + dstGap) * c0, stride = len + srcGap
    PROVE  RowsCopied(PadBursts(src, n, len, padding, srcGap, dstGap, c0), n, pitch, stride, src, len)
<1> DEFINE q == CeilDiv(len + padding, c0)
           At(b, e) == <<b * (q + dstGap) * c0 + e, src + b * (len + srcGap) + e>>
           Cell(b, e) == <<b * pitch + e, src + b * stride + e>>
<1>1. PadBursts(src, n, len, padding, srcGap, dstGap, c0) = {At(b, e) : b \in 0 .. n - 1, e \in 0 .. len - 1}
  BY DEF PadBursts
<1>2. Rows(n, len, pitch, stride, src) = {Cell(b, e) : b \in 0 .. n - 1, e \in 0 .. len - 1}
  BY DEF Rows
<1>3. q \in Nat /\ len <= q * c0 /\ c0 \in Nat /\ pitch = (q + dstGap) * c0
  <2>1. len + padding \in Nat /\ c0 \in Nat
    BY DEF Positive
  <2>2. q \in Nat /\ len + padding <= CeilAlign(len + padding, c0)
    BY ONLY <2>1, c0 \in Positive, CeilFacts
  <2>3. CeilAlign(len + padding, c0) = q * c0
    BY DEF CeilAlign
  <2>. HIDE DEF q
  <2>4. q * c0 \in Nat
    BY <2>1, <2>2, MulMonotone
  <2>5. len <= q * c0
    BY <2>2, <2>3, <2>4
  <2>. QED  BY <2>1, <2>2, <2>5 DEF q
<1>. HIDE DEF q
<1>4. pitch \in Nat /\ len <= pitch
  <2>1. q + dstGap \in Nat /\ q <= q + dstGap
    BY <1>3
  <2>2. q * c0 <= (q + dstGap) * c0 /\ (q + dstGap) * c0 \in Nat /\ q * c0 \in Nat
    BY <1>3, <2>1, MulMonotone
  <2>. QED  BY <1>3, <2>2
<1>5. ASSUME NEW b \in 0 .. n - 1, NEW e \in 0 .. len - 1 PROVE At(b, e) = Cell(b, e)
  <2> DEFINE x == q + dstGap
  <2>1. b \in Int /\ x \in Int /\ c0 \in Int
    BY <1>3
  <2>. HIDE DEF x
  <2>2. b * x * c0 = b * (x * c0)
    BY ONLY <2>1
  <2>. QED  BY <1>3, <2>2 DEF x
<1>6. RowsCopied(Rows(n, len, pitch, stride, src), n, pitch, stride, src, len)
  <2>1. len <= len
    OBVIOUS
  <2>. QED  BY <1>4, <2>1, RowsAreCopied
<1>. HIDE DEF At, Cell
<1>7. PadBursts(src, n, len, padding, srcGap, dstGap, c0) = Rows(n, len, pitch, stride, src)
  BY ONLY <1>1, <1>2, <1>5
<1>. QED  BY ONLY <1>6, <1>7

\* Rounding up is to the only multiple that is not a whole one too many.
LEMMA CeilUnique ==
    ASSUME NEW a \in Nat, NEW b \in Positive, NEW q \in Nat, a <= b * q, b * q < a + b
    PROVE  CeilDiv(a, b) = q
<1> DEFINE r == a + b - 1 - b * q
<1>1. b \in Nat /\ b * q \in Nat
  BY DEF Positive
<1>2. r \in 0 .. b - 1 /\ a + b - 1 = b * q + r
  <2> DEFINE p == b * q
  <2>. HIDE DEF p
  <2>1. p \in Nat /\ b \in Nat /\ a <= p /\ p < a + b
    BY <1>1 DEF p
  <2>. QED  BY <2>1 DEF p
<1>. HIDE DEF r
<1>3. (b * q + r) \div b = q
  BY <1>2, DivModUnique
<1>. QED  BY <1>2, <1>3 DEF CeilDiv

\* Lengths in elements and in blocks.
ScaledCeil(s, z, c0, a) ==
  /\ CeilDiv(s * z, c0 * z) = CeilDiv(s, c0)
  /\ ((a * c0 - s) * z) \div (c0 * z) = a - CeilDiv(s, c0)
  /\ (a * c0 * z) \div (c0 * z) = a
LEMMA CeilScaled ==
    ASSUME NEW s \in Nat, NEW z \in Positive, NEW c0 \in Positive, NEW a \in Nat, s <= a * c0
    PROVE  ScaledCeil(s, z, c0, a)
<1> DEFINE q == CeilDiv(s, c0)  b == c0 * z  x == c0 * q - s
<1>1. z \in Nat /\ c0 \in Nat /\ 0 < z /\ 0 < c0
  BY DEF Positive
<1>2. q \in Nat /\ s <= c0 * q /\ c0 * q < s + c0
  <2>1. q \in Nat /\ CeilAlign(s, c0) = c0 * q /\ s <= CeilAlign(s, c0) /\ CeilAlign(s, c0) < s + c0
    BY CeilFacts
  <2>. QED  BY <2>1
<1>. HIDE DEF q
<1>3. q <= a
  <2>1. s <= c0 * a
    BY <1>1
  <2>. QED  BY <2>1, CeilLeast DEF q
<1>4. b \in Positive /\ b \in Nat
  <2>1. 0 * z + z <= c0 * z /\ c0 * z \in Nat
    BY <1>1, MulMonotone
  <2>. QED  BY <1>1, <2>1 DEF Positive
<1>5. CeilDiv(s * z, b) = q
  <2>1. s * z \in Nat /\ (c0 * q) * z = b * q
    BY <1>1, <1>2
  <2>2. s * z <= (c0 * q) * z
    BY <1>1, <1>2, MulMonotone
  <2>3. (c0 * q) * z < s * z + b
    <3> DEFINE y == c0 * q
    <3>1. y \in Nat /\ s + c0 \in Nat /\ y < s + c0
      BY <1>1, <1>2
    <3>. HIDE DEF y
    <3>2. y * z + z <= (s + c0) * z /\ y * z \in Nat
      BY <1>1, <3>1, MulMonotone
    <3>3. (s + c0) * z = s * z + b
      BY <1>1
    <3>. QED  BY <1>1, <1>4, <2>1, <3>2, <3>3 DEF y
  <2>. HIDE DEF b
  <2>. QED  BY <1>2, <1>4, <2>1, <2>2, <2>3, CeilUnique
<1>6. ((a * c0 - s) * z) \div b = a - q
  <2>1. x \in 0 .. c0 - 1 /\ a * c0 - s = c0 * (a - q) + x
    <3>1. c0 * q \in Nat /\ c0 * (a - q) = a * c0 - c0 * q /\ a * c0 \in Nat
      BY <1>1, <1>2
    <3> DEFINE p == c0 * q  k == a * c0
    <3>2. p \in Nat /\ k \in Nat /\ c0 * (a - q) = k - p /\ s <= p /\ p < s + c0
      BY <1>2, <3>1
    <3>3. x = p - s
      OBVIOUS
    <3>. HIDE DEF p, k, x
    <3>4. x \in 0 .. c0 - 1 /\ k - s = c0 * (a - q) + x
      BY <1>1, <3>2, <3>3
    <3>. QED  BY <3>4 DEF k
  <2>. HIDE DEF x
  <2>2. x * z \in 0 .. b - 1
    <3>1. x \in Nat /\ x < c0
      BY <1>1, <2>1
    <3>2. x * z + z <= c0 * z /\ x * z \in Nat
      BY <1>1, <3>1, MulMonotone
    <3>. QED  BY <1>1, <1>4, <3>2
  <2>3. a - q \in Nat
    BY <1>2, <1>3
  <2>4. (a * c0 - s) * z = b * (a - q) + x * z
    <3> DEFINE d == a - q
    <3>1. d \in Nat /\ a * c0 - s = c0 * d + x
      BY <2>1, <2>3
    <3>. HIDE DEF d
    <3>2. (c0 * d + x) * z = (c0 * z) * d + x * z
      BY <1>1, <2>1, <3>1
    <3>. QED  BY <3>1, <3>2 DEF d
  <2>. HIDE DEF b
  <2>5. (b * (a - q) + x * z) \div b = a - q
    BY <1>4, <2>2, <2>3, DivModUnique
  <2>. QED  BY <2>4, <2>5
<1>7. (a * c0 * z) \div b = a
  <2>1. a * c0 * z = b * a + 0 /\ 0 \in 0 .. b - 1
    BY <1>1, <1>4 DEF Positive
  <2>. HIDE DEF b
  <2>2. (b * a + 0) \div b = a
    BY <1>4, <2>1, DivModUnique
  <2>. QED  BY <2>1, <2>2
<1>. QED  BY <1>5, <1>6, <1>7 DEF ScaledCeil, q

-----------------------------------------------------------------------------
(* Attention: a block from its rows to its scores.                         *)
\* A factor cancels.
LEMMA Cancel ==
    ASSUME NEW a \in Nat, NEW b \in Nat, NEW z \in Positive, a * z = b * z
    PROVE  a = b
<1>1. z \in Nat /\ z > 0
  BY DEF Positive
<1>2. ~(a < b)
  <2>. SUFFICES ASSUME a < b PROVE FALSE
    OBVIOUS
  <2>1. a * z + z <= b * z /\ a * z \in Nat
    BY <1>1, MulMonotone
  <2>. QED  BY <1>1, <2>1
<1>3. ~(b < a)
  <2>. SUFFICES ASSUME b < a PROVE FALSE
    OBVIOUS
  <2>1. b * z + z <= a * z /\ b * z \in Nat
    BY <1>1, MulMonotone
  <2>. QED  BY <1>1, <2>1
<1>. QED  BY <1>2, <1>3

\* A number that fits its field is kept.
LEMMA FieldKeeps == ASSUME NEW gap \in Nat, gap <= UInt16Max PROVE ParamField(gap) = gap
<1> DEFINE b == UInt16Max + 1
<1>1. b \in Positive /\ b \in Nat /\ gap \in 0 .. b - 1 /\ gap \in Nat
  BY AttentionAssumption DEF Positive
<1>2. ParamField(gap) = gap % b
  BY DEF ParamField
<1>. HIDE DEF b
<1>3. (b * 0 + gap) % b = gap
  BY <1>1, DivModUnique
<1>4. b * 0 + gap = gap
  BY <1>1
<1>. QED  BY <1>2, <1>3, <1>4

\* A copy of rows brings them, blocks or not, if the gap between them fits its field.
LEMMA CommonRows ==
    ASSUME NEW j, NEW c0, c0 = C0(j.size), c0 \in Positive, j.size \in Positive, c0 * j.size = Block,
           NEW off \in Int, NEW n \in Nat, NEW s \in Nat, NEW actual \in Nat, NEW a \in Nat, s <= a * c0,
           s <= actual, SourceGap(j, s, actual) <= UInt16Max
    PROVE  RowsCopied(DataCopyInCommon(j, off, n, s, actual, a * c0), n, a * c0, actual, off, s)
<1> DEFINE z == j.size  q == CeilDiv(s, c0)
           moves == DataCopyInCommon(j, off, n, s, actual, a * c0)
<1>1. c0 \in Nat /\ z \in Nat /\ z \in Positive
  BY DEF Positive
<1>2. q \in Nat /\ s <= q * c0 /\ q <= a
  <2>1. q \in Nat /\ CeilAlign(s, c0) = c0 * q /\ s <= CeilAlign(s, c0)
    BY CeilFacts
  <2>2. s <= c0 * a
    BY <1>1
  <2>3. q <= a
    BY <2>2, CeilLeast
  <2>. HIDE DEF q
  <2>. QED  BY <1>1, <2>1, <2>3
<1>3. CeilDiv(s * z, Block) = q /\ ((a * c0 - s) * z) \div Block = a - q /\ (a * c0 * z) \div Block = a
  <2>1. ScaledCeil(s, z, c0, a)
    BY <1>1, CeilScaled
  <2>. QED  BY <2>1 DEF ScaledCeil
<1>4. CASE (actual * z) % Block = 0
  <2> DEFINE k == (actual * z) \div Block
  <2>1. Block \in Positive /\ actual * z \in Nat
    <3>1. Block \in Positive
      BY FractalAssumption DEF Positive
    <3>. QED  BY <1>1, <3>1
  <2>2. k \in Nat /\ actual * z = Block * k
    BY <1>4, <2>1, CeilOfMultiple, DivMod
  <2>. HIDE DEF k
  <2>3. actual = k * c0
    <3>1. k * c0 \in Nat
      BY <1>1, <2>2
    <3>2. (k * c0) * z = (c0 * z) * k
      BY <1>1, <2>2
    <3>3. actual * z = (k * c0) * z
      BY <2>2, <3>2
    <3>. QED  BY <1>1, <3>1, <3>3, Cancel
  <2>4. (actual * z - q * Block) \div Block = k - q
    <3>1. actual * z - q * Block = Block * (k - q) + 0
      <4>1. Block \in Nat /\ k \in Nat /\ q \in Nat
        BY <1>2, <2>1, <2>2 DEF Positive
      <4>. HIDE DEF q
      <4>2. Block * (k - q) + 0 = Block * k - q * Block
        BY ONLY <4>1
      <4>. QED  BY <2>2, <4>2
    <3>2. k - q \in Int /\ Block \in Int /\ Block > 0
      BY <1>2, <2>1, <2>2 DEF Positive
    <3>3. \A i \in Int, b \in Int : b > 0 => (b * i + 0) \div b = i
      BY SMT
    <3>. HIDE DEF q
    <3>. QED  BY ONLY <3>1, <3>2, <3>3
  <2>7. ParamField(SourceGap(j, s, actual)) = k - q
    <3>1. SourceGap(j, s, actual) = (actual * z - CeilDiv(s * z, Block) * Block) \div Block
      BY <1>4 DEF SourceGap, RowsAreBlocks
    <3>2. SourceGap(j, s, actual) = k - q
      <4>. HIDE DEF q, z
      <4>. QED  BY ONLY <1>3, <2>4, <3>1
    <3>3. q <= k
      <4>1. s <= c0 * k
        <5>1. k * c0 = c0 * k
          BY <1>1, <2>2
        <5>. QED  BY <2>3, <5>1
      <4>. QED  BY <2>2, <4>1, CeilLeast
    <3>4. k - q \in Nat
      BY <1>2, <2>2, <3>3
    <3>. HIDE DEF q, z
    <3>. QED  BY <3>2, <3>4, FieldKeeps
  <2>5. moves = Bursts(0, off, n, q, k - q, a - q, c0)
    <3>1. moves = Bursts(0, off, n, CeilDiv(s * z, Block), ParamField(SourceGap(j, s, actual)),
                         ((a * c0 * z) \div Block) - CeilDiv(s * z, Block), c0)
      BY <1>4 DEF DataCopyInCommon, RowsAreBlocks
    <3>. HIDE DEF moves, q
    <3>. QED  BY ONLY <1>3, <2>7, <3>1
  <2>6. a * c0 = (q + (a - q)) * c0 /\ actual = (q + (k - q)) * c0 /\ k - q \in Int /\ a - q \in Nat
    BY <1>1, <1>2, <2>2, <2>3
  <2>. HIDE DEF q, moves, z
  <2>. QED  BY <1>2, <2>5, <2>6, BurstsAreRows DEF moves
<1>5. CASE (actual * z) % Block # 0
  <2>4. ParamField(SourceGap(j, s, actual)) \div z = actual - s
    <3>1. SourceGap(j, s, actual) = (actual - s) * z
      BY <1>5 DEF SourceGap, RowsAreBlocks
    <3> DEFINE d == actual - s
    <3>2. d \in Nat
      OBVIOUS
    <3>. HIDE DEF d, z
    <3>3. d * z \in Nat
      BY <1>1, <3>2, MulMonotone
    <3>4. ParamField(d * z) = d * z
      BY <3>1, <3>3, FieldKeeps DEF d
    <3>5. (z * d + 0) \div z = d
      <4>1. 0 \in 0 .. z - 1
        BY <1>1 DEF Positive
      <4>. QED  BY <1>1, <3>2, <4>1, DivModUnique
    <3>6. z * d + 0 = d * z
      BY <1>1, <3>2
    <3>. QED  BY <3>1, <3>4, <3>5, <3>6 DEF d
  <2>1. moves = PadBursts(off, n, s, 0, actual - s, a - q, c0)
    <3>1. moves = PadBursts(off, n, s, 0, ParamField(SourceGap(j, s, actual)) \div z, ((a * c0 - s) * z) \div Block, c0)
      BY <1>5 DEF DataCopyInCommon, RowsAreBlocks
    <3>. HIDE DEF moves, q, z
    <3>. QED  BY ONLY <1>3, <2>4, <3>1
  <2>2. a * c0 = (CeilDiv(s + 0, c0) + (a - q)) * c0 /\ actual = s + (actual - s)
    <3>1. s + 0 = s
      OBVIOUS
    <3>2. CeilDiv(s + 0, c0) = q
      BY ONLY <3>1
    <3>3. q + (a - q) = a
      BY <1>2
    <3>. QED  BY <3>2, <3>3
  <2>3. actual - s \in Int /\ a - q \in Nat /\ 0 \in Nat
    BY <1>2
  <2>. HIDE DEF q, moves, z
  <2>. QED  BY <2>1, <2>2, <2>3, PadBurstsAreRows DEF moves
<1>. QED  BY <1>4, <1>5

-----------------------------------------------------------------------------
(* What makes a block right: the scores take from places that were filled from what they need. *)
BlockRight(j, t) ==
  /\ Clean(Applied(j, t)) /\ Clean(BlockCopyIn(j, t))
  /\ \A x \in Applied(j, t) : x[1] \in 0 .. t.height * Pitch(j, t) - 1
  /\ \A rc \in Cells(j, t) : \E u, a :
       /\ <<rc[1] * Pitch(j, t) + rc[2], u>> \in Applied(j, t)
       /\ <<u, a>> \in BlockCopyIn(j, t)
       /\ ValueAt(j, t, rc[1] * Pitch(j, t) + rc[2], a) = ScoreGets(j, t, rc[1], rc[2])

\* What is taken from clean copies is clean.
LEMMA MovesClean ==
    ASSUME NEW j, NEW t, Clean(Applied(j, t)), Clean(BlockCopyIn(j, t))
    PROVE  Clean(AttentionMoves(j, t))
<1> DEFINE A == Applied(j, t)  B == BlockCopyIn(j, t)
           P == {y \in A \X B : y[1][2] = y[2][1]}
           e == [x \in P |-> <<x[1][1], ValueAt(j, t, x[1][1], x[2][2])>>]
<1>1. AttentionMoves(j, t) = {e[x] : x \in P}
  BY DEF AttentionMoves
<1>2. IsFiniteSet(P)
  <2>1. IsFiniteSet(A \X B)
    BY FS_Product DEF Clean
  <2>2. P \in SUBSET (A \X B)
    OBVIOUS
  <2>. HIDE DEF A, B, P
  <2>. QED  BY <2>1, <2>2, FS_Subset
<1>3. IsFiniteSet(AttentionMoves(j, t))
  <2>. HIDE DEF P, e
  <2>. QED  BY <1>1, <1>2, ImageFinite
<1>4. ASSUME NEW x \in AttentionMoves(j, t), NEW y \in AttentionMoves(j, t), x[1] = y[1] PROVE x = y
  <2>1. PICK p \in P : x = e[p]
    <3>. HIDE DEF P, e
    <3>. QED  BY <1>1
  <2>2. PICK q \in P : y = e[q]
    <3>. HIDE DEF P, e
    <3>. QED  BY <1>1
  <2>3. x = <<p[1][1], ValueAt(j, t, p[1][1], p[2][2])>> /\ y = <<q[1][1], ValueAt(j, t, q[1][1], q[2][2])>>
    BY <2>1, <2>2, Zenon
  <2>4. p[1] \in A /\ p[2] \in B /\ p[1][2] = p[2][1] /\ q[1] \in A /\ q[2] \in B /\ q[1][2] = q[2][1]
    <3>. HIDE DEF A, B
    <3>. QED  OBVIOUS
  <2>5. p[1][1] = q[1][1]
    BY <1>4, <2>3
  <2>6. p[1] = q[1]
    BY <2>4, <2>5 DEF Clean
  <2>7. p[2] = q[2]
    BY <2>4, <2>6 DEF Clean
  <2>. QED  BY <2>3, <2>6, <2>7, Zenon
<1>. QED  BY <1>3, <1>4, Zenon DEF Clean

\* Blocks that are right make a sound job.
LEMMA AttentionSoundIfRight ==
    ASSUME NEW j, j.unit = "attention", Grid(j), \A t \in Tiles(j) : BlockRight(j, t)
    PROVE  Sound(j)
<1>. SUFFICES ASSUME NEW t \in Tiles(j)
              PROVE  /\ Clean(Moves(j, t))
                     /\ \A rc \in Cells(j, t) :
                          <<PlaceOf(j, t, rc[1], rc[2]), SourceOf(j, t, rc[1], rc[2])>> \in Moves(j, t)
                     /\ \A x \in Moves(j, t) : x[1] \in RoomOf(j, t) /\ x[1][1] = Buffer(t)
  <2>1. j.unit \in {"in", "out", "load", "attention"}
    OBVIOUS
  <2>. QED  BY <2>1, BufferedSound
<1> DEFINE moves == AttentionMoves(j, t)
<1>1. BlockRight(j, t)
  OBVIOUS
<1>2. Moves(j, t) = {<<<<Buffer(t), mv[1]>>, <<0, mv[2]>>>> : mv \in moves}
  BY DEF Moves
<1>3. Clean(moves)
  BY <1>1, MovesClean DEF BlockRight
<1>4. \A mv \in moves : \E x \in Applied(j, t) : mv[1] = x[1]
  <2>. SUFFICES ASSUME NEW mv \in moves PROVE \E x \in Applied(j, t) : mv[1] = x[1]
    OBVIOUS
  <2>1. PICK p \in {y \in Applied(j, t) \X BlockCopyIn(j, t) : y[1][2] = y[2][1]} :
          mv = <<p[1][1], ValueAt(j, t, p[1][1], p[2][2])>>
    BY DEF AttentionMoves
  <2>2. p[1] \in Applied(j, t) /\ mv[1] = p[1][1]
    BY <2>1
  <2>. QED  BY <2>2
<1>5. \A u, a, s, v : <<s, u>> \in Applied(j, t) /\ <<u, a>> \in BlockCopyIn(j, t) /\ v = ValueAt(j, t, s, a)
        => <<s, v>> \in moves
  <2>. SUFFICES ASSUME NEW u, NEW a, NEW s, <<s, u>> \in Applied(j, t), <<u, a>> \in BlockCopyIn(j, t)
                PROVE  <<s, ValueAt(j, t, s, a)>> \in moves
    OBVIOUS
  <2> DEFINE p == << <<s, u>>, <<u, a>> >>
             P == {y \in Applied(j, t) \X BlockCopyIn(j, t) : y[1][2] = y[2][1]}
  <2>1. p \in P
    OBVIOUS
  <2>2. moves = {<<x[1][1], ValueAt(j, t, x[1][1], x[2][2])>> : x \in P}
    BY DEF AttentionMoves
  <2>3. p[1][1] = s /\ p[2][2] = a
    OBVIOUS
  <2>. HIDE DEF moves, P, p
  <2>4. <<p[1][1], ValueAt(j, t, p[1][1], p[2][2])>> \in moves
    BY <2>1, <2>2
  <2>. QED  BY ONLY <2>3, <2>4
<1>. HIDE DEF moves
<1>6. Clean(Moves(j, t))
  <2>1. Moves(j, t) = IntoBuffer(Buffer(t), moves)
    BY <1>2 DEF IntoBuffer
  <2>. QED  BY <1>3, <2>1, RenamedClean
<1>7. ASSUME NEW rc \in Cells(j, t)
      PROVE  <<PlaceOf(j, t, rc[1], rc[2]), SourceOf(j, t, rc[1], rc[2])>> \in Moves(j, t)
  <2> DEFINE s == rc[1] * Pitch(j, t) + rc[2]
  <2>1. PICK u, a : <<s, u>> \in Applied(j, t) /\ <<u, a>> \in BlockCopyIn(j, t)
                      /\ ValueAt(j, t, s, a) = ScoreGets(j, t, rc[1], rc[2])
    BY <1>1 DEF BlockRight
  <2>2. <<s, ScoreGets(j, t, rc[1], rc[2])>> \in moves
    BY <1>5, <2>1
  <2>3. PlaceOf(j, t, rc[1], rc[2]) = <<Buffer(t), s>>
    BY DEF PlaceOf
  <2>4. SourceOf(j, t, rc[1], rc[2]) = <<0, ScoreGets(j, t, rc[1], rc[2])>>
    BY DEF SourceOf
  <2>. HIDE DEF s
  <2>. QED  BY <1>2, <2>2, <2>3, <2>4
<1>8. ASSUME NEW x \in Moves(j, t) PROVE x[1] \in RoomOf(j, t) /\ x[1][1] = Buffer(t)
  <2>1. PICK mv \in moves : x = <<<<Buffer(t), mv[1]>>, <<0, mv[2]>>>>
    BY <1>2
  <2>2. RoomOf(j, t) = {<<Buffer(t), a>> : a \in 0 .. t.height * Pitch(j, t) - 1}
    BY DEF RoomOf
  <2>3. mv[1] \in 0 .. t.height * Pitch(j, t) - 1
    BY <1>1, <1>4, <2>1 DEF BlockRight
  <2>. QED  BY <2>1, <2>2, <2>3
<1>. QED  BY <1>6, <1>7, <1>8

\* Half and float divide a block, and a fractal's edge is made of their blocks.
LEMMA HalfOrFloat ==
    ASSUME NEW z \in {2, 4}, z = 4 => Cube % 2 = 0
    PROVE  /\ C0(z) \in Positive /\ C0(z) * z = Block /\ z \in Positive /\ Cube \in Positive
           /\ \E g \in Positive : Cube = g * C0(z)
<1>1. Cube \in Positive /\ Cube \in Nat /\ Block = 2 * Cube /\ Cube > 0
  BY FractalAssumption DEF Positive
<1>2. CASE z = 2
  <2>1. C0(z) = Cube
    BY <1>2, C0OfHalf
  <2>2. 1 \in Positive /\ 2 \in Positive /\ Cube = 1 * Cube /\ Cube * 2 = 2 * Cube
    BY <1>1 DEF Positive
  <2>. QED  BY <1>1, <1>2, <2>1, <2>2
<1>3. CASE z = 4
  <2> DEFINE k == Cube \div 2
  <2>1. k \in Nat /\ Cube = 2 * k
    <3>1. 2 \in Positive /\ Cube % 2 = 0
      BY <1>3 DEF Positive
    <3>. QED  BY <1>1, <3>1, CeilOfMultiple, DivMod
  <2>. HIDE DEF k
  <2>2. k \in Positive
    BY <1>1, <2>1 DEF Positive
  <2>3. C0(z) = k
    <3>1. Block = 4 * k + 0 /\ 4 \in Positive /\ 0 \in 0 .. 4 - 1
      BY <1>1, <2>1 DEF Positive
    <3>2. (4 * k + 0) \div 4 = k
      BY <2>1, <3>1, DivModUnique
    <3>. QED  BY <1>3, <3>1, <3>2 DEF C0
  <2>4. 2 \in Positive /\ 4 \in Positive /\ k * 4 = Block
    BY <1>1, <2>1 DEF Positive
  <2>. QED  BY <1>1, <1>3, <2>1, <2>2, <2>3, <2>4
<1>. QED  BY <1>2, <1>3

\* The copies of rows, aligned to fractals or to blocks.
LEMMA CopiedRows ==
    ASSUME NEW j, j.size \in {2, 4}, j.size = 4 => Cube % 2 = 0,
           NEW off \in Int, NEW n \in Nat, NEW s \in Nat, NEW actual \in Nat,
           s <= actual, SourceGap(j, s, actual) <= UInt16Max
    PROVE  /\ RowsCopied(DataCopyIn(j, off, n, s, actual), n, CeilAlign(s, Cube), actual, off, s)
           /\ RowsCopied(CopyRows(j, off, n, s, actual), n,
                         CeilAlign(s, IF j.align8 THEN C0(j.size) ELSE Cube), actual, off, s)
<1> DEFINE c0 == C0(j.size)
<1>1. c0 \in Positive /\ c0 * j.size = Block /\ j.size \in Positive /\ Cube \in Positive
  BY HalfOrFloat
<1>2. PICK g \in Positive : Cube = g * c0
  BY HalfOrFloat
<1>3. RowsCopied(DataCopyIn(j, off, n, s, actual), n, CeilAlign(s, Cube), actual, off, s)
  <2> DEFINE a == CeilDiv(s, Cube) * g
  <2>1. CeilDiv(s, Cube) \in Nat /\ s <= CeilAlign(s, Cube) /\ CeilAlign(s, Cube) = Cube * CeilDiv(s, Cube)
    BY <1>1, CeilFacts
  <2>2. g \in Nat /\ c0 \in Nat
    BY <1>1 DEF Positive
  <2>3. a \in Nat /\ CeilAlign(s, Cube) = a * c0
    <3> DEFINE q == CeilDiv(s, Cube)
    <3>1. q \in Nat
      BY <2>1
    <3>. HIDE DEF q, c0
    <3>2. q * g \in Nat /\ (g * c0) * q = (q * g) * c0
      BY ONLY <2>2, <3>1
    <3>. QED  BY <1>2, <2>1, <3>2 DEF q
  <2>. HIDE DEF a
  <2>4. DataCopyIn(j, off, n, s, actual) = DataCopyInCommon(j, off, n, s, actual, a * c0)
    BY <2>3 DEF DataCopyIn
  <2>. HIDE DEF c0
  <2>5. c0 = C0(j.size)
    BY DEF c0
  <2>6. s <= a * c0
    BY <2>1, <2>3
  <2>7. RowsCopied(DataCopyInCommon(j, off, n, s, actual, a * c0), n, a * c0, actual, off, s)
    BY <1>1, <2>3, <2>5, <2>6, CommonRows
  <2>. QED  BY <2>3, <2>4, <2>7
<1>4. RowsCopied(DataCopyInAlign8(j, off, n, s, actual), n, CeilAlign(s, c0), actual, off, s)
  <2> DEFINE a == CeilDiv(s, c0)
  <2>1. a \in Nat /\ s <= CeilAlign(s, c0) /\ CeilAlign(s, c0) = a * c0
    BY <1>1, CeilFacts DEF CeilAlign
  <2>. HIDE DEF a
  <2>2. DataCopyInAlign8(j, off, n, s, actual) = DataCopyInCommon(j, off, n, s, actual, a * c0)
    BY <2>1 DEF DataCopyInAlign8
  <2>. HIDE DEF c0
  <2>3. c0 = C0(j.size)
    BY DEF c0
  <2>4. RowsCopied(DataCopyInCommon(j, off, n, s, actual, a * c0), n, a * c0, actual, off, s)
    BY <1>1, <2>1, <2>3, CommonRows
  <2>. QED  BY <2>1, <2>2, <2>4
<1>. QED  BY <1>3, <1>4 DEF CopyRows

-----------------------------------------------------------------------------
(* The numbers of a block: it lies within the scores, its rows within their pitch. *)
BlockNumbers(j, t) ==
  /\ {j.s1, j.s2, j.start, j.boIdx, j.n2oIdx, j.goIdx, j.n2Size, j.gSize} \subseteq Nat
  /\ {j.baseM, j.baseN} \subseteq Nat \ {0}
  /\ {j.qStartIdx, j.kvStartIdx} \subseteq Int
  /\ t.height \in 1 .. j.baseM /\ t.width \in 1 .. j.baseN
  /\ {t.row, t.col, FirstRow(j, t), FirstColumn(j, t), HeadInBatch(j), Pitch(j, t)} \subseteq Nat
  /\ FirstRow(j, t) + t.height <= j.s1 /\ FirstColumn(j, t) + t.width <= j.s2
  /\ FirstRow(j, t) % j.baseM = 0
  /\ t.width <= Pitch(j, t)

LEMMA BlockFacts ==
    ASSUME NEW j, j.unit = "attention", AttentionLegal(j), NEW t \in Tiles(j)
    PROVE  BlockNumbers(j, t)
<1>1. Grid(j) /\ j.unit \in {"in", "out", "load", "attention"}
  BY DEF AttentionLegal
<1>2. /\ t.row \in Nat /\ t.row * j.baseM \in Nat /\ t.height \in 1 .. j.baseM
      /\ t.row * j.baseM + t.height <= j.m /\ (t.row * j.baseM) % j.baseM = 0
      /\ t.col \in Nat /\ t.col * j.baseN \in Nat /\ t.width \in 1 .. j.baseN
      /\ t.col * j.baseN + t.width <= j.n
  BY <1>1, TileFacts
<1>3. /\ {j.s1, j.s2, j.start, j.boIdx, j.n2oIdx, j.goIdx, j.n2Size, j.gSize} \subseteq Nat
      /\ {j.qStartIdx, j.kvStartIdx} \subseteq Int /\ j.m <= j.s1 /\ j.start + j.n <= j.s2
  BY DEF AttentionLegal
<1>4. {j.m, j.n} \subseteq Nat /\ {j.baseM, j.baseN, j.size} \subseteq Nat \ {0} /\ j.size <= Block
  BY <1>1 DEF Grid
<1>5. FirstRow(j, t) \in Nat /\ FirstRow(j, t) + t.height <= j.s1 /\ FirstRow(j, t) % j.baseM = 0
  <2> DEFINE x == t.row * j.baseM
  <2>1. FirstRow(j, t) = x
    BY DEF FirstRow
  <2>2. x \in Nat /\ x + t.height <= j.m /\ x % j.baseM = 0
    BY <1>2
  <2>. HIDE DEF x
  <2>. QED  BY <1>2, <1>3, <1>4, <2>1, <2>2
<1>6. FirstColumn(j, t) \in Nat /\ FirstColumn(j, t) + t.width <= j.s2
  <2> DEFINE x == t.col * j.baseN
  <2>1. FirstColumn(j, t) = j.start + x
    BY DEF FirstColumn
  <2>2. x \in Nat /\ x + t.width <= j.n
    BY <1>2
  <2>. HIDE DEF x
  <2>. QED  BY <1>2, <1>3, <1>4, <2>1, <2>2
<1>7. HeadInBatch(j) \in Nat
  <2>1. j.n2oIdx * j.gSize \in Nat
    BY <1>3, MulMonotone
  <2>. QED  BY <1>3, <2>1 DEF HeadInBatch
<1>8. Pitch(j, t) \in Nat /\ t.width <= Pitch(j, t)
  <2>1. C0(j.size) \in Positive /\ Cube \in Positive
    BY <1>4, C0Positive
  <2>2. t.width \in Nat
    BY <1>2
  <2>. QED  BY <2>1, <2>2, CeilFacts DEF Pitch
<1>. QED  BY <1>2, <1>3, <1>4, <1>5, <1>6, <1>7, <1>8 DEF BlockNumbers

\* What a block's copy puts in a field fits it, and the block's columns are columns of the scores.
LEMMA GapsFit ==
    ASSUME NEW j, AttentionLegal(j), NEW t \in Tiles(j), BlockNumbers(j, t)
    PROVE  UntestedGap(j, t) <= UInt16Max /\ t.width <= j.s2
<1>1. UntestedGap(j, t) <= UInt16Max
  BY DEF AttentionLegal
<1>2. FirstColumn(j, t) \in Nat /\ FirstColumn(j, t) + t.width <= j.s2 /\ t.width \in 1 .. j.baseN /\ j.baseN \in Nat /\ j.s2 \in Nat
  BY DEF BlockNumbers
<1>. QED  BY <1>1, <1>2

\* Moves of elements to where they are.
LEMMA FlatClean == ASSUME NEW n \in Nat PROVE Clean(Flat(n)) /\ \A x \in Flat(n) : x[1] \in 0 .. n - 1
<1> DEFINE e == [k \in 0 .. n - 1 |-> <<k, k>>]
<1>1. Flat(n) = {e[k] : k \in 0 .. n - 1}
  BY DEF Flat
<1>2. IsFiniteSet(Flat(n))
  <2>1. IsFiniteSet(0 .. n - 1)
    BY FS_Interval
  <2>. HIDE DEF e
  <2>. QED  BY <1>1, <2>1, ImageFinite
<1>3. \A x \in Flat(n) : \E k \in 0 .. n - 1 : x = <<k, k>>
  BY DEF Flat
<1>4. \A x, y \in Flat(n) : x[1] = y[1] => x = y
  BY <1>3
<1>. QED  BY <1>2, <1>3, <1>4 DEF Clean

\* Scores that take what lies at their own place, copied row by row.
LEMMA FlatBlock ==
    ASSUME NEW j, j.unit = "attention", NEW t, BlockNumbers(j, t), Applied(j, t) = Flat(t.height * Pitch(j, t)),
           NEW stride, NEW src, NEW len \in Nat, t.width <= len,
           RowsCopied(BlockCopyIn(j, t), t.height, Pitch(j, t), stride, src, len),
           \A r \in 0 .. t.height - 1, c \in 0 .. t.width - 1 :
              ScoreNeeded(j, t, r, c) =>
                ValueAt(j, t, r * Pitch(j, t) + c, src + r * stride + c) = ScoreGets(j, t, r, c)
    PROVE  BlockRight(j, t)
<1> DEFINE P == Pitch(j, t)  n == t.height * P
<1>1. P \in Nat /\ t.height \in Nat /\ t.width \in Nat /\ t.width <= P
  BY DEF BlockNumbers
<1>2. n \in Nat
  BY <1>1, MulMonotone
<1>3. Clean(Applied(j, t)) /\ \A x \in Applied(j, t) : x[1] \in 0 .. t.height * Pitch(j, t) - 1
  BY <1>2, FlatClean
<1>4. Clean(BlockCopyIn(j, t))
  BY DEF RowsCopied
<1>5. ASSUME NEW rc \in Cells(j, t)
      PROVE  \E u, a : /\ <<rc[1] * Pitch(j, t) + rc[2], u>> \in Applied(j, t)
                       /\ <<u, a>> \in BlockCopyIn(j, t)
                       /\ ValueAt(j, t, rc[1] * Pitch(j, t) + rc[2], a) = ScoreGets(j, t, rc[1], rc[2])
  <2> DEFINE r == rc[1]  c == rc[2]  u == r * P + c  a == src + r * stride + c
  <2>0. j.unit = "attention" => ScoreNeeded(j, t, r, c)
    BY DEF Cells
  <2>1. r \in 0 .. t.height - 1 /\ c \in 0 .. t.width - 1
    BY DEF Cells
  <2>2. c \in 0 .. P - 1 /\ c \in 0 .. len - 1
    BY <1>1, <2>1
  <2>3. u \in 0 .. n - 1
    <3>1. RowMajorAt(P, r, c) \in 0 .. t.height * P - 1
      BY <1>1, <2>1, <2>2, RowMajorRange
    <3>. QED  BY <3>1 DEF RowMajorAt
  <2>4. <<u, u>> \in Applied(j, t)
    <3>. HIDE DEF u
    <3>. QED  BY <2>3 DEF Flat
  <2>5. <<u, a>> \in BlockCopyIn(j, t)
    BY <2>1, <2>2 DEF RowsCopied
  <2>6. ScoreNeeded(j, t, r, c) => ValueAt(j, t, u, a) = ScoreGets(j, t, r, c)
    BY <2>1
  <2>. HIDE DEF r, c, u, a
  <2>. QED  BY <2>0, <2>4, <2>5, <2>6 DEF r, c, u
<1>. QED  BY <1>3, <1>4, <1>5 DEF BlockRight

\* Where the encoding of a block begins.
LEMMA PseFrom ==
    ASSUME NEW j, NEW t, BlockNumbers(j, t), j.op = "pse", j.shape \in {"S1S2", "1S2"}
    PROVE  /\ PseComputeOffset(j, t) \in Int
           /\ \A r \in 0 .. t.height - 1, c \in 0 .. t.width - 1 :
                PseComputeOffset(j, t) + (IF j.shape = "S1S2" THEN r * j.s2 ELSE 0) + c = ScoreGets(j, t, r, c)
<1> DEFINE b == j.boIdx  n == j.n2Size  g == j.gSize  s1 == j.s1  s2 == j.s2  head == HeadInBatch(j)
           row == FirstRow(j, t)  column == FirstColumn(j, t)
           shared == IF j.pseBSize = 1 THEN head ELSE b * n * g + head
<1>1. b \in Int /\ n \in Int /\ g \in Int /\ s1 \in Int /\ s2 \in Int /\ head \in Int /\ row \in Int /\ column \in Int
  BY DEF BlockNumbers
<1>2. CASE j.shape = "S1S2"
  <2>1. PseComputeOffset(j, t) = (IF j.pseBSize = 1 THEN 0 ELSE b * s1 * s2 * (n * g)) + head * s1 * s2 + row * s2 + column
    BY <1>2 DEF PseComputeOffset
  <2>2. \A r, c : ScoreGets(j, t, r, c) = (shared * s1 + (row + r)) * s2 + (column + c)
    BY <1>2 DEF ScoreGets
  <2>. HIDE DEF b, n, g, s1, s2, head, row, column
  <2>3. PseComputeOffset(j, t) = (shared * s1 + row) * s2 + column /\ shared \in Int
    <3>1. CASE j.pseBSize = 1
      <4>1. (head * s1 + row) * s2 + column = 0 + head * s1 * s2 + row * s2 + column
        BY ONLY <1>1
      <4>. QED  BY <1>1, <2>1, <3>1, <4>1
    <3>2. CASE j.pseBSize # 1
      <4>1. ((b * n * g + head) * s1 + row) * s2 + column
              = b * s1 * s2 * (n * g) + head * s1 * s2 + row * s2 + column
        BY ONLY <1>1
      <4>. QED  BY <1>1, <2>1, <3>2, <4>1
    <3>. QED  BY <3>1, <3>2
  <2>. HIDE DEF shared
  <2>4. \A r \in Int, c \in Int :
          (shared * s1 + row) * s2 + column + r * s2 + c = (shared * s1 + (row + r)) * s2 + (column + c)
    BY ONLY <1>1, <2>3
  <2>5. (shared * s1 + row) * s2 + column \in Int
    BY ONLY <1>1, <2>3
  <2>. QED  BY <1>2, <2>2, <2>3, <2>4, <2>5 DEF s2
<1>3. CASE j.shape = "1S2"
  <2>1. PseComputeOffset(j, t) = (IF j.pseBSize = 1 THEN 0 ELSE b * 1 * s2 * (n * g)) + head * 1 * s2 + 0 + column
    BY <1>3 DEF PseComputeOffset
  <2>2. \A r, c : ScoreGets(j, t, r, c) = shared * s2 + (column + c)
    BY <1>3 DEF ScoreGets
  <2>. HIDE DEF b, n, g, s1, s2, head, row, column
  <2>3. PseComputeOffset(j, t) = shared * s2 + column /\ shared \in Int
    <3>1. CASE j.pseBSize = 1
      <4>1. head * s2 + column = 0 + head * 1 * s2 + 0 + column
        BY ONLY <1>1
      <4>. QED  BY <1>1, <2>1, <3>1, <4>1
    <3>2. CASE j.pseBSize # 1
      <4>1. (b * n * g + head) * s2 + column = b * 1 * s2 * (n * g) + head * 1 * s2 + 0 + column
        BY ONLY <1>1
      <4>. QED  BY <1>1, <2>1, <3>2, <4>1
    <3>. QED  BY <3>1, <3>2
  <2>. HIDE DEF shared
  <2>4. \A c \in Int : shared * s2 + column + 0 + c = shared * s2 + (column + c)
    BY ONLY <1>1, <2>3
  <2>5. shared * s2 + column \in Int
    BY ONLY <1>1, <2>3
  <2>. QED  BY <1>3, <2>2, <2>3, <2>4, <2>5
<1>. QED  BY <1>2, <1>3

\* An encoding with a row for every row of scores.
LEMMA PseRowsRight ==
    ASSUME NEW j, j.unit = "attention", AttentionLegal(j), j.op = "pse", j.shape = "S1S2", NEW t \in Tiles(j)
    PROVE  BlockRight(j, t)
<1> DEFINE off == PseComputeOffset(j, t)
<1>1. BlockNumbers(j, t)
  BY BlockFacts
<1>2. /\ t.height \in Nat /\ t.width \in Nat /\ j.s2 \in Nat /\ off \in Int
      /\ \A r \in 0 .. t.height - 1, c \in 0 .. t.width - 1 : off + r * j.s2 + c = ScoreGets(j, t, r, c)
  <2>1. t.height \in Nat /\ t.width \in Nat /\ j.s2 \in Nat
    BY <1>1 DEF BlockNumbers
  <2>. QED  BY <1>1, <2>1, PseFrom
<1>3. RowsCopied(BlockCopyIn(j, t), t.height, Pitch(j, t), j.s2, off, t.width)
  <2>1. j.size \in {2, 4} /\ (j.size = 4 => Cube % 2 = 0)
    BY DEF AttentionLegal
  <2>4. t.width <= j.s2 /\ SourceGap(j, t.width, j.s2) <= UInt16Max
    BY <1>1, GapsFit DEF UntestedGap
  <2>2. RowsCopied(CopyRows(j, off, t.height, t.width, j.s2), t.height, Pitch(j, t), j.s2, off, t.width)
    <3>. HIDE DEF off
    <3>. QED  BY <1>2, <2>1, <2>4, CopiedRows DEF Pitch
  <2>3. BlockCopyIn(j, t) = CopyRows(j, off, t.height, t.width, j.s2)
    BY DEF BlockCopyIn, PseCopyIn, PseRows
  <2>. QED  BY <2>2, <2>3
<1>4. Applied(j, t) = Flat(t.height * Pitch(j, t))
  BY DEF Applied, PseCompute
<1>5. \A s, a : ValueAt(j, t, s, a) = a
  BY DEF ValueAt
<1>. HIDE DEF off
<1>6. \A r \in 0 .. t.height - 1, c \in 0 .. t.width - 1 : ScoreNeeded(j, t, r, c) =>
         ValueAt(j, t, r * Pitch(j, t) + c, off + r * j.s2 + c) = ScoreGets(j, t, r, c)
  BY <1>2, <1>5
<1>7. t.width <= t.width
  BY <1>2
<1>8. t.width \in Nat
  BY <1>2
<1>. QED  BY ONLY <1>1, <1>3, <1>4, <1>6, <1>7, <1>8, j.unit = "attention", FlatBlock

\* The distances of a block, from the head of their matrix.
LEMMA SlopeRight ==
    ASSUME NEW j, j.unit = "attention", AttentionLegal(j), j.op = "slope", NEW t \in Tiles(j)
    PROVE  BlockRight(j, t)
<1> DEFINE B == j.pseAlibiBaseS2
<1>1. BlockNumbers(j, t)
  BY BlockFacts
<1>2. /\ t.height \in Nat /\ t.width \in Nat /\ B \in Nat /\ t.width <= B /\ j.size = 2
  <2>1. B \in Nat /\ j.baseN <= B /\ j.size = 2
    BY DEF AttentionLegal
  <2>2. t.height \in Nat /\ t.width \in 1 .. j.baseN /\ j.baseN \in Nat
    BY <1>1 DEF BlockNumbers
  <2>. QED  BY <2>1, <2>2
<1>3. RowsCopied(BlockCopyIn(j, t), t.height, Pitch(j, t), B, 0, t.width)
  <2>1. j.size \in {2, 4} /\ (j.size = 4 => Cube % 2 = 0) /\ 0 \in Int
    BY <1>2
  <2>2. RowsCopied(DataCopyIn(j, 0, t.height, t.width, B), t.height, CeilAlign(t.width, Cube), B, 0, t.width)
    <3>1. SourceGap(j, t.width, B) <= UInt16Max
      BY <1>1, GapsFit DEF UntestedGap
    <3>. HIDE DEF B
    <3>. QED  BY <1>2, <2>1, <3>1, CopiedRows
  <2>3. Pitch(j, t) = CeilAlign(t.width, Cube)
    BY <1>2, C0OfHalf DEF Pitch
  <2>4. BlockCopyIn(j, t) = DataCopyIn(j, 0, t.height, t.width, B)
    BY DEF BlockCopyIn, PseSlopeCopyIn
  <2>. QED  BY <2>2, <2>3, <2>4
<1>4. Applied(j, t) = Flat(t.height * Pitch(j, t))
  BY DEF Applied, PseCompute
<1>5. ASSUME NEW r \in 0 .. t.height - 1, NEW c \in 0 .. t.width - 1
      PROVE  ValueAt(j, t, r * Pitch(j, t) + c, 0 + r * B + c) = ScoreGets(j, t, r, c)
  <2> DEFINE a == 0 + r * B + c  head == j.boIdx * j.n2Size * j.gSize  in == HeadInBatch(j)
             x == FirstColumn(j, t)  y == FirstRow(j, t)  k == j.kvStartIdx  q == j.qStartIdx
  <2>1. r \in Nat /\ c \in 0 .. B - 1 /\ B \in Positive /\ c \in Int /\ r \in Int
    BY <1>2 DEF Positive
  <2>2. x \in Int /\ y \in Int /\ k \in Int /\ q \in Int /\ head \in Int /\ in \in Int
    <3>1. x \in Int /\ y \in Int /\ k \in Int /\ q \in Int /\ in \in Int
      BY <1>1 DEF BlockNumbers
    <3>2. j.boIdx \in Int /\ j.n2Size \in Int /\ j.gSize \in Int
      BY <1>1 DEF BlockNumbers
    <3>. QED  BY <3>1, <3>2
  <2>3. a % B = c /\ a \div B = r
    <3>1. (B * r + c) \div B = r /\ (B * r + c) % B = c
      BY <2>1, DivModUnique
    <3>2. a = B * r + c
      BY <1>2, <2>1
    <3>. HIDE DEF a, B
    <3>. QED  BY <3>1, <3>2
  <2>4. PseInnerAlibiCreate(j, a) = c - r
    BY <2>3 DEF PseInnerAlibiCreate
  <2>5. ValueAt(j, t, r * Pitch(j, t) + c, a) = PseSlopeCast(j, t, a)
    BY DEF ValueAt
  <2>6. PseSlopeCast(j, t, a) = <<SlopeOf(j), Distance((c - r) + (x + k - y - q))>>
    <3>. HIDE DEF a
    <3>. QED  BY <2>4 DEF PseSlopeCast
  <2>7. SlopeOf(j) = IF j.shape = "SlopeBn" THEN head + in ELSE in
    <3>1. SlopeOf(j) = (IF j.shape = "SlopeBn" THEN head ELSE 0) + in
      BY DEF SlopeOf
    <3>. HIDE DEF head, in
    <3>. QED  BY <2>2, <3>1
  <2>8. ScoreGets(j, t, r, c) = <<IF j.shape = "SlopeBn" THEN head + in ELSE in, Distance(((x + c) + k) - ((y + r) + q))>>
    BY DEF ScoreGets
  <2>. HIDE DEF a, head, in, x, y, k, q, B
  <2>9. (c - r) + (x + k - y - q) = ((x + c) + k) - ((y + r) + q)
    BY ONLY <2>1, <2>2
  <2>10. ValueAt(j, t, r * Pitch(j, t) + c, a) = ScoreGets(j, t, r, c)
    BY ONLY <2>5, <2>6, <2>7, <2>8, <2>9
  <2>. QED  BY ONLY <2>10 DEF a
<1>6. t.width <= t.width /\ \A r \in 0 .. t.height - 1, c \in 0 .. t.width - 1 : ScoreNeeded(j, t, r, c) =>
         ValueAt(j, t, r * Pitch(j, t) + c, 0 + r * B + c) = ScoreGets(j, t, r, c)
  BY <1>2, <1>5
<1>. HIDE DEF B
<1>. QED  BY <1>1, <1>2, <1>3, <1>4, <1>6, FlatBlock

\* Rows no longer than their pitch stay within their number of pitches.
LEMMA RowsRange ==
    ASSUME NEW n \in Nat, NEW w \in Nat, NEW pitch \in Nat, w <= pitch, NEW stride, NEW src,
           NEW x \in Rows(n, w, pitch, stride, src)
    PROVE  x[1] \in 0 .. n * pitch - 1
<1>1. PICK b \in 0 .. n - 1, e \in 0 .. w - 1 : x = <<b * pitch + e, src + b * stride + e>>
  BY DEF Rows
<1>2. x[1] = RowMajorAt(pitch, b, e)
  BY <1>1 DEF RowMajorAt
<1>3. b \in 0 .. n - 1 /\ e \in 0 .. pitch - 1
  OBVIOUS
<1>. QED  BY ONLY <1>2, <1>3, n \in Nat, pitch \in Nat, RowMajorRange

\* An index below h is in one of the batches of r, the last of which ends at h.
Batched(h, r) ==
  /\ \A i \in 0 .. CeilDiv(h, r) - 1 : \A k \in 0 .. Least(r, h - i * r) - 1 : i * r + k \in 0 .. h - 1
  /\ \A b \in 0 .. h - 1 : \E i \in 0 .. CeilDiv(h, r) - 1 : \E k \in 0 .. Least(r, h - i * r) - 1 : b = i * r + k
LEMMA InBatches == ASSUME NEW h \in Nat, NEW r \in Positive PROVE Batched(h, r)
<1> DEFINE q == CeilDiv(h, r)
<1>1. r \in Nat /\ q \in Nat /\ h <= q * r /\ q * r \in Nat
  <2>1. r \in Nat /\ q \in Nat /\ CeilAlign(h, r) = r * q /\ h <= CeilAlign(h, r) /\ CeilAlign(h, r) \in Nat
    BY CeilFacts DEF Positive
  <2>. HIDE DEF q
  <2>. QED  BY <2>1
<1>2. ASSUME NEW i \in 0 .. q - 1, NEW k \in 0 .. Least(r, h - i * r) - 1 PROVE i * r + k \in 0 .. h - 1
  <2> DEFINE x == i * r
  <2>1. x \in Nat
    BY <1>1, MulMonotone
  <2>2. k \in 0 .. Least(r, h - x) - 1
    OBVIOUS
  <2>. HIDE DEF x, q
  <2>3. x + k \in 0 .. h - 1
    BY <1>1, <2>1, <2>2 DEF Least
  <2>. QED  BY <2>3 DEF x
<1>3. ASSUME NEW b \in 0 .. h - 1
      PROVE  \E i \in 0 .. q - 1 : \E k \in 0 .. Least(r, h - i * r) - 1 : b = i * r + k
  <2> DEFINE i == b \div r  k == b % r
  <2>1. i \in Nat /\ k \in 0 .. r - 1 /\ b = r * i + k
    BY DivMod
  <2>. HIDE DEF i, k
  <2>2. i * r \in Nat /\ r * i = i * r
    BY <1>1, <2>1
  <2>3. i < q
    <3>. SUFFICES ASSUME q <= i PROVE FALSE
      BY <1>1, <2>1
    <3>1. q * r <= i * r
      BY <1>1, <2>1, MulMonotone
    <3>. QED  BY <1>1, <2>1, <2>2, <3>1
  <2>4. k \in 0 .. Least(r, h - i * r) - 1
    <3> DEFINE x == i * r
    <3>1. x \in Nat /\ b = x + k
      BY <2>1, <2>2
    <3>. HIDE DEF x
    <3>2. k \in 0 .. Least(r, h - x) - 1
      BY <1>1, <2>1, <3>1 DEF Least
    <3>. QED  BY <3>2 DEF x
  <2>5. i \in 0 .. q - 1 /\ b = i * r + k
    BY <1>1, <2>1, <2>2, <2>3
  <2>. HIDE DEF q
  <2>. QED  BY ONLY <2>4, <2>5
<1>. QED  BY <1>2, <1>3 DEF Batched

\* One row added to every row of scores, in batches of as many rows as an instruction repeats.
LEMMA BroadcastIsRows ==
    ASSUME NEW h \in Nat, NEW P \in Nat, C0(4) \in Positive, P % C0(4) = 0
    PROVE  PseBroadcastAdd(h, P) = Rows(h, P, P, 0, 0)
<1> DEFINE R == RepeatMaxTimes  n == CeilDiv(h, R)  m(i) == Least(R, h - i * R)
           Added(i) == BroadcastAdd(i * R * P, P, m(i))
           Cell(b, e) == <<b * P + e, 0 + b * 0 + e>>
           At(i, k, e) == <<i * R * P + k * (P \div C0(4)) * C0(4) + e, e>>
<1>1. R \in Positive /\ R \in Nat
  BY AttentionAssumption DEF Positive
<1>2. Batched(h, R)
  BY <1>1, InBatches
<1>3. PseBroadcastAdd(h, P) = UNION {Added(i) : i \in 0 .. n - 1}
  BY DEF PseBroadcastAdd
<1>4. Rows(h, P, P, 0, 0) = {Cell(b, e) : b \in 0 .. h - 1, e \in 0 .. P - 1}
  BY DEF Rows
<1>5. \A i : Added(i) = {At(i, k, e) : k \in 0 .. m(i) - 1, e \in 0 .. P - 1}
  BY DEF BroadcastAdd
<1>6. ASSUME NEW i \in Int, NEW k \in Int, NEW e \in Int PROVE At(i, k, e) = Cell(i * R + k, e)
  <2> DEFINE d == P \div C0(4)  c == C0(4)
  <2>1. d \in Int /\ c \in Int /\ P = d * c
    <3>1. d \in Nat /\ P = c * d /\ c \in Nat
      BY CeilOfMultiple, DivMod DEF Positive
    <3>. HIDE DEF c, d
    <3>. QED  BY <3>1
  <2>. HIDE DEF d, c
  <2>2. k * d * c = k * P
    <3>1. k * d * c = k * (d * c)
      BY ONLY <2>1, k \in Int
    <3>. QED  BY ONLY <2>1, <3>1
  <2>3. i * R * P + k * P + e = (i * R + k) * P + e /\ 0 + (i * R + k) * 0 + e = e
    BY ONLY <1>1, i \in Int, k \in Int, e \in Int, P \in Nat
  <2>4. At(i, k, e) = <<i * R * P + k * d * c + e, e>>
    BY DEF d, c
  <2>5. Cell(i * R + k, e) = <<(i * R + k) * P + e, 0 + (i * R + k) * 0 + e>>
    OBVIOUS
  <2>. HIDE DEF At, Cell
  <2>. QED  BY ONLY <2>2, <2>3, <2>4, <2>5
<1>7. n \in Int /\ \A i \in 0 .. n - 1 : m(i) \in Int
  <2>1. n \in Nat
    BY <1>1, CeilFacts
  <2>. HIDE DEF n
  <2>2. \A i \in 0 .. n - 1 : i * R \in Int
    BY <1>1, <2>1
  <2>. QED  BY <1>1, <2>1, <2>2 DEF Least
<1>8. /\ \A i \in 0 .. n - 1 : \A k \in 0 .. m(i) - 1 : i * R + k \in 0 .. h - 1
      /\ \A b \in 0 .. h - 1 : \E i \in 0 .. n - 1 : \E k \in 0 .. m(i) - 1 : b = i * R + k
  BY <1>2 DEF Batched
<1>. HIDE DEF n, m, Added, Cell, At, R
<1>9. ASSUME NEW x \in PseBroadcastAdd(h, P) PROVE x \in Rows(h, P, P, 0, 0)
  <2>1. PICK i \in 0 .. n - 1 : x \in Added(i)
    BY <1>3
  <2>2. PICK k \in 0 .. m(i) - 1, e \in 0 .. P - 1 : x = At(i, k, e)
    BY <1>5, <2>1
  <2>3. i \in Int /\ k \in Int /\ e \in Int
    BY <1>7
  <2>4. x = Cell(i * R + k, e) /\ i * R + k \in 0 .. h - 1
    BY <1>6, <1>8, <2>2, <2>3
  <2>. QED  BY <1>4, <2>4
<1>10. ASSUME NEW x \in Rows(h, P, P, 0, 0) PROVE x \in PseBroadcastAdd(h, P)
  <2>1. PICK b \in 0 .. h - 1, e \in 0 .. P - 1 : x = Cell(b, e)
    BY <1>4
  <2>2. PICK i \in 0 .. n - 1 : \E k \in 0 .. m(i) - 1 : b = i * R + k
    BY <1>8
  <2>6. PICK k \in 0 .. m(i) - 1 : b = i * R + k
    BY <2>2
  <2>3. i \in Int /\ k \in Int /\ e \in Int
    BY <1>7
  <2>4. x = At(i, k, e)
    BY <1>6, <2>1, <2>6, <2>3
  <2>5. x \in Added(i)
    BY <1>5, <2>4
  <2>. QED  BY <1>3, <2>5
<1>. QED  BY <1>9, <1>10

\* The pitch of scores that are half or float is whole blocks of floats.
LEMMA PitchOfFloats ==
    ASSUME NEW j, j.size \in {2, 4}, Cube % 2 = 0, NEW t, t.width \in Nat
    PROVE  C0(4) \in Positive /\ Pitch(j, t) % C0(4) = 0
<1> DEFINE f == C0(4)
<1>1. f \in Positive /\ f * 4 = Block /\ Cube \in Positive
  BY HalfOrFloat
<1>2. Cube = f * 2 /\ Cube % f = 0 /\ f % f = 0
  <2>1. Block = 2 * Cube /\ Cube \in Nat /\ f \in Nat
    BY <1>1, FractalAssumption DEF Positive
  <2>2. Cube = f * 2 + 0 /\ f = f * 1 + 0 /\ 0 \in 0 .. f - 1 /\ 1 \in Nat /\ 2 \in Nat
    BY <1>1, <2>1 DEF Positive
  <2>3. (f * 2 + 0) % f = 0 /\ (f * 1 + 0) % f = 0
    BY <1>1, <2>2, DivModUnique
  <2>. HIDE DEF f
  <2>. QED  BY <2>1, <2>2, <2>3
<1>3. C0(j.size) = Cube \/ C0(j.size) = f
  BY C0OfHalf
<1> DEFINE a == IF j.align8 THEN C0(j.size) ELSE Cube
<1>4. a \in Positive /\ a % f = 0
  BY <1>1, <1>2, <1>3
<1>5. Pitch(j, t) = CeilAlign(t.width, a)
  BY DEF Pitch
<1>. HIDE DEF a, f
<1>6. CeilAlign(t.width, a) \in Nat /\ CeilAlign(t.width, a) % a = 0
  BY <1>4, CeilFacts
<1>7. Pitch(j, t) % f = 0
  BY <1>1, <1>4, <1>5, <1>6, MultipleOfMultiple
<1>. QED  BY <1>1, <1>7 DEF f

\* An encoding with one row for all rows of scores.
LEMMA PseRowRight ==
    ASSUME NEW j, j.unit = "attention", AttentionLegal(j), j.op = "pse", j.shape = "1S2", NEW t \in Tiles(j)
    PROVE  BlockRight(j, t)
<1> DEFINE off == PseComputeOffset(j, t)  P == Pitch(j, t)  h == t.height  w == t.width  n == PseRows(j, t)
<1>1. BlockNumbers(j, t)
  BY BlockFacts
<1>2. h \in Nat /\ w \in Nat /\ j.s2 \in Nat /\ P \in Nat /\ w <= P
  BY <1>1 DEF BlockNumbers
<1>3. off \in Int /\ \A r \in 0 .. h - 1, c \in 0 .. w - 1 : off + c = ScoreGets(j, t, r, c)
  <2>1. off \in Int /\ \A r \in 0 .. h - 1, c \in 0 .. w - 1 : off + 0 + c = ScoreGets(j, t, r, c)
    BY <1>1, PseFrom
  <2>. HIDE DEF off
  <2>. QED  BY <2>1
<1>4. j.size \in {2, 4} /\ Cube % 2 = 0
  BY DEF AttentionLegal
<1>12. n \in Nat /\ n > 0
  <2>1. j.blockCount \in Nat
    BY AttentionAssumption DEF AttentionLegal
  <2>. QED  BY <2>1 DEF PseRows
<1>5. RowsCopied(BlockCopyIn(j, t), n, P, j.s2, off, w)
  <2>1. w <= j.s2 /\ SourceGap(j, w, j.s2) <= UInt16Max
    BY <1>1, GapsFit DEF UntestedGap
  <2>2. RowsCopied(CopyRows(j, off, n, w, j.s2), n, P, j.s2, off, w)
    <3>. HIDE DEF n, off, w
    <3>. QED  BY <1>2, <1>3, <1>4, <1>12, <2>1, CopiedRows DEF Pitch, w
  <2>3. BlockCopyIn(j, t) = CopyRows(j, off, n, w, j.s2)
    BY DEF BlockCopyIn, PseCopyIn
  <2>. QED  BY <2>2, <2>3
<1>6. Applied(j, t) = Rows(h, P, P, 0, 0)
  <2>1. Applied(j, t) = PseBroadcastAdd(h, P)
    BY DEF Applied, PseCompute
  <2>2. C0(4) \in Positive /\ P % C0(4) = 0
    BY <1>2, <1>4, PitchOfFloats
  <2>. HIDE DEF P, h
  <2>. QED  BY <1>2, <2>1, <2>2, BroadcastIsRows
<1>7. \A s, a : ValueAt(j, t, s, a) = a
  BY DEF ValueAt
<1>8. RowsCopied(Applied(j, t), h, P, 0, 0, P)
  <2>. HIDE DEF P, h
  <2>. QED  BY <1>2, <1>6, RowsAreCopied
<1>9. ASSUME NEW x \in Applied(j, t) PROVE x[1] \in 0 .. h * P - 1
  <2>1. x \in Rows(h, P, P, 0, 0)
    BY <1>6
  <2>. HIDE DEF P, h
  <2>. QED  BY <1>2, <2>1, RowsRange
<1>10. ASSUME NEW rc \in Cells(j, t)
       PROVE  \E u, a : /\ <<rc[1] * P + rc[2], u>> \in Applied(j, t)
                        /\ <<u, a>> \in BlockCopyIn(j, t)
                        /\ ValueAt(j, t, rc[1] * P + rc[2], a) = ScoreGets(j, t, rc[1], rc[2])
  <2> DEFINE r == rc[1]  c == rc[2]
  <2>1. r \in 0 .. h - 1 /\ c \in 0 .. w - 1
    BY DEF Cells
  <2>. HIDE DEF r, c, h, w, P, off, n
  <2>2. c \in 0 .. P - 1 /\ 0 \in 0 .. n - 1 /\ r \in Int /\ c \in Int
    BY <1>2, <1>12, <2>1
  <2>3. <<r * P + c, 0 + r * 0 + c>> \in Applied(j, t)
    BY <1>8, <2>1, <2>2 DEF RowsCopied
  <2>4. <<0 * P + c, off + 0 * j.s2 + c>> \in BlockCopyIn(j, t)
    BY <1>5, <2>1, <2>2 DEF RowsCopied
  <2>5. 0 + r * 0 + c = c /\ 0 * P + c = c /\ off + 0 * j.s2 + c = off + c
    BY <1>2, <1>3, <2>2
  <2>6. <<r * P + c, c>> \in Applied(j, t) /\ <<c, off + c>> \in BlockCopyIn(j, t)
    BY ONLY <2>3, <2>4, <2>5
  <2>7. ValueAt(j, t, r * P + c, off + c) = ScoreGets(j, t, r, c)
    BY <1>3, <1>7, <2>1
  <2>. QED  BY <2>6, <2>7 DEF r, c
<1>11. Clean(Applied(j, t)) /\ Clean(BlockCopyIn(j, t))
  BY <1>5, <1>8 DEF RowsCopied
<1>. QED  BY <1>9, <1>10, <1>11 DEF BlockRight

-----------------------------------------------------------------------------
(* Attention: the mask of dropout.                                         *)
(* The byte of a mask's row that holds the mask of column c.                                      *)
MaskByte(j, c) == IF j.op = "dropBool" THEN c ELSE c \div ByteBits

\* The scores of a block take from the mask once each.
LEMMA MaskClean ==
    ASSUME NEW j, NEW t, BlockNumbers(j, t), j.op \in {"dropBool", "dropBit"}
    PROVE  /\ Clean(Applied(j, t))
           /\ \A x \in Applied(j, t) : x[1] \in 0 .. t.height * Pitch(j, t) - 1
           /\ \A r \in 0 .. t.height - 1, c \in 0 .. t.width - 1 :
                <<r * Pitch(j, t) + c, r * MaskLastAxis(j, t) + MaskByte(j, c)>> \in Applied(j, t)
<1> DEFINE P == Pitch(j, t)  h == t.height  w == t.width  M == MaskLastAxis(j, t)  moves == Applied(j, t)
           At(r, c) == <<r * P + c, r * M + MaskByte(j, c)>>
           f == [r \in 0 .. h - 1 |-> [c \in 0 .. w - 1 |-> r * P + c]]
           g == [r \in 0 .. h - 1 |-> [c \in 0 .. w - 1 |-> r * M + MaskByte(j, c)]]
<1>0. P \in Nat /\ h \in Nat /\ w \in Nat /\ w <= P
  BY DEF BlockNumbers
<1>1. moves = {At(r, c) : r \in 0 .. h - 1, c \in 0 .. w - 1}
  <2>1. Applied(j, t) = ComputeDropMask(j, t)
    BY DEF Applied
  <2>2. ComputeDropMask(j, t) = {At(r, c) : r \in 0 .. h - 1, c \in 0 .. w - 1}
    BY DEF ComputeDropMask, MaskByte
  <2>. QED  BY <2>1, <2>2
<1>2. \A r \in 0 .. h - 1, c \in 0 .. w - 1 : At(r, c) = <<f[r][c], g[r][c]>>
  OBVIOUS
<1>3. \A r \in 0 .. h - 1, c \in 0 .. w - 1 : f[r][c] = RowMajorAt(P, r, c)
  BY DEF RowMajorAt
<1>4. \A r, c : At(r, c)[1] = RowMajorAt(P, r, c)
  BY DEF RowMajorAt
<1>. HIDE DEF f, g, At, moves, P, h, w
<1>5. Tabled(moves, h, w, f, g)
  BY ONLY <1>1, <1>2 DEF Tabled
<1>6. Distinct(f, h, w)
  <2>. SUFFICES ASSUME NEW r1 \in 0 .. h - 1, NEW r2 \in 0 .. h - 1, NEW c1 \in 0 .. w - 1, NEW c2 \in 0 .. w - 1,
                       f[r1][c1] = f[r2][c2]
                PROVE  r1 = r2 /\ c1 = c2
    BY DEF Distinct
  <2>1. RowMajorAt(P, r1, c1) = RowMajorAt(P, r2, c2)
    BY <1>3
  <2>2. r1 \in Nat /\ r2 \in Nat /\ c1 \in 0 .. P - 1 /\ c2 \in 0 .. P - 1
    BY <1>0
  <2>. QED  BY ONLY <1>0, <2>1, <2>2, RowMajorInjective
<1>7. Clean(moves)
  BY <1>0, <1>5, <1>6, TableClean
<1>8. ASSUME NEW x \in moves PROVE x[1] \in 0 .. h * P - 1
  <2>1. PICK r \in 0 .. h - 1, c \in 0 .. w - 1 : x = At(r, c)
    BY <1>1
  <2>2. c \in 0 .. P - 1 /\ x[1] = RowMajorAt(P, r, c)
    BY <1>0, <1>4, <2>1
  <2>. QED  BY ONLY <1>0, <2>2, r \in 0 .. h - 1, RowMajorRange
<1>9. \A r \in 0 .. h - 1, c \in 0 .. w - 1 : At(r, c) \in moves
  BY <1>1
<1>. QED  BY <1>7, <1>8, <1>9 DEF moves, P, h, w, At

(* Every score finds its mask in rows that start at src, of len bytes, a stride apart.              *)
MasksFound(j, t, stride, src, len) ==
  \A r \in 0 .. t.height - 1, c \in 0 .. t.width - 1 :
     /\ MaskByte(j, c) \in 0 .. len - 1
     /\ ValueAt(j, t, r * Pitch(j, t) + c, src + r * stride + MaskByte(j, c)) = ScoreGets(j, t, r, c)

\* A mask whose rows are copied with the pitch they are read with.
LEMMA MaskBlock ==
    ASSUME NEW j, j.unit = "attention", NEW t, BlockNumbers(j, t), j.op \in {"dropBool", "dropBit"},
           NEW stride, NEW src, NEW len \in Nat,
           RowsCopied(BlockCopyIn(j, t), t.height, MaskLastAxis(j, t), stride, src, len),
           MasksFound(j, t, stride, src, len)
    PROVE  BlockRight(j, t)
<1> DEFINE P == Pitch(j, t)  M == MaskLastAxis(j, t)
<1>1. /\ Clean(Applied(j, t))
      /\ \A x \in Applied(j, t) : x[1] \in 0 .. t.height * Pitch(j, t) - 1
      /\ \A r \in 0 .. t.height - 1, c \in 0 .. t.width - 1 :
           <<r * Pitch(j, t) + c, r * MaskLastAxis(j, t) + MaskByte(j, c)>> \in Applied(j, t)
  BY MaskClean
<1>2. Clean(BlockCopyIn(j, t))
  BY DEF RowsCopied
<1>3. ASSUME NEW rc \in Cells(j, t)
      PROVE  \E u, a : /\ <<rc[1] * Pitch(j, t) + rc[2], u>> \in Applied(j, t)
                       /\ <<u, a>> \in BlockCopyIn(j, t)
                       /\ ValueAt(j, t, rc[1] * Pitch(j, t) + rc[2], a) = ScoreGets(j, t, rc[1], rc[2])
  <2> DEFINE r == rc[1]  c == rc[2]  u == r * M + MaskByte(j, c)  a == src + r * stride + MaskByte(j, c)
  <2>1. r \in 0 .. t.height - 1 /\ c \in 0 .. t.width - 1
    BY DEF Cells
  <2>2. MaskByte(j, c) \in 0 .. len - 1 /\ ValueAt(j, t, r * P + c, a) = ScoreGets(j, t, r, c)
    BY <2>1 DEF MasksFound
  <2>3. <<r * P + c, u>> \in Applied(j, t)
    BY <1>1, <2>1
  <2>4. <<u, a>> \in BlockCopyIn(j, t)
    BY <2>1, <2>2 DEF RowsCopied
  <2>. HIDE DEF u, a
  <2>. QED  BY <2>2, <2>3, <2>4
<1>. QED  BY <1>1, <1>2, <1>3 DEF BlockRight

\* The place of a block in the mask, in scores.
LEMMA DropFrom ==
    ASSUME NEW j, NEW t, BlockNumbers(j, t), j.op \in {"dropBool", "dropBit"}
    PROVE  /\ ComputeDropOffset(j, t) \in Nat
           /\ \A r \in 0 .. t.height - 1, c \in 0 .. t.width - 1 :
                ComputeDropOffset(j, t) + r * j.s2 + c = ScoreGets(j, t, r, c)
<1> DEFINE head == j.boIdx * j.n2Size * j.gSize + HeadInBatch(j)  s1 == j.s1  s2 == j.s2
           row == FirstRow(j, t)  column == FirstColumn(j, t)
<1>1. head \in Nat /\ s1 \in Nat /\ s2 \in Nat /\ row \in Nat /\ column \in Nat
  <2>1. j.boIdx \in Nat /\ j.n2Size \in Nat /\ j.gSize \in Nat /\ HeadInBatch(j) \in Nat
    BY DEF BlockNumbers
  <2>2. j.boIdx * j.n2Size \in Nat
    BY <2>1, MulMonotone
  <2>3. (j.boIdx * j.n2Size) * j.gSize \in Nat
    BY <2>1, <2>2, MulMonotone
  <2>. QED  BY <2>1, <2>3 DEF BlockNumbers
<1>2. ComputeDropOffset(j, t) = head * s1 * s2 + row * s2 + column
  BY DEF ComputeDropOffset
<1>3. \A r, c : ScoreGets(j, t, r, c) = (head * s1 + (row + r)) * s2 + (column + c)
  BY DEF ScoreGets
<1>4. t.height \in Nat /\ t.width \in Nat
  BY DEF BlockNumbers
<1>. HIDE DEF head, row, column, s1, s2
<1>5. head * s1 * s2 + row * s2 + column \in Nat
  <2>1. head * s1 \in Nat /\ row * s2 \in Nat
    BY <1>1, MulMonotone
  <2>2. (head * s1) * s2 \in Nat
    BY <1>1, <2>1, MulMonotone
  <2>. QED  BY <1>1, <2>1, <2>2
<1>6. \A r \in Int, c \in Int :
        head * s1 * s2 + row * s2 + column + r * s2 + c = (head * s1 + (row + r)) * s2 + (column + c)
  BY ONLY <1>1
<1>. QED  BY <1>2, <1>3, <1>4, <1>5, <1>6 DEF s2

-----------------------------------------------------------------------------
\* The difference of two multiples.
Gap(b, k, q, x, y) == (x - y) \div b = k - q
LEMMA GapOfMultiples ==
    ASSUME NEW b \in Positive, NEW k \in Int, NEW q \in Int, NEW x, NEW y, x = b * k, y = b * q
    PROVE  Gap(b, k, q, x, y)
<1>1. b \in Int /\ b > 0
  BY DEF Positive
<1>2. \A i \in Int, c \in Int : c > 0 => (c * i + 0) \div c = i
  BY SMT
<1>3. x - y = b * (k - q) + 0 /\ k - q \in Int
  BY <1>1
<1>. QED  BY ONLY <1>1, <1>2, <1>3 DEF Gap

\* A byte a score: rows rounded up to one block or two.
LEMMA BoolRows ==
    ASSUME NEW j, NEW off \in Int, NEW h \in Nat, NEW w \in Nat, 1 <= w, NEW s2 \in Nat, w <= s2,
           j.alignedSize \in {Block, 2 * Block}
    PROVE  RowsCopied(BoolCopyIn(j, off, h, w, s2), h, CeilAlign(CeilAlign(w, j.alignedSize), Block), s2, off, w)
<1> DEFINE A == j.alignedSize  narrow == s2 = Block /\ A = 2 * Block
           align == IF narrow THEN Block ELSE A
           aligned == CeilAlign(w, align)
           padding == Least(aligned - w, Block)
           M == CeilAlign(CeilAlign(w, A), Block)
           moves == BoolCopyIn(j, off, h, w, s2)
<1>1. Block \in Positive /\ Block \in Nat /\ Block > 0 /\ Block <= UInt16Max /\ UInt16Max \in Nat
  BY FractalAssumption, AttentionAssumption DEF Positive
<1>2. A \in Positive /\ A \in Nat /\ A % Block = 0 /\ Block % Block = 0 /\ (A = Block \/ A = 2 * Block)
  <2>1. Block * 1 + 0 = Block /\ Block * 2 + 0 = 2 * Block /\ 0 \in 0 .. Block - 1 /\ 1 \in Nat /\ 2 \in Nat
    BY <1>1
  <2>2. (Block * 1 + 0) % Block = 0 /\ (Block * 2 + 0) % Block = 0
    BY <1>1, <2>1, DivModUnique
  <2>3. Block % Block = 0 /\ (2 * Block) % Block = 0
    BY <2>1, <2>2
  <2>. QED  BY <1>1, <2>3 DEF Positive
<1>3. /\ CeilAlign(w, A) \in Nat /\ CeilAlign(w, A) % A = 0 /\ w <= CeilAlign(w, A) /\ CeilAlign(w, A) < w + A
  BY <1>2, CeilFacts
<1>4. M = CeilAlign(w, A) /\ CeilAlign(w, A) % Block = 0
  <2>1. CeilAlign(w, A) % Block = 0
    BY <1>1, <1>2, <1>3, MultipleOfMultiple
  <2>. QED  BY <1>1, <1>3, <2>1, CeilOfMultiple
<1>5. moves = IF s2 - w > UInt16Max THEN PadBursts(off, h, w, padding, s2 - w, 0, Block)
              ELSE IF s2 % align # 0 THEN PadBursts(off, h, w, padding, s2 - w, IF narrow THEN 1 ELSE 0, Block)
              ELSE Bursts(0, off, h, aligned \div Block, (s2 - aligned) \div Block, IF narrow THEN 1 ELSE 0, Block)
  BY DEF BoolCopyIn
<1>6. CASE narrow
  <2>1. CeilDiv(w, Block) = 1 /\ CeilDiv(w, A) = 1
    <3>1. w <= Block * 1 /\ Block * 1 < w + Block /\ w <= A * 1 /\ A * 1 < w + A /\ 1 \in Nat
      BY <1>1, <1>2, <1>6
    <3>. QED  BY <1>1, <1>2, <3>1, CeilUnique
  <2>2. align = Block /\ aligned = Block /\ M = 2 * Block
    <3>1. CeilAlign(w, Block) = 1 * Block /\ CeilAlign(w, A) = 1 * A
      BY <2>1 DEF CeilAlign
    <3>. QED  BY <1>1, <1>4, <1>6, <3>1
  <2>3. ~(s2 - w > UInt16Max) /\ s2 % align = 0
    BY <1>1, <1>2, <1>6, <2>2
  <2>4. aligned \div Block = 1 /\ (s2 - aligned) \div Block = 0
    <3>1. (Block * 1 + 0) \div Block = 1 /\ (Block * 0 + 0) \div Block = 0
      <4>1. 1 \in Nat /\ 0 \in Nat /\ 0 \in 0 .. Block - 1
        BY <1>1
      <4>. QED  BY <1>1, <4>1, DivModUnique
    <3>2. aligned = Block * 1 + 0 /\ s2 - aligned = Block * 0 + 0
      BY <1>1, <1>6, <2>2
    <3>. HIDE DEF aligned
    <3>. QED  BY <3>1, <3>2
  <2>5. moves = Bursts(0, off, h, 1, 0, 1, Block)
    BY <1>5, <1>6, <2>3, <2>4
  <2>6. M = (1 + 1) * Block /\ s2 = (1 + 0) * Block /\ w <= 1 * Block /\ 1 \in Nat /\ 0 \in Int
    BY <1>1, <1>6, <2>2
  <2>. HIDE DEF M, moves
  <2>7. RowsCopied(Bursts(0, off, h, 1, 0, 1, Block), h, M, s2, off, w)
    BY <1>1, <2>6, BurstsAreRows
  <2>. QED  BY <2>5, <2>7 DEF M, moves
<1>7. CASE ~narrow
  <2>1. align = A /\ aligned = M
    BY <1>4, <1>7
  <2>2. aligned \in Nat /\ w <= aligned /\ aligned < w + A /\ aligned % Block = 0
    BY <1>3, <1>4, <2>1
  <2> DEFINE q == aligned \div Block
  <2>. HIDE DEF aligned
  <2>3. q \in Nat /\ aligned = Block * q /\ aligned = q * Block
    <3>1. q \in Nat /\ aligned = Block * q
      BY <1>1, <2>2, CeilOfMultiple, DivMod
    <3>. HIDE DEF q
    <3>. QED  BY <1>1, <3>1
  <2>. HIDE DEF q
  <2>4. RowsCopied(PadBursts(off, h, w, padding, s2 - w, 0, Block), h, M, s2, off, w)
    <3>1. padding \in Nat /\ w + padding <= aligned /\ aligned < w + padding + Block
      BY <1>1, <1>2, <2>2 DEF Least
    <3>. HIDE DEF padding
    <3>2. CeilDiv(w + padding, Block) = q
      <4>1. w + padding \in Nat
        BY <3>1
      <4>2. w + padding <= Block * q /\ Block * q < w + padding + Block
        BY <2>3, <3>1
      <4>. QED  BY <1>1, <2>3, <4>1, <4>2, CeilUnique
    <3>3. M = (CeilDiv(w + padding, Block) + 0) * Block /\ s2 = w + (s2 - w) /\ s2 - w \in Int /\ 0 \in Nat
      BY <2>1, <2>3, <3>2
    <3>. HIDE DEF M
    <3>. QED  BY <1>1, <3>1, <3>3, PadBurstsAreRows
  <2>5. s2 % A = 0 => RowsCopied(Bursts(0, off, h, q, (s2 - aligned) \div Block, 0, Block), h, M, s2, off, w)
    <3>. SUFFICES ASSUME s2 % A = 0
                  PROVE  RowsCopied(Bursts(0, off, h, q, (s2 - aligned) \div Block, 0, Block), h, M, s2, off, w)
      OBVIOUS
    <3> DEFINE k == s2 \div Block
    <3>1. k \in Nat /\ s2 = Block * k
      <4>1. s2 % Block = 0
        BY <1>1, <1>2, MultipleOfMultiple
      <4>. QED  BY <1>1, <4>1, CeilOfMultiple, DivMod
    <3>. HIDE DEF k
    <3>2. (s2 - aligned) \div Block = k - q
      <4>1. k \in Int /\ q \in Int
        BY <2>3, <3>1
      <4>2. Gap(Block, k, q, s2, aligned)
        BY ONLY <1>1, <2>3, <3>1, <4>1, GapOfMultiples
      <4>. QED  BY ONLY <4>2 DEF Gap
    <3>3. M = (q + 0) * Block /\ s2 = (q + (k - q)) * Block /\ w <= q * Block /\ k - q \in Int /\ 0 \in Nat
      BY <1>1, <2>1, <2>2, <2>3, <3>1
    <3>. HIDE DEF M
    <3>4. RowsCopied(Bursts(0, off, h, q, k - q, 0, Block), h, M, s2, off, w)
      BY <1>1, <2>3, <3>3, BurstsAreRows
    <3>. QED  BY <3>2, <3>4
  <2>6. \/ moves = PadBursts(off, h, w, padding, s2 - w, 0, Block)
        \/ s2 % A = 0 /\ moves = Bursts(0, off, h, q, (s2 - aligned) \div Block, 0, Block)
    <3>. HIDE DEF padding, moves
    <3>. QED  BY <1>5, <1>7, <2>1 DEF q
  <2>. QED  BY <2>4, <2>5, <2>6
<1>. QED  BY <1>6, <1>7

\* A byte a score.
LEMMA DropBoolRight ==
    ASSUME NEW j, j.unit = "attention", AttentionLegal(j), j.op = "dropBool", NEW t \in Tiles(j)
    PROVE  BlockRight(j, t)
<1> DEFINE off == ComputeDropOffset(j, t)  h == t.height  w == t.width
<1>1. BlockNumbers(j, t)
  BY BlockFacts
<1>2. /\ h \in Nat /\ w \in Nat /\ 1 <= w /\ j.s2 \in Nat /\ w <= j.s2
      /\ j.alignedSize \in {Block, 2 * Block}
  <2>1. h \in Nat /\ w \in Nat /\ 1 <= w /\ j.s2 \in Nat /\ FirstColumn(j, t) + w <= j.s2 /\ FirstColumn(j, t) \in Nat
    BY <1>1 DEF BlockNumbers
  <2>2. j.alignedSize \in {Block, 2 * Block}
    BY DEF AttentionLegal
  <2>. HIDE DEF h, w
  <2>. QED  BY <2>1, <2>2
<1>3. off \in Int /\ \A r \in 0 .. h - 1, c \in 0 .. w - 1 : off + r * j.s2 + c = ScoreGets(j, t, r, c)
  <2>1. /\ off \in Nat
        /\ \A r \in 0 .. h - 1, c \in 0 .. w - 1 : off + r * j.s2 + c = ScoreGets(j, t, r, c)
    BY <1>1, DropFrom
  <2>. QED  BY <2>1
<1>4. RowsCopied(BlockCopyIn(j, t), h, MaskLastAxis(j, t), j.s2, off, w)
  <2>1. BlockCopyIn(j, t) = BoolCopyIn(j, off, h, w, j.s2)
    BY DEF BlockCopyIn, CopyInDropMask
  <2>2. MaskLastAxis(j, t) = CeilAlign(CeilAlign(w, j.alignedSize), Block)
    BY DEF MaskLastAxis
  <2>. HIDE DEF off, h, w
  <2>3. off \in Int
    BY <1>3
  <2>4. RowsCopied(BoolCopyIn(j, off, h, w, j.s2), h, CeilAlign(CeilAlign(w, j.alignedSize), Block), j.s2, off, w)
    BY ONLY <1>2, <2>3, BoolRows
  <2>. QED  BY <2>1, <2>2, <2>4
<1>5. \A s, a : ValueAt(j, t, s, a) = a
  BY DEF ValueAt
<1>6. \A c : MaskByte(j, c) = c
  BY DEF MaskByte
<1>7. w \in Nat /\ j.op \in {"dropBool", "dropBit"}
  BY <1>2
<1>8. \A r \in 0 .. h - 1, c \in 0 .. w - 1 :
         /\ MaskByte(j, c) \in 0 .. w - 1
         /\ ValueAt(j, t, r * Pitch(j, t) + c, off + r * j.s2 + MaskByte(j, c)) = ScoreGets(j, t, r, c)
  <2>. HIDE DEF off, h, w
  <2>. QED  BY <1>3, <1>5, <1>6
<1>9. MasksFound(j, t, j.s2, off, w)
  BY <1>8 DEF MasksFound
<1>. QED  BY ONLY <1>1, <1>4, <1>7, <1>9, j.unit = "attention", MaskBlock

-----------------------------------------------------------------------------
(* The numbers of a mask of bits: whole bytes.                                                    *)
Bytes(n) == n \div ByteBits
InBytes(n) == n \in Nat /\ Bytes(n) \in Nat /\ n = ByteBits * Bytes(n)

LEMMA WholeBytes == ASSUME NEW n \in Nat, n % ByteBits = 0 PROVE InBytes(n)
<1>1. ByteBits \in Positive
  BY AttentionAssumption DEF Positive
<1>. QED  BY <1>1, CeilOfMultiple, DivMod DEF InBytes, Bytes

LEMMA MultipleOfBytes == ASSUME NEW n, NEW q \in Nat, n = ByteBits * q PROVE n \in Nat /\ n % ByteBits = 0 /\ Bytes(n) = q
<1>1. ByteBits \in Positive /\ ByteBits \in Nat /\ 0 \in 0 .. ByteBits - 1
  BY AttentionAssumption DEF Positive
<1>2. (ByteBits * q + 0) \div ByteBits = q /\ (ByteBits * q + 0) % ByteBits = 0
  BY <1>1, DivModUnique
<1>3. n = ByteBits * q + 0 /\ n \in Nat
  <2>1. q * ByteBits \in Nat /\ q * ByteBits = ByteBits * q
    BY <1>1, MulMonotone
  <2>. QED  BY <2>1
<1>. QED  BY <1>2, <1>3 DEF Bytes

\* The width, the rows and the place of a block in a mask of bits are whole bytes.
LEMMA BitNumbers ==
    ASSUME NEW j, j.unit = "attention", AttentionLegal(j), j.op = "dropBit", NEW t \in Tiles(j)
    PROVE  InBytes(j.s2) /\ InBytes(t.width) /\ InBytes(ComputeDropOffset(j, t))
<1>0. ByteBits \in Nat /\ ByteBits \in Positive
  BY AttentionAssumption DEF Positive
<1>1. BlockNumbers(j, t)
  BY BlockFacts
<1>2. InBytes(j.s2) /\ InBytes(j.start) /\ InBytes(j.n) /\ InBytes(j.baseN)
  <2>1. \A n \in {j.s2, j.start, j.n, j.baseN} : n % ByteBits = 0
    BY DEF AttentionLegal
  <2>2. j.s2 \in Nat /\ j.start \in Nat /\ j.n \in Nat /\ j.baseN \in Nat
    BY DEF AttentionLegal, Grid
  <2>. QED  BY <2>1, <2>2, WholeBytes
<1>3. /\ t.col * j.baseN \in Nat /\ t.col * j.baseN < j.n /\ t.width = Least(j.baseN, j.n - t.col * j.baseN) /\ t.col \in Nat
  <2>1. Grid(j) /\ j.unit \in {"in", "out", "load", "attention"}
    BY DEF AttentionLegal
  <2>. QED  BY <2>1, TileFacts
<1> DEFINE N == Bytes(j.baseN)  n == Bytes(j.n)  S == Bytes(j.s2)  B == Bytes(j.start)  x == t.col * j.baseN  X == t.col * N
<1>4. N \in Nat /\ n \in Nat /\ S \in Nat /\ B \in Nat
        /\ j.baseN = ByteBits * N /\ j.n = ByteBits * n /\ j.s2 = ByteBits * S /\ j.start = ByteBits * B
  BY <1>2 DEF InBytes
<1>. HIDE DEF N, n, S, B
<1>5. X \in Nat /\ x = ByteBits * X
  <2>1. t.col * (ByteBits * N) = ByteBits * (t.col * N)
    BY ONLY <1>0, <1>3, <1>4
  <2>2. t.col * N \in Nat
    BY <1>3, <1>4, MulMonotone
  <2>. QED  BY <1>4, <2>1, <2>2
<1>6. InBytes(t.width)
  <2>1. t.width = j.baseN \/ t.width = j.n - x
    BY <1>3 DEF Least
  <2>2. CASE t.width = j.baseN
    BY <1>2, <2>2
  <2>3. CASE t.width = j.n - x
    <3>. HIDE DEF x, X
    <3>1. X <= n
      <4>. SUFFICES ASSUME n < X PROVE FALSE
        BY <1>4, <1>5
      <4>1. n * ByteBits <= X * ByteBits /\ n * ByteBits = ByteBits * n /\ X * ByteBits = ByteBits * X
        BY <1>0, <1>4, <1>5, MulMonotone
      <4>2. x < j.n /\ x \in Nat /\ j.n \in Nat
        BY <1>2, <1>3 DEF x, InBytes
      <4>. QED  BY <1>4, <1>5, <4>1, <4>2
    <3>2. n - X \in Nat /\ t.width = ByteBits * (n - X)
      <4>1. ByteBits * n - ByteBits * X = ByteBits * (n - X)
        BY ONLY <1>0, <1>4, <1>5
      <4>. QED  BY <1>4, <1>5, <2>3, <3>1, <4>1
    <3>3. t.width \in Nat /\ t.width % ByteBits = 0
      BY <3>2, MultipleOfBytes
    <3>. QED  BY <3>3, WholeBytes
  <2>. QED  BY <2>1, <2>2, <2>3
<1>7. InBytes(ComputeDropOffset(j, t))
  <2> DEFINE head == (j.boIdx * j.n2Size * j.gSize + HeadInBatch(j)) * j.s1  row == FirstRow(j, t)
             q == head * S + row * S + (B + X)
  <2>1. head \in Nat /\ row \in Nat
    <3> DEFINE g == j.boIdx * j.n2Size * j.gSize + HeadInBatch(j)
    <3>1. j.boIdx \in Nat /\ j.n2Size \in Nat /\ j.gSize \in Nat /\ HeadInBatch(j) \in Nat /\ row \in Nat /\ j.s1 \in Nat
      BY <1>1 DEF BlockNumbers
    <3>2. j.boIdx * j.n2Size \in Nat
      BY <3>1, MulMonotone
    <3>3. (j.boIdx * j.n2Size) * j.gSize \in Nat
      BY <3>1, <3>2, MulMonotone
    <3>4. g \in Nat
      BY <3>1, <3>3
    <3>. HIDE DEF g
    <3>5. g * j.s1 \in Nat
      BY <3>1, <3>4, MulMonotone
    <3>. QED  BY <3>1, <3>5 DEF g
  <2>2. ComputeDropOffset(j, t) = head * j.s2 + row * j.s2 + (j.start + x)
    BY DEF ComputeDropOffset, FirstColumn
  <2>. HIDE DEF head, row, x, X
  <2>3. head * S \in Nat /\ row * S \in Nat
    BY <1>4, <2>1, MulMonotone
  <2>4. q \in Nat
    BY <1>4, <1>5, <2>3
  <2>5. head * (ByteBits * S) + row * (ByteBits * S) + (ByteBits * B + ByteBits * X) = ByteBits * q
    BY ONLY <1>0, <1>4, <1>5, <2>1
  <2>. HIDE DEF q
  <2>6. ComputeDropOffset(j, t) = ByteBits * q
    BY <1>4, <1>5, <2>2, <2>5
  <2>7. ComputeDropOffset(j, t) \in Nat /\ ComputeDropOffset(j, t) % ByteBits = 0
    BY <2>4, <2>6, MultipleOfBytes
  <2>. QED  BY <2>7, WholeBytes
<1>. QED  BY <1>2, <1>6, <1>7

\* A bit a score: rows of bytes.
LEMMA BitRows ==
    ASSUME NEW j, NEW off, NEW h \in Nat, NEW w, NEW s2, InBytes(off), InBytes(w), InBytes(s2),
           w <= s2, BitGap(w, s2) <= UInt16Max
    PROVE  RowsCopied(Bit2Int8CopyIn(j, off, h, w, s2), h, CeilAlign(Bytes(w), Block), Bytes(s2), Bytes(off), Bytes(w))
<1> DEFINE W == Bytes(w)  S == Bytes(s2)  F == Bytes(off)  len == CeilDiv(W, Block)
           moves == Bit2Int8CopyIn(j, off, h, w, s2)  M == CeilAlign(W, Block)
<1>1. Block \in Positive /\ Block \in Nat /\ ByteBits \in Positive /\ ByteBits \in Nat
  BY FractalAssumption, AttentionAssumption DEF Positive
<1>2. W \in Nat /\ S \in Nat /\ F \in Nat /\ w \in Nat /\ s2 \in Nat /\ w = ByteBits * W /\ s2 = ByteBits * S
  BY DEF InBytes
<1>3. CeilDiv(w, ByteBits) = W
  <2>1. w % ByteBits = 0
    BY <1>2, MultipleOfBytes
  <2>. QED  BY <1>1, <1>2, <2>1, CeilOfMultiple DEF Bytes
<1>4. (s2 - w) \div ByteBits = S - W
  <2>1. S \in Int /\ W \in Int
    BY <1>2
  <2>. HIDE DEF S, W
  <2>2. Gap(ByteBits, S, W, s2, w)
    BY ONLY <1>1, <1>2, <2>1, GapOfMultiples
  <2>. QED  BY ONLY <2>2 DEF Gap
<1> DEFINE whole == S % Block = 0 /\ W % Block = 0
           gap == IF whole THEN (S - len * Block) \div Block ELSE (s2 - w) \div ByteBits
<1>9. BytesAreBlocks(w, s2) <=> whole
  BY DEF BytesAreBlocks, Bytes
<1>10. BitGap(w, s2) = gap
  BY <1>9 DEF BitGap, Bytes
<1>5. gap \in Nat => moves = IF whole THEN Bursts(0, F, h, len, gap, 0, Block)
                              ELSE PadBursts(F, h, CeilDiv(w, ByteBits), 0, gap, 0, Block)
  <2>1. moves = IF whole THEN Bursts(0, F, h, len, ParamField(gap), 0, Block)
                ELSE PadBursts(F, h, CeilDiv(w, ByteBits), 0, ParamField(gap), 0, Block)
    BY <1>9, <1>10 DEF Bit2Int8CopyIn, Bytes
  <2>2. gap <= UInt16Max
    BY <1>10
  <2>. HIDE DEF moves, gap, F, len, whole
  <2>. QED  BY <2>1, <2>2, FieldKeeps
<1>11. S - W \in Nat
  <2>. SUFFICES ASSUME S < W PROVE FALSE
    BY <1>2
  <2>1. s2 + ByteBits <= w
    <3>. HIDE DEF S, W
    <3>1. S + 1 <= W
      BY <1>2
    <3>2. (S + 1) * ByteBits <= W * ByteBits
      BY <1>1, <1>2, <3>1, MulMonotone
    <3>3. (S + 1) * ByteBits = s2 + ByteBits /\ W * ByteBits = w
      BY <1>1, <1>2
    <3>. QED  BY <3>2, <3>3
  <2>. QED  BY <1>1, <1>2, <2>1 DEF Positive
<1>6. len \in Nat /\ M = len * Block /\ W <= len * Block
  BY <1>1, <1>2, CeilFacts DEF CeilAlign
<1>. HIDE DEF W, S, F, len, M, moves, gap
<1>7. CASE S % Block = 0 /\ W % Block = 0
  <2> DEFINE k == S \div Block
  <2>1. k \in Nat /\ S = Block * k
    BY <1>1, <1>2, <1>7, CeilOfMultiple, DivMod
  <2>. HIDE DEF k
  <2>2. (S - len * Block) \div Block = k - len
    <3>1. k \in Int /\ len \in Int /\ len * Block = Block * len
      BY <1>1, <1>6, <2>1
    <3>2. Gap(Block, k, len, S, len * Block)
      BY ONLY <1>1, <2>1, <3>1, GapOfMultiples
    <3>. QED  BY ONLY <3>2 DEF Gap
  <2>3. M = (len + 0) * Block /\ S = (len + (k - len)) * Block /\ k - len \in Int /\ 0 \in Nat /\ F \in Int
    BY <1>1, <1>2, <1>6, <2>1
  <2>4. RowsCopied(Bursts(0, F, h, len, k - len, 0, Block), h, M, S, F, W)
    BY <1>1, <1>2, <1>6, <2>3, BurstsAreRows
  <2>5. moves = Bursts(0, F, h, len, k - len, 0, Block)
    <3>1. len <= k
      <4>1. W <= Block * k
        BY <1>2, <1>11, <2>1
      <4>. QED  BY <1>1, <1>2, <2>1, <4>1, CeilLeast DEF len
    <3>2. gap = k - len
      BY <1>7, <2>2 DEF gap
    <3>3. gap \in Nat
      BY <1>6, <2>1, <3>1, <3>2
    <3>. QED  BY <1>5, <1>7, <3>2, <3>3
  <2>. QED  BY <2>4, <2>5 DEF moves, M, W, S, F
<1>8. CASE ~(S % Block = 0 /\ W % Block = 0)
  <2>1. moves = PadBursts(F, h, W, 0, S - W, 0, Block)
    <3>1. gap = S - W
      BY <1>4, <1>8 DEF gap
    <3>. QED  BY <1>3, <1>5, <1>8, <1>11, <3>1
  <2>2. M = (CeilDiv(W + 0, Block) + 0) * Block /\ S = W + (S - W) /\ S - W \in Int /\ 0 \in Nat /\ F \in Int
    <3>1. W + 0 = W
      BY <1>2
    <3>2. CeilDiv(W + 0, Block) = len
      BY ONLY <3>1 DEF len
    <3>. QED  BY <1>1, <1>2, <1>6, <3>2
  <2>3. RowsCopied(PadBursts(F, h, W, 0, S - W, 0, Block), h, M, S, F, W)
    BY <1>1, <1>2, <2>2, PadBurstsAreRows
  <2>. QED  BY <2>1, <2>3 DEF moves, M, W, S, F
<1>. QED  BY <1>7, <1>8

\* Several scores a byte.
LEMMA DropBitRight ==
    ASSUME NEW j, j.unit = "attention", AttentionLegal(j), j.op = "dropBit", NEW t \in Tiles(j)
    PROVE  BlockRight(j, t)
<1> DEFINE off == ComputeDropOffset(j, t)  h == t.height  w == t.width  P == Pitch(j, t)
           W == Bytes(w)  S == Bytes(j.s2)  F == Bytes(off)
<1>1. BlockNumbers(j, t)
  BY BlockFacts
<1>2. ByteBits \in Positive /\ ByteBits \in Nat
  BY AttentionAssumption DEF Positive
<1>3. h \in Nat /\ w \in Nat /\ P \in Nat /\ w <= P
  BY <1>1 DEF BlockNumbers
<1>4. InBytes(j.s2) /\ InBytes(w) /\ InBytes(off)
  BY BitNumbers
<1>5. W \in Nat /\ S \in Nat /\ F \in Nat /\ w = ByteBits * W /\ j.s2 = ByteBits * S /\ off = ByteBits * F
  BY <1>4 DEF InBytes
<1>6. \A r \in 0 .. h - 1, c \in 0 .. w - 1 : off + r * j.s2 + c = ScoreGets(j, t, r, c)
  BY <1>1, DropFrom
<1>7. RowsCopied(BlockCopyIn(j, t), h, MaskLastAxis(j, t), S, F, W)
  <2>1. BlockCopyIn(j, t) = Bit2Int8CopyIn(j, off, h, w, j.s2)
    BY DEF BlockCopyIn, CopyInDropMask
  <2>2. MaskLastAxis(j, t) = CeilAlign(W, Block)
    BY DEF MaskLastAxis, Bytes
  <2>4. w <= j.s2 /\ BitGap(w, j.s2) <= UInt16Max
    BY <1>1, GapsFit DEF UntestedGap
  <2>. HIDE DEF off, h, w
  <2>3. RowsCopied(Bit2Int8CopyIn(j, off, h, w, j.s2), h, CeilAlign(W, Block), S, F, W)
    BY <1>3, <1>4, <2>4, BitRows
  <2>. QED  BY <2>1, <2>2, <2>3
<1>8. \A s, a : ValueAt(j, t, s, a) = a * ByteBits + ((s % P) % ByteBits)
  BY DEF ValueAt
<1>9. \A c : MaskByte(j, c) = c \div ByteBits
  BY DEF MaskByte
<1>. HIDE DEF off, h, w, P, W, S, F
<1>10. ASSUME NEW r \in 0 .. h - 1, NEW c \in 0 .. w - 1
       PROVE  /\ MaskByte(j, c) \in 0 .. W - 1
              /\ ValueAt(j, t, r * P + c, F + r * S + MaskByte(j, c)) = ScoreGets(j, t, r, c)
  <2> DEFINE q == c \div ByteBits  x == c % ByteBits
  <2>1. r \in Nat /\ c \in Nat /\ c \in 0 .. P - 1 /\ P \in Positive
    BY <1>3 DEF Positive
  <2>2. q \in Nat /\ x \in 0 .. ByteBits - 1 /\ c = ByteBits * q + x
    BY <1>2, <2>1, DivMod
  <2>3. (r * P + c) % P = c
    <3>1. (P * r + c) % P = c
      BY <2>1, DivModUnique
    <3>2. P * r + c = r * P + c
      BY <1>3, <2>1
    <3>. QED  BY ONLY <3>1, <3>2
  <2>4. ValueAt(j, t, r * P + c, F + r * S + q) = (F + r * S + q) * ByteBits + x
    BY <1>8, <2>3
  <2>. HIDE DEF q, x
  <2>5. q < W
    <3>. SUFFICES ASSUME W <= q PROVE FALSE
      BY <1>5, <2>2
    <3>1. W * ByteBits <= q * ByteBits /\ W * ByteBits = ByteBits * W /\ q * ByteBits = ByteBits * q
      BY <1>2, <1>5, <2>2, MulMonotone
    <3>2. q * ByteBits \in Nat /\ W * ByteBits \in Nat
      BY <1>2, <1>5, <2>2, MulMonotone
    <3> DEFINE y == q * ByteBits  z == W * ByteBits
    <3>3. y \in Nat /\ z \in Nat /\ z <= y /\ c = y + x /\ w = z /\ x \in Nat
      BY <1>5, <2>2, <3>1, <3>2
    <3>. HIDE DEF y, z
    <3>. QED  BY ONLY <3>3, c \in 0 .. w - 1
  <2>6. (F + r * S + q) * ByteBits + x = ByteBits * F + r * (ByteBits * S) + (ByteBits * q + x)
    BY ONLY <1>2, <1>5, <2>1, <2>2
  <2>7. ValueAt(j, t, r * P + c, F + r * S + q) = off + r * j.s2 + c
    BY ONLY <1>5, <2>2, <2>4, <2>6
  <2>8. MaskByte(j, c) = q
    BY ONLY <1>9 DEF q
  <2>9. off + r * j.s2 + c = ScoreGets(j, t, r, c)
    BY ONLY <1>6, r \in 0 .. h - 1, c \in 0 .. w - 1
  <2>. QED  BY ONLY <1>5, <2>2, <2>5, <2>7, <2>8, <2>9
<1>11. W \in Nat /\ j.op \in {"dropBool", "dropBit"}
  BY <1>5
<1>12. \A r \in 0 .. h - 1, c \in 0 .. w - 1 :
         /\ MaskByte(j, c) \in 0 .. W - 1
         /\ ValueAt(j, t, r * P + c, F + r * S + MaskByte(j, c)) = ScoreGets(j, t, r, c)
  BY <1>10
<1>13. MasksFound(j, t, S, F, W)
  BY <1>12 DEF MasksFound, h, w, P
<1>. QED  BY ONLY <1>1, <1>7, <1>11, <1>13, j.unit = "attention", MaskBlock DEF h

-----------------------------------------------------------------------------
(* Attention: an encoding of distances.                                    *)
\* A multiple below another is a whole step below it.
LEMMA StepBelow ==
    ASSUME NEW n \in Positive, NEW a \in Nat, NEW b \in Nat, a % n = 0, b % n = 0, a < b
    PROVE  a + n <= b
<1> DEFINE p == a \div n  q == b \div n
<1>1. n \in Nat /\ p \in Nat /\ q \in Nat /\ a = n * p /\ b = n * q
  BY CeilOfMultiple, DivMod DEF Positive
<1>. HIDE DEF p, q
<1>2. p < q
  <2>. SUFFICES ASSUME q <= p PROVE FALSE
    BY <1>1
  <2>1. q * n <= p * n /\ q * n = n * q /\ p * n = n * p
    BY <1>1, MulMonotone
  <2>. QED  BY <1>1, <2>1
<1>3. p * n + n <= q * n /\ q * n = n * q /\ p * n = n * p
  BY <1>1, <1>2, MulMonotone
<1>. QED  BY <1>1, <1>3

(* The corner a block is read from: within the encoding, at the block's own distances.            *)
CornerRight(j, t) ==
  LET m == AlibiCorner(j, t).m
      k == AlibiCorner(j, t).k
  IN  /\ m \in Nat /\ k \in Nat /\ m + t.height <= j.pseS1 /\ k + t.width <= j.s2
      /\ m - k = FirstRow(j, t) - FirstColumn(j, t) - (j.s2 - j.pseS1)

\* Where sequences have lengths of their own.
LEMMA CornerOfTnd ==
    ASSUME NEW j, AttentionLegal(j), j.op = "alibi", j.layout = "TND", NEW t, BlockNumbers(j, t),
           NeedPseAlibiCompute(j, t)
    PROVE  CornerRight(j, t)
<1> DEFINE row == FirstRow(j, t)  column == FirstColumn(j, t)  p == j.pseS1  s1 == j.s1  s2 == j.s2
           bm == j.baseM  bn == j.baseN  h == t.height  w == t.width
           tnd == row - column - (s2 - p)
<1>1. /\ row \in Nat /\ column \in Nat /\ s1 \in Nat /\ s2 \in Nat /\ bm \in Nat /\ bn \in Nat
      /\ h \in 1 .. bm /\ w \in 1 .. bn /\ row + h <= s1 /\ column + w <= s2
  BY DEF BlockNumbers
<1>2. p \in Nat /\ s1 <= s2 /\ (p <= s2 => bm + bn <= p + 1) /\ (~(p <= s2) => bm + s2 <= p + 1)
  BY DEF AttentionLegal
<1>3. row + bm > column
  BY DEF NeedPseAlibiCompute
<1>4. AlibiCorner(j, t) = IF tnd >= 0 \/ s2 < p THEN [m |-> tnd, k |-> 0] ELSE [m |-> 0, k |-> -tnd]
  BY DEF AlibiCorner
<1>5. CASE tnd >= 0 \/ s2 < p
  <2>1. AlibiCorner(j, t).m = tnd /\ AlibiCorner(j, t).k = 0
    BY <1>4, <1>5
  <2>2. tnd \in Nat /\ tnd + h <= p /\ w <= s2 /\ 0 + w = w /\ tnd - 0 = row - column - (s2 - p)
    <3>. HIDE DEF row, column, p, s1, s2, bm, bn, h, w
    <3>. QED  BY <1>1, <1>2, <1>3, <1>5
  <2>. QED  BY <2>1, <2>2 DEF CornerRight
<1>6. CASE ~(tnd >= 0 \/ s2 < p)
  <2>1. AlibiCorner(j, t).m = 0 /\ AlibiCorner(j, t).k = -tnd
    BY <1>4, <1>6
  <2>2. -tnd \in Nat /\ 0 + h <= p /\ -tnd + w <= s2 /\ 0 - (-tnd) = row - column - (s2 - p)
    <3>. HIDE DEF row, column, p, s1, s2, bm, bn, h, w
    <3>. QED  BY <1>1, <1>2, <1>3, <1>6
  <2>. QED  BY <2>1, <2>2 DEF CornerRight
<1>. QED  BY <1>5, <1>6

\* Where all have one length: behind the last rows, and as many periods of the encoding before.
LEMMA CornerOfRest ==
    ASSUME NEW j, AttentionLegal(j), j.op = "alibi", j.layout # "TND", NEW t, BlockNumbers(j, t),
           NeedPseAlibiCompute(j, t)
    PROVE  CornerRight(j, t)
<1> DEFINE row == FirstRow(j, t)  column == FirstColumn(j, t)  p == j.pseS1  s1 == j.s1  s2 == j.s2
           bm == j.baseM  bn == j.baseN  h == t.height  w == t.width
           threshold == s1 - p  wrapped == row % p  Q == row \div p
<1>1. /\ row \in Nat /\ column \in Nat /\ s1 \in Nat /\ s2 \in Nat /\ bm \in Nat /\ bn \in Nat
      /\ bm \in Positive /\ bn \in Positive
      /\ h \in 1 .. bm /\ w \in 1 .. bn /\ row + h <= s1 /\ column + w <= s2 /\ row % bm = 0
  BY DEF BlockNumbers, Positive
<1>2. p \in Nat /\ p \in Positive /\ s1 = s2 /\ p % bm = 0 /\ p % bn = 0 /\ j.start % bn = 0
  BY DEF AttentionLegal, Positive
<1>3. row + bm > column
  BY DEF NeedPseAlibiCompute
<1>4. AlibiCorner(j, t) = IF row >= threshold THEN [m |-> row - threshold, k |-> column]
                          ELSE [m |-> wrapped, k |-> s2 - (row - column) - (p - wrapped)]
  BY DEF AlibiCorner
<1>5. CASE row >= threshold
  <2>1. AlibiCorner(j, t).m = row - threshold /\ AlibiCorner(j, t).k = column
    BY <1>4, <1>5
  <2>2. row - threshold \in Nat /\ row - threshold + h <= p /\ (row - threshold) - column = row - column - (s2 - p)
    <3>. HIDE DEF row, column, p, s1, s2, bm, bn, h, w
    <3>. QED  BY <1>1, <1>2, <1>5
  <2>. QED  BY <1>1, <2>1, <2>2 DEF CornerRight
<1>6. CASE ~(row >= threshold)
  <2> DEFINE k == s2 - (row - column) - (p - wrapped)  x == p * Q
  <2>1. AlibiCorner(j, t).m = wrapped /\ AlibiCorner(j, t).k = k
    BY <1>4, <1>6
  <2>2. column % bn = 0
    <3>1. column = j.start + t.col * bn
      BY DEF FirstColumn
    <3>2. j.start \in Nat /\ t.col \in Nat
      BY DEF BlockNumbers
    <3> DEFINE d == j.start \div bn
    <3>3. d \in Nat /\ j.start = bn * d
      BY <1>1, <1>2, <3>2, CeilOfMultiple, DivMod
    <3>. HIDE DEF d, column, bn
    <3>6. bn * d + t.col * bn = bn * (d + t.col) + 0
      BY ONLY <1>1, <3>2, <3>3
    <3>4. column = bn * (d + t.col) + 0 /\ d + t.col \in Nat /\ 0 \in 0 .. bn - 1
      BY ONLY <1>1, <3>1, <3>2, <3>3, <3>6 DEF Positive
    <3>5. (bn * (d + t.col) + 0) % bn = 0
      BY <1>1, <3>4, DivModUnique
    <3>. QED  BY <3>4, <3>5
  <2>. HIDE DEF row, column, p, s1, s2, bm, bn, h, w
  <2>3. wrapped \in 0 .. p - 1 /\ Q \in Nat /\ row = x + wrapped
    BY <1>1, <1>2, DivMod
  <2>4. x \in Nat /\ x % p = 0
    <3>1. x = p * Q + 0 /\ 0 \in 0 .. p - 1
      <4>1. p * Q \in Nat
        BY <1>2, <2>3, MulMonotone
      <4>. QED  BY <1>2, <2>3, <4>1
    <3>2. (p * Q + 0) % p = 0
      BY <1>2, <2>3, <3>1, DivModUnique
    <3>3. p * Q \in Nat
      BY <1>2, <2>3, MulMonotone
    <3>. QED  BY <3>1, <3>2, <3>3
  <2>. HIDE DEF x, wrapped, Q
  <2>5. x + p \in Nat /\ (x + p) % p = 0
    <3> DEFINE d == x \div p
    <3>1. d \in Nat /\ x = p * d
      BY <1>2, <2>4, CeilOfMultiple, DivMod
    <3>. HIDE DEF d
    <3>4. p * d + p = p * (d + 1) + 0
      BY ONLY <1>2, <3>1
    <3>2. x + p = p * (d + 1) + 0 /\ d + 1 \in Nat /\ 0 \in 0 .. p - 1
      BY ONLY <1>2, <3>1, <3>4 DEF Positive
    <3>3. (p * (d + 1) + 0) % p = 0
      BY <1>2, <3>2, DivModUnique
    <3>. QED  BY <1>2, <2>4, <3>2, <3>3
  <2>6. (x + p) % bm = 0 /\ (x + p) % bn = 0
    BY <1>1, <1>2, <2>5, MultipleOfMultiple
  <2>7. row + bm <= x + p
    <3>1. row < x + p
      BY <1>1, <1>2, <2>3, <2>4
    <3>. QED  BY <1>1, <2>5, <2>6, <3>1, StepBelow
  <2>8. column + bn <= x + p
    <3>1. column < x + p
      BY <1>1, <1>2, <1>3, <2>4, <2>7
    <3>. QED  BY <1>1, <2>2, <2>5, <2>6, <3>1, StepBelow
  <2>9. wrapped \in Nat /\ wrapped + h <= p /\ k \in Nat /\ k + w <= s2 /\ wrapped - k = row - column - (s2 - p)
    BY <1>1, <1>2, <1>6, <2>3, <2>4, <2>7, <2>8
  <2>. QED  BY <2>1, <2>9 DEF CornerRight, row, column, p, s2, h, w
<1>. QED  BY <1>5, <1>6

\* What is read in row x and column y of a head's encoding, with rows of s and p rows a head.
ReadAt(a, head, p, s, x, y) == a \div (p * s) = head /\ (a % (p * s)) \div s = x /\ a % s = y
LEMMA Reading ==
    ASSUME NEW head \in Nat, NEW p \in Nat, NEW s \in Nat, NEW x \in 0 .. p - 1, NEW y \in 0 .. s - 1,
           NEW a, a = head * s * p + x * s + y
    PROVE  ReadAt(a, head, p, s, x, y)
<1>1. p \in Positive /\ s \in Positive /\ p > 0 /\ s > 0 /\ x \in Nat /\ y \in Nat /\ p \in Int /\ s \in Int
  BY DEF Positive
<1> DEFINE b == p * s  z == x * s + y
<1>2. b \in Positive /\ z \in 0 .. b - 1
  <2>1. RowMajorAt(s, x, y) \in 0 .. p * s - 1
    BY RowMajorRange
  <2>2. p * s \in Nat
    BY MulMonotone
  <2>. QED  BY <2>1, <2>2 DEF RowMajorAt, Positive
<1>3. a = b * head + z
  <2>1. head * s * p + x * s + y = (p * s) * head + (x * s + y)
    BY ONLY <1>1, head \in Nat
  <2>. QED  BY <2>1
<1>4. z = s * x + y /\ a = s * (p * head + x) + y /\ p * head + x \in Nat
  <2>1. x * s + y = s * x + y /\ head * s * p + x * s + y = s * (p * head + x) + y
    BY ONLY <1>1, head \in Nat
  <2>2. p * head \in Nat
    BY MulMonotone
  <2>. QED  BY <1>1, <2>1, <2>2
<1>. HIDE DEF b, z
<1>5. (b * head + z) \div b = head /\ (b * head + z) % b = z
  BY <1>2, DivModUnique
<1>6. (s * x + y) \div s = x /\ (s * x + y) % s = y
  BY <1>1, DivModUnique
<1>7. (s * (p * head + x) + y) % s = y
  BY <1>1, <1>4, DivModUnique
<1>8. a \div b = head /\ (a % b) \div s = x
  BY ONLY <1>3, <1>4, <1>5, <1>6
<1>9. a % s = y
  BY ONLY <1>4, <1>7
<1>. QED  BY <1>8, <1>9 DEF ReadAt, b

\* The part of an encoding of distances that a block needs.
LEMMA AlibiRight ==
    ASSUME NEW j, j.unit = "attention", AttentionLegal(j), j.op = "alibi", NEW t \in Tiles(j)
    PROVE  BlockRight(j, t)
<1> DEFINE row == FirstRow(j, t)  column == FirstColumn(j, t)  p == j.pseS1  s2 == j.s2  P == Pitch(j, t)
           h == t.height  w == t.width  m == AlibiCorner(j, t).m  k == AlibiCorner(j, t).k
           head == j.boIdx * j.n2Size * j.gSize + HeadInBatch(j)
           shared == IF j.pseBSize = 1 THEN HeadInBatch(j) ELSE head
           off == PseAlibiComputeOffset(j, t)  len == ReadS2Size(j, t)
<1>1. BlockNumbers(j, t)
  BY BlockFacts
<1>2. /\ row \in Nat /\ column \in Nat /\ s2 \in Nat /\ h \in Nat /\ w \in Nat /\ P \in Nat /\ w <= P
      /\ h <= j.baseM /\ j.baseM \in Nat
  BY <1>1 DEF BlockNumbers
<1>3. CASE ~NeedPseAlibiCompute(j, t)
  <2>1. Applied(j, t) = {} /\ BlockCopyIn(j, t) = {}
    BY <1>3 DEF Applied, PseAlibiCompute, BlockCopyIn, PseAlibiCopyIn
  <2>2. Cells(j, t) = {}
    <3>. SUFFICES ASSUME NEW rc \in Cells(j, t) PROVE FALSE
      OBVIOUS
    <3>1. rc[1] \in 0 .. h - 1 /\ rc[2] \in 0 .. w - 1 /\ ScoreNeeded(j, t, rc[1], rc[2])
      BY DEF Cells
    <3>2. column + rc[2] <= row + rc[1]
      BY <3>1 DEF ScoreNeeded
    <3>3. ~(row + j.baseM > column)
      BY <1>3 DEF NeedPseAlibiCompute
    <3>. HIDE DEF row, column, h, w
    <3>. QED  BY <1>2, <3>1, <3>2, <3>3
  <2>. QED  BY <2>1, <2>2, FS_EmptySet DEF BlockRight, Clean
<1>4. CASE NeedPseAlibiCompute(j, t)
  <2>1. CornerRight(j, t)
    BY <1>1, <1>4, CornerOfTnd, CornerOfRest
  <2>2. m \in Nat /\ k \in Nat /\ m + h <= p /\ k + w <= s2 /\ m - k = row - column - (s2 - p)
    BY <2>1 DEF CornerRight
  <2>3. p \in Nat /\ j.size \in {2, 4} /\ Cube % 2 = 0 /\ (j.align8 => j.size = 2)
    BY DEF AttentionLegal
  <2>4. Cube \in Positive /\ (IF j.align8 THEN C0(j.size) ELSE Cube) = Cube
    BY <2>3, C0OfHalf, FractalAssumption DEF Positive
  <2>5. P = CeilAlign(w, Cube)
    BY <2>4 DEF Pitch
  <2>6. len \in Nat /\ w <= len /\ CeilAlign(len, Cube) = P
    <3>1. len = Least(P, s2 - k)
      BY DEF ReadS2Size
    <3>. HIDE DEF len, k, m, P, w, h, s2, row, column, p
    <3>2. len \in Nat /\ w <= len /\ len <= P
      BY <1>2, <2>2, <3>1 DEF Least
    <3> DEFINE q == CeilDiv(w, Cube)
    <3>3. q \in Nat /\ P = Cube * q /\ P < w + Cube
      BY <1>2, <2>4, <2>5, CeilFacts
    <3>. HIDE DEF q
    <3>4. CeilDiv(len, Cube) = q
      <4>1. len <= Cube * q /\ Cube * q < len + Cube
        BY <1>2, <2>4, <3>2, <3>3 DEF Positive
      <4>. QED  BY <2>4, <3>2, <3>3, <4>1, CeilUnique
    <3>5. CeilAlign(len, Cube) = Cube * q
      BY <2>4, <3>2, <3>4, CeilFacts
    <3>. QED  BY <3>2, <3>3, <3>5
  <2>7. shared \in Nat /\ off = shared * s2 * p + m * s2 + k
    <3> DEFINE b == j.boIdx % j.pseBSize  n == j.n2Size  g == j.gSize  hb == HeadInBatch(j)
    <3>1. off = (b * n * g + hb) * s2 * p + m * s2 + k
      BY DEF PseAlibiComputeOffset
    <3>2. j.boIdx \in Nat /\ n \in Nat /\ g \in Nat /\ hb \in Nat /\ j.pseBSize \in Nat \ {0}
            /\ (j.pseBSize = 1 \/ j.boIdx < j.pseBSize)
      BY <1>1 DEF BlockNumbers, AttentionLegal
    <3>3. b = IF j.pseBSize = 1 THEN 0 ELSE j.boIdx
      BY <3>2
    <3>. HIDE DEF b, n, g, hb, s2, p, m, k, off
    <3>4. b * n * g + hb = shared
      <4>1. CASE j.pseBSize = 1
        <5>1. 0 * n * g + hb = hb
          BY <3>2
        <5>. QED  BY <3>3, <4>1, <5>1 DEF hb
      <4>2. CASE j.pseBSize # 1
        BY <3>3, <4>2 DEF n, g, hb
      <4>. QED  BY <4>1, <4>2
    <3>5. shared \in Nat
      <4>1. b \in Nat
        BY <3>2, <3>3
      <4>2. b * n \in Nat
        BY <3>2, <4>1, MulMonotone
      <4>3. (b * n) * g \in Nat
        BY <3>2, <4>2, MulMonotone
      <4>. HIDE DEF shared
      <4>. QED  BY <3>2, <3>4, <4>3
    <3>. HIDE DEF shared
    <3>. QED  BY ONLY <3>1, <3>4, <3>5
  <2>8. Applied(j, t) = Flat(t.height * Pitch(j, t))
    <3>1. Applied(j, t) = Flat(t.height * PseS2ComputeSize(j, t))
      BY <1>4 DEF Applied, PseAlibiCompute
    <3>2. PseS2ComputeSize(j, t) = Pitch(j, t)
      BY <2>6 DEF PseS2ComputeSize
    <3>. QED  BY ONLY <3>1, <3>2
  <2>9. off \in Int
    <3>1. p \in Int /\ s2 \in Int /\ m \in Int /\ k \in Int /\ shared \in Int
      BY <1>2, <2>2, <2>3, <2>7
    <3>. HIDE DEF off, shared, s2, p, m, k
    <3>. QED  BY ONLY <2>7, <3>1
  <2>10. RowsCopied(BlockCopyIn(j, t), t.height, Pitch(j, t), j.s2, off, len)
    <3>1. BlockCopyIn(j, t) = CopyRows(j, off, h, len, s2)
      BY <1>4 DEF BlockCopyIn, PseAlibiCopyIn
    <3>4. len <= s2 /\ SourceGap(j, len, s2) <= UInt16Max
      <4>1. SourceGap(j, len, s2) <= UInt16Max
        BY <1>1, <1>4, GapsFit DEF UntestedGap
      <4>2. len = Least(P, s2 - k)
        BY DEF ReadS2Size
      <4>. HIDE DEF len, k, P, s2
      <4>. QED  BY <1>2, <2>2, <4>1, <4>2 DEF Least
    <3>. HIDE DEF off, len
    <3>2. RowsCopied(CopyRows(j, off, h, len, s2), h, CeilAlign(len, IF j.align8 THEN C0(j.size) ELSE Cube), s2, off, len)
      <4>1. j.size \in {2, 4} /\ (j.size = 4 => Cube % 2 = 0)
        BY <2>3
      <4>. HIDE DEF h, s2
      <4>. QED  BY <1>2, <2>6, <2>9, <3>4, <4>1, CopiedRows
    <3>3. CeilAlign(len, IF j.align8 THEN C0(j.size) ELSE Cube) = P
      BY ONLY <2>4, <2>6
    <3>. QED  BY <3>1, <3>2, <3>3
  <2>11. \A s, a : ValueAt(j, t, s, a) = <<a \div (p * s2), ((a % (p * s2)) \div s2) - (a % s2)>>
    BY DEF ValueAt
  <2>12. \A r, c : ScoreGets(j, t, r, c) = <<shared, (row + r) - (column + c) - (s2 - p)>>
    BY DEF ScoreGets
  <2>13. ASSUME NEW r \in 0 .. h - 1, NEW c \in 0 .. w - 1
         PROVE  ValueAt(j, t, r * Pitch(j, t) + c, off + r * j.s2 + c) = ScoreGets(j, t, r, c)
    <3> DEFINE a == off + r * s2 + c  x == m + r  y == k + c
    <3>1. r \in Nat /\ c \in Nat
      OBVIOUS
    <3>. HIDE DEF off, shared, s2, p, m, k, row, column, h, w
    <3>2. x \in 0 .. p - 1 /\ y \in 0 .. s2 - 1
      BY <1>2, <2>2, <2>3
    <3>3. shared * s2 * p + m * s2 + k + r * s2 + c = shared * s2 * p + (m + r) * s2 + (k + c)
      BY ONLY <1>2, <2>2, <2>3, <2>7, <3>1
    <3>4. a = shared * s2 * p + x * s2 + y
      BY ONLY <2>7, <3>3
    <3>5. x - y = (row + r) - (column + c) - (s2 - p)
      BY ONLY <1>2, <2>2, <2>3, <3>1
    <3>. HIDE DEF a, x, y
    <3>6. ReadAt(a, shared, p, s2, x, y)
      BY ONLY <1>2, <2>3, <2>7, <3>2, <3>4, Reading
    <3>7. ValueAt(j, t, r * Pitch(j, t) + c, a) = <<shared, x - y>>
      BY ONLY <2>11, <3>6 DEF ReadAt
    <3>8. ValueAt(j, t, r * Pitch(j, t) + c, a) = ScoreGets(j, t, r, c)
      BY ONLY <2>12, <3>5, <3>7
    <3>. QED  BY ONLY <3>8 DEF a, s2
  <2>14. \A r \in 0 .. t.height - 1, c \in 0 .. t.width - 1 : ScoreNeeded(j, t, r, c) =>
           ValueAt(j, t, r * Pitch(j, t) + c, off + r * j.s2 + c) = ScoreGets(j, t, r, c)
    BY ONLY <2>13 DEF h, w
  <2>15. len \in Nat /\ t.width <= len
    BY <2>6
  <2>. HIDE DEF off, len
  <2>. QED  BY ONLY <1>1, <2>8, <2>10, <2>14, <2>15, j.unit = "attention", FlatBlock
<1>. QED  BY <1>3, <1>4

-----------------------------------------------------------------------------
\* Whatever side input of attention.
LEMMA AttentionSound == ASSUME NEW j, j.unit = "attention", AttentionLegal(j) PROVE Sound(j)
<1>1. Grid(j)
  BY DEF AttentionLegal
<1>2. j.op \in {"pse", "alibi", "slope", "dropBool", "dropBit"} /\ (j.op = "pse" => j.shape \in {"S1S2", "1S2"})
  BY DEF AttentionLegal
<1>3. \A t \in Tiles(j) : BlockRight(j, t)
  BY <1>2, PseRowsRight, PseRowRight, SlopeRight, AlibiRight, DropBoolRight, DropBitRight
<1>. QED  BY <1>1, <1>3, AttentionSoundIfRight

-----------------------------------------------------------------------------
(* The theorems.                                                           *)
\* Copies into L1, into L0 and out of L0C are sound, and so are a kernel's own copies, the tiles of an operand and
\* the side inputs of attention, whatever the job.
LEMMA CopiesSound == ASSUME NEW j \in Jobs PROVE Sound(j)
<1>1. CASE j.unit = "in" /\ InLegal(j)
  BY <1>1, InSound
<1>2. CASE j.unit = "out" /\ OutLegal(j)
  BY <1>2, OutSound
<1>3. CASE j.unit = "load" /\ LoadLegal(j)
  BY <1>3, LoadSound
<1>4. CASE j.unit = "operand" /\ OperandLegal(j)
  BY <1>4, OperandSound
<1>5. CASE j.unit = "iterator" /\ IterLegal(j)
  BY <1>5, IterSound
<1>6. CASE j.unit = "attention" /\ AttentionLegal(j)
  BY <1>6, AttentionSound
<1>. QED  BY <1>1, <1>2, <1>3, <1>4, <1>5, <1>6, JobsAssumption

\* Whatever the shape, the tiling and the order of the tiles: a tile copied into L1, into L0, out of L0C or to
\* the vector cores, found in global memory by its indices, or copied to be applied to the scores of attention has
\* each of its cells at its place, and no later tile writes over it.  A use is one of JobsAssumption: in particular
\* the gaps that attention's copies store untested fit their 16 bits.
THEOREM CopiesPutEachCell == Spec => []EachCellInPlace
<1>1. Spec => []MemoryInv
  BY MemoryInit, MemoryStep, PTL DEF Spec
<1>2. MemoryInv => EachCellInPlace
  BY CopiesSound, MemoryRight DEF MemoryInv
<1>. QED  BY <1>1, <1>2, PTL

\* And nothing outside the result, or the tile's own buffer, is written.
THEOREM CopiesStayInside == Spec => []NothingElseWritten
<1>1. Spec => []MemoryInv
  BY MemoryInit, MemoryStep, PTL DEF Spec
<1>2. MemoryInv => NothingElseWritten
  BY CopiesSound, MemoryRight DEF MemoryInv
<1>. QED  BY <1>1, <1>2, PTL
=============================================================================
