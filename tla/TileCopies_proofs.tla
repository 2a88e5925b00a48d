-------------------------- MODULE TileCopies_proofs --------------------------
(***************************************************************************)
(* A tile that is sound by itself (Sound) puts its cells where they        *)
(* belong, stays in its room, and writes nothing that another tile writes. *)
(* Then the memory is the union of the moves of the copied tiles, and it   *)
(* is right, whatever their order.  The copies into L1, out of L0C and     *)
(* into L0 are sound: from what one instruction moves and where the        *)
(* formats put a cell.                                                     *)
(***************************************************************************)
EXTENDS TileMovement, FiniteSetTheorems, NumberLemmas, TLAPS

(* The elements a set of moves writes are written once, and there are finitely many. *)
Clean(moves) == IsFiniteSet(moves) /\ \A x, y \in moves : x[1] = y[1] => x = y

(* What makes the copies of a job right, tile by tile: a tile writes every place once, each of    *)
(* its cells to where it belongs, nothing outside the result, and no place that another one does. *)
Sound(j) ==
  \A t \in Tiles(j) :
    /\ Clean(Moves(j, t))
    /\ \A rc \in Cells(j, t) : <<PlaceOf(j, t, rc[1], rc[2]), SourceOf(j, t, rc[1], rc[2])>> \in Moves(j, t)
    /\ \A x \in Moves(j, t) : x[1] \in RoomOf(j, t)
    /\ \A u \in Tiles(j) \ {t} : \A x \in Moves(j, t), y \in Moves(j, u) : x[1] # y[1]

(* The inductive invariant: the memory is what the copied tiles have moved. *)
MemoryInv ==
  /\ job \in Jobs
  /\ Sound(job) =>
       /\ todo \subseteq Tiles(job)
       /\ mem = UNION {Moves(job, t) : t \in Done}
       /\ IsFiniteSet(mem)

-----------------------------------------------------------------------------
\* The image of a finite set is finite.
LEMMA ImageFinite ==
    ASSUME NEW S, IsFiniteSet(S), NEW f
    PROVE  IsFiniteSet({f[x] : x \in S})
<1> DEFINE T == {f[x] : x \in S}
           g == [x \in S |-> f[x]]
<1>1. g \in Surjection(S, T)
  BY DEF Surjection
<1>. QED  BY <1>1, FS_Surjection

\* A set of pairs without two of one first component has as many of these as pairs.
LEMMA FunctionalCardinality ==
    ASSUME NEW S, Clean(S)
    PROVE  Cardinality({e[1] : e \in S}) = Cardinality(S)
<1> DEFINE T == {e[1] : e \in S}
           g == [e \in S |-> e[1]]
<1>1. g \in Surjection(S, T)
  BY DEF Surjection
<1>2. g \in Injection(S, T)
  BY DEF Injection, IsInjective, Clean
<1>. QED  BY <1>1, <1>2, FS_Surjection DEF Clean

\* The union of clean sets that write different places is clean, if it is finite.
LEMMA MemoryClean ==
    ASSUME MemoryInv, Sound(job)
    PROVE  Clean(mem)
<1>1. SUFFICES ASSUME NEW x \in mem, NEW y \in mem, x[1] = y[1] PROVE x = y
  BY DEF Clean, MemoryInv
<1>2. PICK t \in Done : x \in Moves(job, t)
  BY DEF MemoryInv
<1>3. PICK u \in Done : y \in Moves(job, u)
  BY DEF MemoryInv
<1>4. t \in Tiles(job) /\ u \in Tiles(job)
  BY DEF Done
<1>5. t = u
  BY <1>1, <1>2, <1>3, <1>4 DEF Sound
<1>. QED  BY <1>1, <1>2, <1>3, <1>4, <1>5 DEF Sound, Clean

\* Nothing is written before the first tile is copied.
LEMMA MemoryInit == Init => MemoryInv
<1>. SUFFICES ASSUME Init PROVE MemoryInv
  OBVIOUS
<1>1. Done = {}
  BY DEF Init, Done
<1>. QED  BY <1>1, FS_EmptySet DEF Init, MemoryInv

\* A tile's moves join the memory and replace nothing of it.
LEMMA MemoryStep == MemoryInv /\ [Next]_vars => MemoryInv'
<1>. SUFFICES ASSUME MemoryInv, [Next]_vars PROVE MemoryInv'
  OBVIOUS
<1>1. CASE UNCHANGED vars
  BY <1>1, Zenon DEF MemoryInv, vars, Done
<1>2. ASSUME NEW t \in Tiles(job), CopyTile(t) PROVE MemoryInv'
  <2>1. job' = job /\ job \in Jobs /\ t \in todo /\ todo' = todo \ {t}
    BY <1>2 DEF CopyTile, MemoryInv
  <2>2. SUFFICES ASSUME Sound(job)
                 PROVE  /\ todo' \subseteq Tiles(job)
                        /\ mem' = UNION {Moves(job, u) : u \in Tiles(job) \ todo'}
                        /\ IsFiniteSet(mem')
    BY <2>1, Zenon DEF MemoryInv, Done
  <2>3. todo \subseteq Tiles(job) /\ mem = UNION {Moves(job, u) : u \in Done} /\ IsFiniteSet(mem)
    BY <2>2 DEF MemoryInv
  <2>4. \A e \in mem : e[1] \notin {mv[1] : mv \in Moves(job, t)}
    <3>1. SUFFICES ASSUME NEW e \in mem, NEW mv \in Moves(job, t), e[1] = mv[1] PROVE FALSE
      OBVIOUS
    <3>2. PICK u \in Done : e \in Moves(job, u)
      BY <2>3
    <3>3. u # t /\ u \in Tiles(job)
      BY <2>1, <3>2 DEF Done
    <3>. QED  BY <2>2, <3>1, <3>2, <3>3 DEF Sound
  <2>5. mem' = mem \cup Moves(job, t)
    <3>1. mem' = {e \in mem : e[1] \notin {mv[1] : mv \in Moves(job, t)}} \cup Moves(job, t)
      BY <1>2, Zenon DEF CopyTile
    <3>. QED  BY <2>4, <3>1
  <2>6. Tiles(job) \ todo' = Done \cup {t}
    BY <2>1, <2>3 DEF Done
  <2>7. IsFiniteSet(mem')
    BY <2>2, <2>3, <2>5, FS_Union DEF Sound, Clean
  <2>8. mem' = UNION {Moves(job, u) : u \in Done \cup {t}}
    BY <2>3, <2>5
  <2>. QED  BY <2>1, <2>3, <2>6, <2>7, <2>8
<1>. QED  BY <1>1, <1>2 DEF Next

\* The cells of the copied tiles are in the memory, and all of it is in their rooms.
LEMMA MemoryRight == MemoryInv /\ Sound(job) => EachCellInPlace /\ NothingElseWritten
<1>. SUFFICES ASSUME MemoryInv, Sound(job) PROVE EachCellInPlace /\ NothingElseWritten
  OBVIOUS
<1>1. mem = UNION {Moves(job, t) : t \in Done} /\ Done \subseteq Tiles(job)
  BY DEF MemoryInv, Done
<1>2. \A t \in Done : \A rc \in Cells(job, t) :
        <<PlaceOf(job, t, rc[1], rc[2]), SourceOf(job, t, rc[1], rc[2])>> \in mem
  <2>. SUFFICES ASSUME NEW t \in Done, NEW rc \in Cells(job, t)
                PROVE  <<PlaceOf(job, t, rc[1], rc[2]), SourceOf(job, t, rc[1], rc[2])>> \in mem
    OBVIOUS
  <2>1. <<PlaceOf(job, t, rc[1], rc[2]), SourceOf(job, t, rc[1], rc[2])>> \in Moves(job, t)
    BY <1>1 DEF Sound
  <2>. QED  BY <1>1, <2>1
<1>3. EachCellInPlace
  BY <1>2, MemoryClean, FunctionalCardinality DEF EachCellInPlace
<1>4. NothingElseWritten
  <2>. SUFFICES ASSUME NEW e \in mem PROVE \E t \in Done : e[1] \in RoomOf(job, t)
    BY DEF NothingElseWritten
  <2>1. PICK t \in Done : e \in Moves(job, t)
    BY <1>1
  <2>. QED  BY <1>1, <2>1 DEF Sound
<1>. QED  BY <1>3, <1>4

\* So a job whose copies are sound tile by tile is copied right in every order.
LEMMA SoundJobsCopyRight == Spec => [](Sound(job) => EachCellInPlace /\ NothingElseWritten)
<1>1. Spec => []MemoryInv
  BY MemoryInit, MemoryStep, PTL DEF Spec
<1>. QED  BY <1>1, MemoryRight, PTL

-----------------------------------------------------------------------------
(* Numbers: rounding up, places in row-major and column-block layouts.     *)
\* Rounding up: to the next multiple, and to no later one.
LEMMA CeilFacts ==
    ASSUME NEW a \in Nat, NEW b \in Positive
    PROVE  /\ CeilDiv(a, b) \in Nat
           /\ CeilAlign(a, b) \in Nat
           /\ CeilAlign(a, b) = b * CeilDiv(a, b)
           /\ a <= CeilAlign(a, b)
           /\ CeilAlign(a, b) < a + b
           /\ CeilAlign(a, b) % b = 0
           /\ \A r \in 0 .. CeilDiv(a, b) - 1 : r * b < a
<1> DEFINE q == CeilDiv(a, b)
           x == (a + b - 1) % b
<1>1. q \in Nat /\ x \in 0 .. b - 1 /\ a + b - 1 = b * q + x
  BY DivMod, a + b - 1 \in Nat DEF CeilDiv, Positive
<1>2. CeilAlign(a, b) = b * q
  BY <1>1 DEF CeilAlign, Positive
<1>. HIDE DEF q, x
<1>3. b * q \in Nat
  BY <1>1 DEF Positive
<1>4. (b * q) % b = 0
  <2>1. 0 \in 0 .. b - 1
    BY DEF Positive
  <2>2. (b * q + 0) % b = 0
    BY <1>1, <2>1, DivModUnique
  <2>. QED  BY <1>3, <2>2
<1>5. \A r \in 0 .. q - 1 : r * b < a
  <2>. SUFFICES ASSUME NEW r \in 0 .. q - 1 PROVE r * b < a
    OBVIOUS
  <2>1. r * b + b <= q * b
    BY <1>1, MulMonotone DEF Positive
  <2>2. q * b = b * q /\ r * b \in Nat
    BY <1>1 DEF Positive
  <2>. QED  BY <1>1, <2>1, <2>2 DEF Positive
<1>. QED  BY <1>1, <1>2, <1>3, <1>4, <1>5 DEF q, Positive

\* Rounding up never passes a multiple.
LEMMA CeilLeast ==
    ASSUME NEW a \in Nat, NEW b \in Positive, NEW k \in Nat, a <= b * k
    PROVE  CeilDiv(a, b) <= k /\ CeilAlign(a, b) <= b * k
<1> DEFINE q == CeilDiv(a, b)
<1>1. q \in Nat /\ CeilAlign(a, b) = b * q /\ b * q < a + b
  BY CeilFacts
<1>. HIDE DEF q
<1>2. SUFFICES q <= k
  BY <1>1, MulMonotone, q * b = b * q, k * b = b * k DEF Positive, q
<1>3. SUFFICES ASSUME k < q PROVE FALSE
  BY <1>1
<1>4. k * b + b <= q * b
  BY <1>1, <1>3, MulMonotone DEF Positive
<1>5. k * b = b * k /\ q * b = b * q /\ b * k \in Nat /\ b * q \in Nat
  BY <1>1 DEF Positive
<1>. QED  BY <1>1, <1>4, <1>5 DEF Positive

\* A multiple is rounded to itself.
LEMMA CeilOfMultiple ==
    ASSUME NEW a \in Nat, NEW b \in Positive, a % b = 0
    PROVE  CeilAlign(a, b) = a /\ a = b * (a \div b) /\ CeilDiv(a, b) = a \div b
<1>1. a \div b \in Nat /\ a = b * (a \div b)
  BY DivMod DEF Positive
<1>2. CeilDiv(a, b) <= a \div b
  BY <1>1, CeilLeast
<1>3. CeilAlign(a, b) = b * CeilDiv(a, b) /\ a <= CeilAlign(a, b) /\ CeilDiv(a, b) \in Nat
  BY CeilFacts
<1> DEFINE q == a \div b  p == CeilDiv(a, b)
<1>. HIDE DEF q, p
<1>4. q <= p
  <2>1. SUFFICES ASSUME p < q PROVE FALSE
    BY <1>1, <1>3 DEF p, q
  <2>2. p * b + b <= q * b
    BY <1>1, <1>3, <2>1, MulMonotone DEF Positive, p, q
  <2>3. p * b = b * p /\ q * b = b * q /\ b * p \in Nat /\ b * q \in Nat
    BY <1>1, <1>3 DEF Positive, p, q
  <2>4. b * q <= b * p
    BY <1>1, <1>3 DEF p, q
  <2>. QED  BY <2>2, <2>3, <2>4 DEF Positive
<1>5. q = p
  BY <1>1, <1>2, <1>3, <1>4 DEF p, q
<1>. QED  BY <1>1, <1>3, <1>5 DEF p, q

\* A row-major address is found again from its row and its column.
LEMMA RowMajorInjective ==
    ASSUME NEW s \in Nat, NEW r1 \in Nat, NEW r2 \in Nat, NEW c1 \in 0 .. s - 1, NEW c2 \in 0 .. s - 1,
           RowMajorAt(s, r1, c1) = RowMajorAt(s, r2, c2)
    PROVE  r1 = r2 /\ c1 = c2
<1>1. s \in Positive
  BY DEF Positive
<1>2. RowMajorAt(s, r1, c1) = s * r1 + c1 /\ RowMajorAt(s, r2, c2) = s * r2 + c2
  BY DEF RowMajorAt
<1>3. r1 = (s * r1 + c1) \div s /\ c1 = (s * r1 + c1) % s
  BY <1>1, DivModUnique
<1>4. r2 = (s * r2 + c2) \div s /\ c2 = (s * r2 + c2) % s
  BY <1>1, DivModUnique
<1>. QED  BY <1>2, <1>3, <1>4

\* Rows of a matrix h rows high end before h * s.
LEMMA RowMajorRange ==
    ASSUME NEW s \in Nat, NEW h \in Nat, NEW r \in 0 .. h - 1, NEW c \in 0 .. s - 1
    PROVE  RowMajorAt(s, r, c) \in 0 .. h * s - 1
<1>1. r * s + s <= h * s /\ r * s \in Nat /\ h * s \in Nat
  BY MulMonotone
<1>. QED  BY <1>1 DEF RowMajorAt

\* The address in column blocks, as a number of rows of a block and a place in the row.
LEMMA NzForm ==
    ASSUME NEW h \in Int, NEW c0 \in Positive, NEW r \in Int, NEW c \in Nat
    PROVE  /\ NzAt(h, c0, r, c) = RowMajorAt(c0, RowMajorAt(h, c \div c0, r), c % c0)
           /\ c \div c0 \in Nat /\ c % c0 \in 0 .. c0 - 1 /\ NzAt(h, c0, r, c) \in Int
<1>1. c \div c0 \in Nat /\ c % c0 \in 0 .. c0 - 1
  BY DivMod
<1> DEFINE q == c \div c0  x == c % c0
<1>. HIDE DEF q, x
<1>2. q * h * c0 + r * c0 + x = (q * h + r) * c0 + x /\ q * h * c0 + r * c0 + x \in Int
  BY <1>1 DEF q, x, Positive
<1>. QED  BY <1>1, <1>2 DEF NzAt, RowMajorAt, q, x

\* Two cells of column blocks of height h have different addresses.
LEMMA NzInjective ==
    ASSUME NEW h \in Nat, NEW c0 \in Positive, NEW r1 \in 0 .. h - 1, NEW r2 \in 0 .. h - 1,
           NEW c1 \in Nat, NEW c2 \in Nat, NzAt(h, c0, r1, c1) = NzAt(h, c0, r2, c2)
    PROVE  r1 = r2 /\ c1 = c2
<1> DEFINE q1 == c1 \div c0  x1 == c1 % c0  q2 == c2 \div c0  x2 == c2 % c0
<1>1. q1 \in Nat /\ q2 \in Nat /\ x1 \in 0 .. c0 - 1 /\ x2 \in 0 .. c0 - 1
  BY DivMod
<1>2. c1 = c0 * q1 + x1 /\ c2 = c0 * q2 + x2
  BY DivMod
<1>3. RowMajorAt(c0, RowMajorAt(h, q1, r1), x1) = RowMajorAt(c0, RowMajorAt(h, q2, r2), x2)
  BY NzForm
<1>. HIDE DEF q1, q2, x1, x2
<1>4. RowMajorAt(h, q1, r1) \in Nat /\ RowMajorAt(h, q2, r2) \in Nat /\ c0 \in Nat
  BY <1>1, MulMonotone DEF RowMajorAt, Positive
<1>5. RowMajorAt(h, q1, r1) = RowMajorAt(h, q2, r2) /\ x1 = x2
  BY <1>1, <1>3, <1>4, RowMajorInjective
<1>6. q1 = q2 /\ r1 = r2
  BY <1>1, <1>5, RowMajorInjective
<1>. QED  BY <1>2, <1>5, <1>6

\* Whole column blocks of w columns end before h * w.
LEMMA NzRange ==
    ASSUME NEW h \in Nat, NEW c0 \in Positive, NEW w \in Nat, w % c0 = 0,
           NEW r \in 0 .. h - 1, NEW c \in 0 .. w - 1
    PROVE  NzAt(h, c0, r, c) \in 0 .. h * w - 1
<1> DEFINE q == c \div c0  x == c % c0  k == w \div c0
<1>1. q \in Nat /\ x \in 0 .. c0 - 1 /\ c = c0 * q + x
  BY DivMod
<1>2. k \in Nat /\ w = c0 * k
  BY CeilOfMultiple, DivMod
<1>3. NzAt(h, c0, r, c) = RowMajorAt(c0, RowMajorAt(h, q, r), x)
  BY NzForm
<1>. HIDE DEF q, x, k
<1>4. q < k
  <2>1. SUFFICES ASSUME k <= q PROVE FALSE
    BY <1>1, <1>2
  <2>2. k * c0 <= q * c0
    BY <1>1, <1>2, <2>1, MulMonotone DEF Positive
  <2>3. k * c0 = c0 * k /\ q * c0 = c0 * q /\ c0 * k \in Nat /\ c0 * q \in Nat
    BY <1>1, <1>2 DEF Positive
  <2>. QED  BY <1>1, <1>2, <2>2, <2>3
<1>5. RowMajorAt(h, q, r) \in 0 .. k * h - 1
  <2>1. q \in 0 .. k - 1
    BY <1>1, <1>2, <1>4
  <2>. QED  BY <1>2, <2>1, RowMajorRange
<1>6. k * h \in Nat
  BY <1>2
<1>7. RowMajorAt(c0, RowMajorAt(h, q, r), x) \in 0 .. (k * h) * c0 - 1
  BY <1>1, <1>5, <1>6, RowMajorRange DEF Positive
<1>8. (k * h) * c0 = h * (c0 * k)
  BY <1>2 DEF Positive
<1>. QED  BY <1>2, <1>3, <1>7, <1>8

\* From a corner at the edge of a column block, cells lie as they do from the matrix's corner.
LEMMA NzSum ==
    ASSUME NEW h \in Int, NEW c0 \in Positive, NEW r1 \in Nat, NEW r2 \in Nat,
           NEW c1 \in Nat, NEW c2 \in Nat, c1 % c0 = 0
    PROVE  /\ NzAt(h, c0, r1, c1) + NzAt(h, c0, r2, c2) = NzAt(h, c0, r1 + r2, c1 + c2)
           /\ NzAt(h, c0, r1, c1) = r1 * c0 + c1 * h
<1> DEFINE q1 == c1 \div c0  q2 == c2 \div c0  x2 == c2 % c0
<1>1. q1 \in Nat /\ q2 \in Nat /\ x2 \in 0 .. c0 - 1 /\ c1 = c0 * q1 /\ c2 = c0 * q2 + x2
  BY DivMod, CeilOfMultiple
<1>. HIDE DEF q1, q2, x2
<1>2. c0 * q1 + (c0 * q2 + x2) = c0 * (q1 + q2) + x2 /\ q1 + q2 \in Nat
  BY <1>1 DEF Positive
<1>3. (c0 * (q1 + q2) + x2) \div c0 = q1 + q2 /\ (c0 * (q1 + q2) + x2) % c0 = x2
  BY <1>1, <1>2, DivModUnique
<1>4. NzAt(h, c0, r1 + r2, c1 + c2) = (q1 + q2) * h * c0 + (r1 + r2) * c0 + x2
  BY <1>1, <1>2, <1>3 DEF NzAt
<1>5. NzAt(h, c0, r1, c1) = q1 * h * c0 + r1 * c0 + 0
  BY DEF NzAt, q1
<1>6. NzAt(h, c0, r2, c2) = q2 * h * c0 + r2 * c0 + x2
  BY DEF NzAt, q2, x2
<1>7. (q1 + q2) * h * c0 + (r1 + r2) * c0 + x2 = (q1 * h * c0 + r1 * c0 + 0) + (q2 * h * c0 + r2 * c0 + x2)
  BY <1>1 DEF Positive
<1>8. q1 * h * c0 + r1 * c0 + 0 = r1 * c0 + (c0 * q1) * h
  BY <1>1 DEF Positive
<1>. QED  BY <1>1, <1>4, <1>5, <1>6, <1>7, <1>8

-----------------------------------------------------------------------------
(* Tiles, and what one instruction moves.                                  *)
(* The moves write column blocks h rows high, in their first len rows and w columns. *)
NzTile(moves, h, c0, len, w) ==
  /\ Clean(moves)
  /\ \A x \in moves : \E r \in 0 .. len - 1, c \in 0 .. w - 1 : x[1] = NzAt(h, c0, r, c)

(* Moves between a buffer and the memory, as Moves names their ends.                              *)
IntoBuffer(b, moves)  == {<<<<b, mv[1]>>, <<0, mv[2]>>>> : mv \in moves}
OutOfBuffer(b, moves) == {<<<<0, mv[1]>>, <<b, mv[2]>>>> : mv \in moves}

(* The moves are f to g, cell by cell; the cells lie in column blocks; f takes no value twice.     *)
Tabled(moves, h, w, f, g) ==
  \A x \in moves : \E r \in 0 .. h - 1, c \in 0 .. w - 1 : x = <<f[r][c], g[r][c]>>
NzTabled(moves, h, c0, len, w, g) ==
  \A x \in moves : \E r \in 0 .. len - 1, c \in 0 .. w - 1 : x = <<NzAt(h, c0, r, c), g[r][c]>>
Distinct(f, h, w) ==
  \A r1, r2 \in 0 .. h - 1, c1, c2 \in 0 .. w - 1 : f[r1][c1] = f[r2][c2] => r1 = r2 /\ c1 = c2

-----------------------------------------------------------------------------
\* One edge of a tile: inside the matrix, and no longer than the tile size.
LEMMA EdgeFacts ==
    ASSUME NEW m \in Nat, NEW b \in Positive, NEW r \in 0 .. CeilDiv(m, b) - 1
    PROVE  /\ r \in Nat /\ r * b \in Nat /\ r * b < m
           /\ Least(b, m - r * b) \in 1 .. b
           /\ r * b + Least(b, m - r * b) <= m
           /\ (r * b) % b = 0
<1>1. CeilDiv(m, b) \in Nat /\ r * b < m
  BY CeilFacts
<1>2. r \in Nat /\ r * b \in Nat
  BY <1>1, MulMonotone DEF Positive
<1>3. (r * b) % b = 0
  <2>1. 0 \in 0 .. b - 1
    BY DEF Positive
  <2>2. (b * r + 0) % b = 0
    BY <1>2, <2>1, DivModUnique
  <2>. QED  BY <1>2, <2>2 DEF Positive
<1> DEFINE x == r * b
<1>4. Least(b, m - x) \in 1 .. b /\ x + Least(b, m - x) <= m
  <2>. HIDE DEF x
  <2>1. x \in Nat /\ x < m
    BY <1>1, <1>2 DEF x
  <2>. QED  BY <2>1 DEF Least, Positive
<1>. QED  BY <1>1, <1>2, <1>3, <1>4

\* The tiles of a matrix: their places, their sizes, and a buffer for each.
LEMMA TileFacts ==
    ASSUME NEW j, j.unit \in {"in", "out", "load", "attention"}, Grid(j), NEW t \in Tiles(j)
    PROVE  /\ t.row \in Nat /\ t.row * j.baseM \in Nat /\ t.row * j.baseM < j.m
           /\ t.height = Least(j.baseM, j.m - t.row * j.baseM) /\ t.height \in 1 .. j.baseM
           /\ t.row * j.baseM + t.height <= j.m /\ (t.row * j.baseM) % j.baseM = 0
           /\ t.col \in Nat /\ t.col * j.baseN \in Nat /\ t.col * j.baseN < j.n
           /\ t.width = Least(j.baseN, j.n - t.col * j.baseN) /\ t.width \in 1 .. j.baseN
           /\ t.col * j.baseN + t.width <= j.n /\ (t.col * j.baseN) % j.baseN = 0
           /\ \A u \in Tiles(j) : u # t => Buffer(u) # Buffer(t)
<1> DEFINE Tile(r, c) ==
             [row |-> r, col |-> c,
              height |-> Least(j.baseM, j.m - r * j.baseM), width |-> Least(j.baseN, j.n - c * j.baseN)]
<1>1. Tiles(j) = {Tile(r, c) : r \in 0 .. CeilDiv(j.m, j.baseM) - 1, c \in 0 .. CeilDiv(j.n, j.baseN) - 1}
  BY DEF Tiles
<1>2. PICK r \in 0 .. CeilDiv(j.m, j.baseM) - 1, c \in 0 .. CeilDiv(j.n, j.baseN) - 1 : t = Tile(r, c)
  <2>. HIDE DEF Tile
  <2>. QED  BY <1>1
<1>3. t.row = r /\ t.col = c /\ t.height = Least(j.baseM, j.m - r * j.baseM)
        /\ t.width = Least(j.baseN, j.n - c * j.baseN)
  BY <1>2, Zenon
<1>4. /\ r \in Nat /\ r * j.baseM \in Nat /\ r * j.baseM < j.m
      /\ Least(j.baseM, j.m - r * j.baseM) \in 1 .. j.baseM
      /\ r * j.baseM + Least(j.baseM, j.m - r * j.baseM) <= j.m
      /\ (r * j.baseM) % j.baseM = 0
  BY EdgeFacts DEF Grid, Positive
<1>5. /\ c \in Nat /\ c * j.baseN \in Nat /\ c * j.baseN < j.n
      /\ Least(j.baseN, j.n - c * j.baseN) \in 1 .. j.baseN
      /\ c * j.baseN + Least(j.baseN, j.n - c * j.baseN) <= j.n
      /\ (c * j.baseN) % j.baseN = 0
  BY EdgeFacts DEF Grid, Positive
<1>6. ASSUME NEW u \in Tiles(j), Buffer(u) = Buffer(t) PROVE u = t
  <2>1. PICK r2 \in 0 .. CeilDiv(j.m, j.baseM) - 1, c2 \in 0 .. CeilDiv(j.n, j.baseN) - 1 :
          u = Tile(r2, c2)
    <3>. HIDE DEF Tile
    <3>. QED  BY <1>1
  <2>2. u.row = r2 /\ u.col = c2
    BY <2>1, Zenon
  <2>3. r2 = r /\ c2 = c
    BY <1>3, <1>6, <2>2 DEF Buffer
  <2>. QED  BY <1>2, <2>1, <2>3, Zenon
<1>. QED  BY <1>3, <1>4, <1>5, <1>6, Zenon

\* A fractal's row holds at least one element.
LEMMA C0Positive ==
    ASSUME NEW size \in Nat \ {0}, size <= Block
    PROVE  C0(size) \in Positive /\ Cube \in Positive /\ Block = 2 * Cube
<1>1. Cube \in Positive /\ Block = 2 * Cube /\ Block \in Nat
  BY FractalAssumption DEF Positive
<1>2. Block \div size \in Nat /\ Block % size \in 0 .. size - 1 /\ Block = size * (Block \div size) + (Block % size)
  BY <1>1, DivMod DEF Positive
<1>3. Block \div size # 0
  <2>1. SUFFICES ASSUME Block \div size = 0 PROVE FALSE
    OBVIOUS
  <2>2. Block = size * 0 + (Block % size)
    BY <1>2, <2>1
  <2>. QED  BY <1>2, <2>2
<1>. QED  BY <1>1, <1>2, <1>3 DEF C0, Positive

-----------------------------------------------------------------------------
\* Moves given by a table are finitely many.
LEMMA TableFinite ==
    ASSUME NEW h \in Int, NEW w \in Int, NEW f, NEW g, NEW moves, Tabled(moves, h, w, f, g)
    PROVE  IsFiniteSet(moves)
<1> DEFINE T == (0 .. h - 1) \X (0 .. w - 1)
           e == [p \in T |-> <<f[p[1]][p[2]], g[p[1]][p[2]]>>]
           image == {e[p] : p \in T}
<1>1. IsFiniteSet(T)
  <2>1. IsFiniteSet(0 .. h - 1) /\ IsFiniteSet(0 .. w - 1)
    BY FS_Interval
  <2>. QED  BY <2>1, FS_Product
<1>2. IsFiniteSet(image)
  <2>. HIDE DEF T, e
  <2>. QED  BY <1>1, ImageFinite
<1>3. moves \in SUBSET image
  <2>. SUFFICES ASSUME NEW x \in moves PROVE x \in image
    OBVIOUS
  <2>1. PICK r \in 0 .. h - 1, c \in 0 .. w - 1 : x = <<f[r][c], g[r][c]>>
    BY DEF Tabled
  <2>2. <<r, c>> \in T /\ e[<<r, c>>] = x
    BY <2>1
  <2>. HIDE DEF T, e
  <2>. QED  BY <2>2
<1>. HIDE DEF image
<1>. QED  BY <1>2, <1>3, FS_Subset

\* If it gives no place twice, they are clean.
LEMMA TableClean ==
    ASSUME NEW h \in Int, NEW w \in Int, NEW f, NEW g, NEW moves,
           Tabled(moves, h, w, f, g), Distinct(f, h, w)
    PROVE  Clean(moves)
<1>1. IsFiniteSet(moves)
  BY TableFinite
<1>2. ASSUME NEW x \in moves, NEW y \in moves, x[1] = y[1] PROVE x = y
  <2>1. PICK r1 \in 0 .. h - 1, c1 \in 0 .. w - 1 : x = <<f[r1][c1], g[r1][c1]>>
    BY DEF Tabled
  <2>2. PICK r2 \in 0 .. h - 1, c2 \in 0 .. w - 1 : y = <<f[r2][c2], g[r2][c2]>>
    BY DEF Tabled
  <2>3. f[r1][c1] = f[r2][c2]
    BY <1>2, <2>1, <2>2
  <2>4. r1 = r2 /\ c1 = c2
    BY <2>3 DEF Distinct
  <2>. QED  BY <2>1, <2>2, <2>4, Zenon
<1>. QED  BY <1>1, <1>2, Zenon DEF Clean

\* Moves to different cells of column blocks.
LEMMA NzTable ==
    ASSUME NEW h \in Nat, NEW c0 \in Positive, NEW len \in Int, len <= h, NEW w \in Int, NEW g, NEW moves,
           NzTabled(moves, h, c0, len, w, g)
    PROVE  NzTile(moves, h, c0, len, w)
<1> DEFINE f == [r \in 0 .. len - 1 |-> [c \in 0 .. w - 1 |-> NzAt(h, c0, r, c)]]
<1>1. \A r \in 0 .. len - 1, c \in 0 .. w - 1 : f[r][c] = NzAt(h, c0, r, c)
  OBVIOUS
<1>. HIDE DEF f
<1>2. Tabled(moves, len, w, f, g)
  <2>. SUFFICES ASSUME NEW x \in moves
                PROVE  \E r \in 0 .. len - 1, c \in 0 .. w - 1 : x = <<f[r][c], g[r][c]>>
    BY DEF Tabled
  <2>1. PICK r \in 0 .. len - 1, c \in 0 .. w - 1 : x = <<NzAt(h, c0, r, c), g[r][c]>>
    BY DEF NzTabled
  <2>. QED  BY <1>1, <2>1, Zenon
<1>3. ASSUME NEW r1 \in 0 .. len - 1, NEW r2 \in 0 .. len - 1, NEW c1 \in 0 .. w - 1, NEW c2 \in 0 .. w - 1,
             f[r1][c1] = f[r2][c2]
      PROVE  r1 = r2 /\ c1 = c2
  <2>1. r1 \in 0 .. h - 1 /\ r2 \in 0 .. h - 1 /\ c1 \in Nat /\ c2 \in Nat
    OBVIOUS
  <2>2. NzAt(h, c0, r1, c1) = NzAt(h, c0, r2, c2)
    BY <1>1, <1>3
  <2>. QED  BY <2>1, <2>2, NzInjective
<1>4. Clean(moves)
  <2>1. Distinct(f, len, w)
    BY <1>3 DEF Distinct
  <2>. QED  BY <1>2, <2>1, TableClean
<1>5. ASSUME NEW x \in moves PROVE \E r \in 0 .. len - 1, c \in 0 .. w - 1 : x[1] = NzAt(h, c0, r, c)
  <2>1. PICK r \in 0 .. len - 1, c \in 0 .. w - 1 : x = <<NzAt(h, c0, r, c), g[r][c]>>
    BY DEF NzTabled
  <2>. QED  BY <2>1
<1>. QED  BY <1>4, <1>5 DEF NzTile

\* What lies in whole column blocks lies in their room.
LEMMA NzTileRange ==
    ASSUME NEW moves, NEW h \in Nat, NEW c0 \in Positive, NEW len \in Int, len <= h, NEW w \in Int,
           NEW width \in Nat, w <= width, width % c0 = 0, NzTile(moves, h, c0, len, w)
    PROVE  \A x \in moves : x[1] \in 0 .. h * width - 1
<1>. SUFFICES ASSUME NEW x \in moves PROVE x[1] \in 0 .. h * width - 1
  OBVIOUS
<1>1. PICK r \in 0 .. len - 1, c \in 0 .. w - 1 : x[1] = NzAt(h, c0, r, c)
  BY DEF NzTile
<1>2. r \in 0 .. h - 1 /\ c \in 0 .. width - 1
  OBVIOUS
<1>. QED  BY <1>1, <1>2, NzRange

\* DataCopy with Nd2NzParams: rows of a matrix become column blocks.
LEMMA Nd2NzTile ==
    ASSUME NEW src \in Int, NEW nValue \in Nat, NEW dValue \in Nat, NEW s \in Nat, NEW h \in Nat,
           nValue <= h, NEW c0 \in Positive
    PROVE  /\ NzTile(Nd2Nz(0, src, nValue, dValue, s, h, 1, c0), h, c0, nValue, dValue)
           /\ \A r \in 0 .. nValue - 1, c \in 0 .. dValue - 1 :
                <<NzAt(h, c0, r, c), src + RowMajorAt(s, r, c)>> \in Nd2Nz(0, src, nValue, dValue, s, h, 1, c0)
<1> DEFINE moves == Nd2Nz(0, src, nValue, dValue, s, h, 1, c0)
           g == [r \in 0 .. nValue - 1 |-> [c \in 0 .. dValue - 1 |-> src + RowMajorAt(s, r, c)]]
<1>1. ASSUME NEW r \in 0 .. nValue - 1, NEW c \in 0 .. dValue - 1
      PROVE  /\ 0 + (c \div c0) * h * c0 + r * 1 * c0 + (c % c0) = NzAt(h, c0, r, c)
             /\ src + r * s + c = src + RowMajorAt(s, r, c)
  <2> DEFINE q == c \div c0  x == c % c0
  <2>1. q \in Nat /\ x \in Nat
    BY DivMod
  <2>. HIDE DEF q, x
  <2>2. 0 + q * h * c0 + r * 1 * c0 + x = q * h * c0 + r * c0 + x
    BY <2>1 DEF Positive
  <2>3. src + r * s + c = src + (r * s + c)
    <3>1. r * s \in Int
      OBVIOUS
    <3>. QED  BY <3>1
  <2>. QED  BY <2>2, <2>3 DEF NzAt, RowMajorAt, q, x
<1>2. moves = {<<NzAt(h, c0, r, c), src + RowMajorAt(s, r, c)>> : r \in 0 .. nValue - 1, c \in 0 .. dValue - 1}
  BY <1>1 DEF Nd2Nz
<1>3. ASSUME NEW x \in moves
      PROVE  \E r \in 0 .. nValue - 1, c \in 0 .. dValue - 1 : x = <<NzAt(h, c0, r, c), g[r][c]>>
  <2>1. PICK r \in 0 .. nValue - 1, c \in 0 .. dValue - 1 : x = <<NzAt(h, c0, r, c), src + RowMajorAt(s, r, c)>>
    BY <1>2
  <2>2. g[r][c] = src + RowMajorAt(s, r, c)
    OBVIOUS
  <2>. QED  BY <2>1, <2>2
<1>4. NzTile(moves, h, c0, nValue, dValue)
  <2>. HIDE DEF moves, g
  <2>1. NzTabled(moves, h, c0, nValue, dValue, g)
    BY <1>3 DEF NzTabled
  <2>. QED  BY <2>1, NzTable
<1>. QED  BY <1>2, <1>4

\* DataCopy in bursts: column blocks become column blocks of another height.
LEMMA BurstsTile ==
    ASSUME NEW src \in Int, NEW count \in Nat, NEW len \in Nat, NEW srcGap \in Int, NEW dstGap \in Nat,
           NEW c0 \in Positive
    PROVE  /\ NzTile(Bursts(0, src, count, len, srcGap, dstGap, c0), len + dstGap, c0, len, count * c0)
           /\ \A r \in 0 .. len - 1, c \in 0 .. count * c0 - 1 :
                <<NzAt(len + dstGap, c0, r, c), src + NzAt(len + srcGap, c0, r, c)>>
                  \in Bursts(0, src, count, len, srcGap, dstGap, c0)
<1> DEFINE moves == Bursts(0, src, count, len, srcGap, dstGap, c0)
           At(r, c) == <<NzAt(len + dstGap, c0, r, c), src + NzAt(len + srcGap, c0, r, c)>>
           g == [r \in 0 .. len - 1 |-> [c \in 0 .. count * c0 - 1 |-> src + NzAt(len + srcGap, c0, r, c)]]
<1>0. count * c0 \in Nat /\ len * c0 \in Nat
  BY MulMonotone DEF Positive
\* Element e of burst b is in row e \div c0 and column b * c0 + e % c0.
<1>1. ASSUME NEW b \in 0 .. count - 1, NEW r \in 0 .. len - 1, NEW x \in 0 .. c0 - 1
      PROVE  <<0 + b * (len + dstGap) * c0 + (r * c0 + x), src + b * (len + srcGap) * c0 + (r * c0 + x)>>
               = At(r, c0 * b + x)
  <2>1. (c0 * b + x) \div c0 = b /\ (c0 * b + x) % c0 = x
    BY DivModUnique
  <2>2. b * (len + dstGap) * c0 \in Int /\ r * c0 \in Int /\ b * (len + srcGap) * c0 \in Int
    BY DEF Positive
  <2> DEFINE y == b * (len + dstGap) * c0  z == r * c0  v == b * (len + srcGap) * c0
  <2>3. NzAt(len + dstGap, c0, r, c0 * b + x) = y + z + x
    BY <2>1 DEF NzAt
  <2>4. NzAt(len + srcGap, c0, r, c0 * b + x) = v + z + x
    BY <2>1 DEF NzAt
  <2>. HIDE DEF y, z, v
  <2>5. 0 + y + (z + x) = y + z + x /\ src + v + (z + x) = src + (v + z + x)
    BY <2>2 DEF y, z, v
  <2>. QED  BY <2>3, <2>4, <2>5 DEF y, z, v
<1>2. ASSUME NEW r \in 0 .. len - 1, NEW c \in 0 .. count * c0 - 1 PROVE At(r, c) \in moves
  <2> DEFINE b == c \div c0  x == c % c0
  <2>1. b \in Nat /\ x \in 0 .. c0 - 1 /\ c = c0 * b + x
    BY <1>0, DivMod
  <2>. HIDE DEF b, x
  <2>2. b \in 0 .. count - 1
    <3>1. SUFFICES ASSUME count <= b PROVE FALSE
      BY <2>1
    <3>2. count * c0 <= b * c0 /\ b * c0 = c0 * b
      BY <2>1, <3>1, MulMonotone DEF Positive
    <3>. QED  BY <1>0, <2>1, <3>2 DEF Positive
  <2>3. RowMajorAt(c0, r, x) \in 0 .. len * c0 - 1
    BY <2>1, RowMajorRange DEF Positive
  <2>4. r * c0 + x \in 0 .. len * c0 - 1
    BY <2>3 DEF RowMajorAt
  <2>5. At(r, c) = <<0 + b * (len + dstGap) * c0 + (r * c0 + x), src + b * (len + srcGap) * c0 + (r * c0 + x)>>
    BY <1>1, <2>1, <2>2
  <2>. HIDE DEF At
  <2>. QED  BY <2>2, <2>4, <2>5 DEF Bursts
<1>3. ASSUME NEW b \in 0 .. count - 1, NEW e \in 0 .. len * c0 - 1
      PROVE  \E r \in 0 .. len - 1, c \in 0 .. count * c0 - 1 :
               <<0 + b * (len + dstGap) * c0 + e, src + b * (len + srcGap) * c0 + e>> = At(r, c)
  <2> DEFINE r == e \div c0  x == e % c0
  <2>1. r \in Nat /\ x \in 0 .. c0 - 1 /\ e = c0 * r + x
    BY <1>0, DivMod
  <2>. HIDE DEF r, x
  <2>2. r \in 0 .. len - 1
    <3>1. SUFFICES ASSUME len <= r PROVE FALSE
      BY <2>1
    <3>2. len * c0 <= r * c0 /\ r * c0 = c0 * r
      BY <2>1, <3>1, MulMonotone DEF Positive
    <3>. QED  BY <1>0, <2>1, <3>2 DEF Positive
  <2>3. RowMajorAt(c0, b, x) \in 0 .. count * c0 - 1
    BY <2>1, RowMajorRange DEF Positive
  <2>4. c0 * b + x \in 0 .. count * c0 - 1 /\ e = r * c0 + x
    BY <2>1, <2>3 DEF RowMajorAt, Positive
  <2>5. <<0 + b * (len + dstGap) * c0 + e, src + b * (len + srcGap) * c0 + e>> = At(r, c0 * b + x)
    BY <1>1, <2>1, <2>2, <2>4
  <2>. HIDE DEF At
  <2>. QED  BY <2>2, <2>4, <2>5
<1>4. ASSUME NEW x \in moves
      PROVE  \E r \in 0 .. len - 1, c \in 0 .. count * c0 - 1 : x = <<NzAt(len + dstGap, c0, r, c), g[r][c]>>
  <2>1. PICK b \in 0 .. count - 1, e \in 0 .. len * c0 - 1 :
          x = <<0 + b * (len + dstGap) * c0 + e, src + b * (len + srcGap) * c0 + e>>
    BY DEF Bursts
  <2>2. PICK r \in 0 .. len - 1, c \in 0 .. count * c0 - 1 : x = At(r, c)
    <3>. HIDE DEF At
    <3>. QED  BY <1>3, <2>1
  <2>3. g[r][c] = src + NzAt(len + srcGap, c0, r, c)
    OBVIOUS
  <2>. QED  BY <2>2, <2>3
<1>5. NzTile(moves, len + dstGap, c0, len, count * c0)
  <2>. HIDE DEF moves, g, At
  <2>1. len + dstGap \in Nat /\ len <= len + dstGap /\ count * c0 \in Int
    BY <1>0
  <2>2. NzTabled(moves, len + dstGap, c0, len, count * c0, g)
    BY <1>4 DEF NzTabled
  <2>. QED  BY <2>1, <2>2, NzTable
<1>. QED  BY <1>2, <1>5

-----------------------------------------------------------------------------
(* Copies into L1.                                                         *)
(* Where a cell of an input comes from. *)
InSource(j, t, r, c) ==
  LayoutAt(IF j.format = "VECTOR" THEN "ND" ELSE j.format, j.size, j.m, j.n, InRow(j, t) + r, InCol(j, t) + c)

(* The moves bring each cell of an input tile to its place, and write nothing outside its buffer. *)
BringsTile(moves, j, t) ==
  /\ Clean(moves)
  /\ \A r \in 0 .. t.height - 1, c \in 0 .. t.width - 1 : <<InPlace(j, t, r, c), InSource(j, t, r, c)>> \in moves
  /\ \A x \in moves : x[1] \in 0 .. InRoom(j, t) - 1

-----------------------------------------------------------------------------
\* A column block in L1 has room for the tile's rows, rounded up to fractals.
LEMMA L1RowsFacts ==
    ASSUME NEW j, NEW height \in Nat, j.size \in Nat \ {0}, j.size <= Block
    PROVE  /\ L1Rows(j, height) \in Nat
           /\ CeilAlign(height, Cube) <= L1Rows(j, height)
           /\ ~KAligned(j) => L1Rows(j, height) = CeilAlign(height, Cube)
<1>1. InC0(j) \in Positive /\ Cube \in Positive /\ Block = 2 * Cube
  BY C0Positive DEF InC0
<1>2. height <= CeilAlign(height, Cube) /\ CeilAlign(height, Cube) \in Nat
  BY <1>1, CeilFacts
<1>3. CASE ~KAligned(j)
  BY <1>2, <1>3 DEF L1Rows
<1>4. CASE KAligned(j)
  <2>1. InC0(j) = 2 * Cube
    <3>1. j.size = 1 /\ Block \in Nat
      BY <1>1, <1>4 DEF KAligned, Positive
    <3>2. Block \div 1 = Block
      BY <3>1
    <3>. QED  BY <1>1, <3>1, <3>2 DEF InC0, C0
  <2>2. L1Rows(j, height) = CeilAlign(height, InC0(j))
    BY <1>4 DEF L1Rows
  <2>3. /\ CeilAlign(height, InC0(j)) \in Nat /\ height <= CeilAlign(height, InC0(j))
        /\ CeilAlign(height, InC0(j)) = InC0(j) * CeilDiv(height, InC0(j)) /\ CeilDiv(height, InC0(j)) \in Nat
    BY <1>1, CeilFacts
  <2> DEFINE k == CeilDiv(height, InC0(j))
  <2>4. height <= Cube * (2 * k) /\ 2 * k \in Nat /\ CeilAlign(height, InC0(j)) = Cube * (2 * k)
    <3>. HIDE DEF k
    <3>1. (2 * Cube) * k = Cube * (2 * k) /\ k \in Nat
      BY <1>1, <2>3 DEF Positive, k
    <3>. QED  BY <2>1, <2>3, <3>1 DEF k
  <2>5. CeilAlign(height, Cube) <= Cube * (2 * k)
    BY <1>1, <2>4, CeilLeast
  <2>. QED  BY <1>4, <2>2, <2>3, <2>4, <2>5
<1>. QED  BY <1>3, <1>4

\* Rows of a row-major matrix follow each other from any corner.
LEMMA RowMajorSum ==
    ASSUME NEW s \in Int, NEW r1 \in Int, NEW r2 \in Int, NEW c1 \in Int, NEW c2 \in Int
    PROVE  /\ (r1 * s + c1) + RowMajorAt(s, r2, c2) = RowMajorAt(s, r1 + r2, c1 + c2)
           /\ r1 * s + c1 = RowMajorAt(s, r1, c1)
           /\ RowMajorAt(s, r1, c1) \in Int
BY DEF RowMajorAt

\* CopyND2NZ, whole or row by row, brings a tile of a row-major matrix.
LEMMA ParamsNDBringsTile ==
    ASSUME NEW j, j.unit = "in", InLegal(j), j.policy = "CopyWithParams", j.format = "ND", NEW t \in Tiles(j)
    PROVE  BringsTile(CopyND2NZ(j, t), j, t)
<1> DEFINE h == L1Rows(j, t.height)
           c0 == InC0(j)
           src == InRow(j, t) * j.n + InCol(j, t)
           moves == CopyND2NZ(j, t)
           width == CeilAlign(t.width, c0)
<1>1. /\ Grid(j) /\ (j.check \/ j.n <= StrideLimit)
  BY DEF InLegal
<1>2. /\ j.m \in Nat /\ j.n \in Nat /\ j.size \in Nat \ {0} /\ j.size <= Block
  BY <1>1 DEF Grid
<1>3. /\ InRow(j, t) \in Nat /\ InCol(j, t) \in Nat /\ t.height \in Nat /\ t.width \in Nat
      /\ t.width <= j.n
  <2>1. j.unit \in {"in", "out", "load", "attention"}
    OBVIOUS
  <2>2. /\ t.row * j.baseM \in Nat /\ t.col * j.baseN \in Nat
        /\ t.height \in 1 .. j.baseM /\ t.width \in 1 .. j.baseN /\ t.col * j.baseN + t.width <= j.n
    BY <1>1, <2>1, TileFacts
  <2>. QED  BY <1>2, <2>2 DEF InRow, InCol
<1>4. c0 \in Positive /\ Cube \in Positive
  BY <1>2, C0Positive DEF InC0
<1>5. h \in Nat /\ t.height <= h
  BY <1>2, <1>3, <1>4, L1RowsFacts, CeilFacts
<1>6. src \in Nat
  BY <1>2, <1>3, MulMonotone
<1>7. width \in Nat /\ t.width <= width /\ width % c0 = 0
  BY <1>3, <1>4, CeilFacts
<1>8. /\ NzTile(moves, h, c0, t.height, t.width)
      /\ \A r \in 0 .. t.height - 1, c \in 0 .. t.width - 1 :
           <<NzAt(h, c0, r, c), src + RowMajorAt(j.n, r, c)>> \in moves
  <2>1. CASE ~(j.check /\ j.n >= StrideLimit)
    <3>1. moves = Nd2Nz(0, src, t.height, t.width, Field(j.n), h, 1, c0)
      BY <2>1 DEF CopyND2NZ
    <3>2. Field(j.n) = j.n
      <4>1. j.n <= StrideLimit /\ StrideLimit \in Nat
        BY <1>1, <1>2, <2>1, StrideAssumption
      <4>. QED  BY <1>2, <4>1 DEF Field
    <3>. HIDE DEF moves, h, c0, src
    <3>3. moves = Nd2Nz(0, src, t.height, t.width, j.n, h, 1, c0) /\ src \in Int
      BY <1>6, <3>1, <3>2
    <3>. QED  BY <1>2, <1>3, <1>4, <1>5, <3>3, Nd2NzTile
  <2>2. CASE j.check /\ j.n >= StrideLimit
    <3> DEFINE Row(i) == Nd2Nz(i * c0, src + j.n * i, 1, t.width, t.width, h, 1, c0)
               At(r, c) == <<NzAt(h, c0, r, c), src + RowMajorAt(j.n, r, c)>>
               g == [r \in 0 .. t.height - 1 |-> [c \in 0 .. t.width - 1 |-> src + RowMajorAt(j.n, r, c)]]
    <3>1. moves = UNION {Row(i) : i \in 0 .. t.height - 1}
      BY <2>2 DEF CopyND2NZ
    <3>2. ASSUME NEW i \in 0 .. t.height - 1, NEW c \in 0 .. t.width - 1
          PROVE  <<i * c0 + (c \div c0) * h * c0 + 0 * 1 * c0 + (c % c0), (src + j.n * i) + 0 * t.width + c>> = At(i, c)
      <4> DEFINE q == (c \div c0) * h * c0  x == c % c0  p == i * c0  z == j.n * i
      <4>0. c \in Nat /\ i \in Nat
        BY <1>3
      <4>1. c \div c0 \in Nat /\ x \in Nat
        BY <1>4, <4>0, DivMod
      <4>2. q \in Int /\ p \in Int /\ 0 * 1 * c0 = 0 /\ 0 * t.width = 0 /\ z \in Int /\ i * j.n = z
        BY <1>2, <1>3, <1>4, <1>5, <4>1 DEF Positive
      <4>3. NzAt(h, c0, i, c) = q + p + x /\ RowMajorAt(j.n, i, c) = z + c
        BY <4>2 DEF NzAt, RowMajorAt
      <4>. HIDE DEF q, x, p, z, src
      <4>4. p + q + 0 + x = q + p + x /\ (src + z) + 0 + c = src + (z + c)
        BY <1>6, <4>1, <4>2
      <4>. QED  BY <4>2, <4>3, <4>4 DEF q, x, p, z
    <3>3. ASSUME NEW i \in 0 .. t.height - 1, NEW c \in 0 .. t.width - 1 PROVE At(i, c) \in Row(i)
      <4>1. <<i * c0 + (c \div c0) * h * c0 + 0 * 1 * c0 + (c % c0), (src + j.n * i) + 0 * t.width + c>> \in Row(i)
        <5>. HIDE DEF c0, h, src
        <5>1. 0 \in 0 .. 1 - 1
          OBVIOUS
        <5>. QED  BY <5>1 DEF Nd2Nz
      <4>. HIDE DEF At, Row, c0, h, src
      <4>. QED  BY <3>2, <4>1
    <3>4. ASSUME NEW x \in moves PROVE \E r \in 0 .. t.height - 1, c \in 0 .. t.width - 1 : x = At(r, c)
      <4>1. PICK i \in 0 .. t.height - 1 : x \in Row(i)
        BY <3>1
      <4>2. PICK k \in 0 .. 1 - 1, c \in 0 .. t.width - 1 :
              x = <<i * c0 + (c \div c0) * h * c0 + k * 1 * c0 + (c % c0), (src + j.n * i) + k * t.width + c>>
        <5>. HIDE DEF c0, h, src
        <5>. QED  BY <4>1 DEF Nd2Nz
      <4>3. k = 0
        OBVIOUS
      <4>. HIDE DEF At, c0, h, src
      <4>. QED  BY <3>2, <4>2, <4>3
    <3>5. ASSUME NEW x \in moves
          PROVE  \E r \in 0 .. t.height - 1, c \in 0 .. t.width - 1 : x = <<NzAt(h, c0, r, c), g[r][c]>>
      <4>1. PICK r \in 0 .. t.height - 1, c \in 0 .. t.width - 1 : x = At(r, c)
        BY <3>4
      <4>2. g[r][c] = src + RowMajorAt(j.n, r, c)
        OBVIOUS
      <4>. QED  BY <4>1, <4>2
    <3>6. NzTile(moves, h, c0, t.height, t.width)
      <4>1. NzTabled(moves, h, c0, t.height, t.width, g)
        BY <3>5 DEF NzTabled
      <4>. HIDE DEF moves, h, c0, g
      <4>. QED  BY <1>3, <1>4, <1>5, <4>1, NzTable
    <3>7. \A r \in 0 .. t.height - 1, c \in 0 .. t.width - 1 : At(r, c) \in moves
      <4>. HIDE DEF At, Row, moves
      <4>. QED  BY <3>1, <3>3
    <3>. QED  BY <3>6, <3>7
  <2>. QED  BY <2>1, <2>2
<1>9. ASSUME NEW r \in 0 .. t.height - 1, NEW c \in 0 .. t.width - 1
      PROVE  <<InPlace(j, t, r, c), InSource(j, t, r, c)>> \in moves
  <2>1. InPlace(j, t, r, c) = NzAt(h, c0, r, c)
    BY DEF InPlace, InRows
  <2>2. InSource(j, t, r, c) = RowMajorAt(j.n, InRow(j, t) + r, InCol(j, t) + c)
    BY DEF InSource, LayoutAt
  <2>3. src + RowMajorAt(j.n, r, c) = RowMajorAt(j.n, InRow(j, t) + r, InCol(j, t) + c)
    BY <1>2, <1>3, RowMajorSum
  <2>. QED  BY <1>8, <2>1, <2>2, <2>3
<1>10. InRoom(j, t) = h * width
  BY DEF InRoom, InRows
<1>11. \A x \in moves : x[1] \in 0 .. h * width - 1
  <2>. HIDE DEF moves, h, c0, width
  <2>. QED  BY <1>3, <1>4, <1>5, <1>7, <1>8, NzTileRange
<1>. QED  BY <1>8, <1>9, <1>10, <1>11 DEF BringsTile, NzTile

\* Multiples of a multiple.
LEMMA MultipleOfMultiple ==
    ASSUME NEW a \in Nat, NEW b \in Positive, NEW c \in Positive, a % b = 0, b % c = 0
    PROVE  a % c = 0
<1> DEFINE p == a \div b  q == b \div c
<1>1. p \in Nat /\ a = b * p /\ q \in Nat /\ b = c * q
  BY CeilOfMultiple, DivMod DEF Positive
<1>. HIDE DEF p, q
<1>2. a = c * (q * p) + 0 /\ q * p \in Nat /\ 0 \in 0 .. c - 1
  <2>1. (c * q) * p = c * (q * p) /\ q * p \in Nat
    BY <1>1 DEF Positive
  <2>. QED  BY <1>1, <2>1 DEF Positive
<1>. QED  BY <1>2, DivModUnique

\* Column blocks copied one by one are copied as one strided copy would.
LEMMA BurstsOneByOne ==
    ASSUME NEW src \in Int, NEW count \in Nat, NEW len \in Nat, NEW from \in Int, NEW to \in Int,
           NEW c0 \in Positive
    PROVE  UNION {Bursts(i * to * c0, src + i * from * c0, 1, len, 0, 0, c0) : i \in 0 .. count - 1}
             = Bursts(0, src, count, len, from - len, to - len, c0)
<1> DEFINE Block1(i) == Bursts(i * to * c0, src + i * from * c0, 1, len, 0, 0, c0)
           all == UNION {Block1(i) : i \in 0 .. count - 1}
           whole == Bursts(0, src, count, len, from - len, to - len, c0)
           At(i, e) == <<0 + i * (len + (to - len)) * c0 + e, src + i * (len + (from - len)) * c0 + e>>
           One(i, e) == <<i * to * c0 + 0 * (len + 0) * c0 + e, src + i * from * c0 + 0 * (len + 0) * c0 + e>>
<1>1. ASSUME NEW i \in 0 .. count - 1, NEW e \in 0 .. len * c0 - 1 PROVE One(i, e) = At(i, e)
  <2>1. len + (to - len) = to /\ len + (from - len) = from /\ 0 * (len + 0) * c0 = 0
    BY DEF Positive
  <2>2. i * to * c0 \in Int /\ i * from * c0 \in Int
    BY DEF Positive
  <2>. QED  BY <2>1, <2>2
<1>2. ASSUME NEW x \in all PROVE x \in whole
  <2>1. PICK i \in 0 .. count - 1 : x \in Block1(i)
    OBVIOUS
  <2>2. PICK b \in 0 .. 1 - 1, e \in 0 .. len * c0 - 1 :
          x = <<i * to * c0 + b * (len + 0) * c0 + e, src + i * from * c0 + b * (len + 0) * c0 + e>>
    BY <2>1 DEF Bursts
  <2>3. b = 0
    OBVIOUS
  <2>4. x = At(i, e)
    BY <1>1, <2>2, <2>3
  <2>. QED  BY <2>4 DEF Bursts
<1>3. ASSUME NEW x \in whole PROVE x \in all
  <2>1. PICK i \in 0 .. count - 1, e \in 0 .. len * c0 - 1 : x = At(i, e)
    BY DEF Bursts
  <2>2. x = One(i, e)
    BY <1>1, <2>1
  <2>3. x \in Block1(i)
    <3>1. 0 \in 0 .. 1 - 1
      OBVIOUS
    <3>. QED  BY <2>2, <3>1 DEF Bursts
  <2>. HIDE DEF Block1
  <2>. QED  BY <2>3
<1>. HIDE DEF all, whole
<1>4. all = whole
  BY <1>2, <1>3
<1>. QED  BY <1>4 DEF all, whole

\* A burst without gaps copies a vector.
LEMMA BurstLine ==
    ASSUME NEW src \in Int, NEW len \in Nat, NEW c0 \in Positive
    PROVE  /\ Clean(Bursts(0, src, 1, len, 0, 0, c0))
           /\ \A c \in 0 .. len * c0 - 1 : <<c, src + c>> \in Bursts(0, src, 1, len, 0, 0, c0)
           /\ \A x \in Bursts(0, src, 1, len, 0, 0, c0) : x[1] \in 0 .. len * c0 - 1
<1> DEFINE moves == Bursts(0, src, 1, len, 0, 0, c0)
           w == len * c0
           f == [r \in 0 .. 0 |-> [c \in 0 .. w - 1 |-> c]]
           g == [r \in 0 .. 0 |-> [c \in 0 .. w - 1 |-> src + c]]
<1>1. w \in Nat
  BY MulMonotone DEF Positive
<1>2. ASSUME NEW c \in 0 .. w - 1
      PROVE  <<0 + 0 * (len + 0) * c0 + c, src + 0 * (len + 0) * c0 + c>> = <<c, src + c>>
  <2>. HIDE DEF w
  <2>1. 0 * (len + 0) * c0 = 0
    BY DEF Positive
  <2>. QED  BY <1>1, <2>1
<1>3. \A c \in 0 .. w - 1 : <<c, src + c>> \in moves
  <2>. SUFFICES ASSUME NEW c \in 0 .. w - 1 PROVE <<c, src + c>> \in moves
    OBVIOUS
  <2>1. 0 \in 0 .. 1 - 1
    OBVIOUS
  <2>2. <<0 + 0 * (len + 0) * c0 + c, src + 0 * (len + 0) * c0 + c>> \in moves
    BY <2>1 DEF Bursts
  <2>. HIDE DEF moves, w
  <2>. QED  BY <1>2, <2>2
<1>4. ASSUME NEW x \in moves PROVE \E c \in 0 .. w - 1 : x = <<c, src + c>>
  <2>1. PICK b \in 0 .. 1 - 1, c \in 0 .. w - 1 : x = <<0 + b * (len + 0) * c0 + c, src + b * (len + 0) * c0 + c>>
    BY DEF Bursts
  <2>2. b = 0
    OBVIOUS
  <2>. HIDE DEF w
  <2>. QED  BY <1>2, <2>1, <2>2
<1>5. Clean(moves)
  <2>. HIDE DEF moves, w
  <2>1. Tabled(moves, 1, w, f, g)
    <3>. SUFFICES ASSUME NEW x \in moves PROVE \E r \in 0 .. 1 - 1, c \in 0 .. w - 1 : x = <<f[r][c], g[r][c]>>
      BY DEF Tabled
    <3>1. PICK c \in 0 .. w - 1 : x = <<c, src + c>>
      BY <1>4
    <3>2. 0 \in 0 .. 1 - 1 /\ f[0][c] = c /\ g[0][c] = src + c
      OBVIOUS
    <3>. QED  BY <3>1, <3>2
  <2>2. Distinct(f, 1, w)
    BY DEF Distinct
  <2>. HIDE DEF f, g
  <2>. QED  BY <1>1, <2>1, <2>2, TableClean
<1>. HIDE DEF moves
<1>6. \A x \in moves : x[1] \in 0 .. w - 1
  <2>. HIDE DEF w
  <2>. QED  BY <1>4
<1>. QED  BY <1>3, <1>5, <1>6 DEF moves

-----------------------------------------------------------------------------
\* What the lemmas below use of an input tile.
LEMMA InFacts ==
    ASSUME NEW j, j.unit = "in", InLegal(j), NEW t \in Tiles(j)
    PROVE  /\ Grid(j) /\ j.m \in Nat /\ j.n \in Nat /\ j.baseM \in Positive /\ j.baseN \in Positive
           /\ j.size \in Nat \ {0} /\ j.size <= Block
           /\ InC0(j) \in Positive /\ Cube \in Positive
           /\ InRow(j, t) \in Nat /\ InRow(j, t) < j.m /\ InCol(j, t) \in Nat /\ InCol(j, t) < j.n
           /\ t.height \in Nat \ {0} /\ t.width \in Nat \ {0} /\ t.height <= j.baseM /\ t.width <= j.baseN
           /\ t.height = Least(j.baseM, j.m - InRow(j, t)) /\ t.width = Least(j.baseN, j.n - InCol(j, t))
           /\ InCol(j, t) % j.baseN = 0
<1>1. Grid(j) /\ j.m \in Nat /\ j.n \in Nat /\ j.baseM \in Positive /\ j.baseN \in Positive
        /\ j.size \in Nat \ {0} /\ j.size <= Block
  BY DEF InLegal, Grid, Positive
<1>2. InC0(j) \in Positive /\ Cube \in Positive
  BY <1>1, C0Positive DEF InC0
<1>3. j.unit \in {"in", "out", "load", "attention"}
  OBVIOUS
<1>4. /\ t.row * j.baseM \in Nat /\ t.row * j.baseM < j.m /\ t.col * j.baseN \in Nat /\ t.col * j.baseN < j.n
      /\ t.height \in 1 .. j.baseM /\ t.width \in 1 .. j.baseN
      /\ t.height = Least(j.baseM, j.m - t.row * j.baseM) /\ t.width = Least(j.baseN, j.n - t.col * j.baseN)
      /\ (t.col * j.baseN) % j.baseN = 0
  BY <1>1, <1>3, TileFacts
<1>. QED  BY <1>1, <1>2, <1>4 DEF InRow, InCol, Positive

\* CopyNZ2NZ, in one strided copy or block by block, brings a tile of a matrix in column blocks.
LEMMA ParamsNZBringsTile ==
    ASSUME NEW j, j.unit = "in", InLegal(j), j.policy = "CopyWithParams", j.format = "NZ", NEW t \in Tiles(j)
    PROVE  BringsTile(CopyNZ2NZ(j, t), j, t)
<1> DEFINE h == L1Rows(j, t.height)
           c0 == InC0(j)
           gRow == CeilAlign(j.m, Cube)
           rows == CeilAlign(t.height, Cube)
           blocks == CeilDiv(t.width, c0)
           src == InRow(j, t) * c0 + InCol(j, t) * gRow
           moves == CopyNZ2NZ(j, t)
           width == CeilAlign(t.width, c0)
<1>1. /\ j.m \in Nat /\ j.n \in Nat /\ j.size \in Nat \ {0} /\ j.size <= Block /\ c0 \in Positive /\ Cube \in Positive
      /\ InRow(j, t) \in Nat /\ InCol(j, t) \in Nat /\ t.height \in Nat \ {0} /\ t.width \in Nat \ {0}
  BY InFacts
<1>2. InCol(j, t) % c0 = 0
  <2>1. InCol(j, t) % j.baseN = 0 /\ j.baseN \in Positive
    BY InFacts
  <2>2. j.baseN % c0 = 0
    BY DEF InLegal, InC0
  <2>. QED  BY <1>1, <2>1, <2>2, MultipleOfMultiple
<1>3. /\ gRow \in Nat /\ rows \in Nat /\ t.height <= rows /\ blocks \in Nat /\ width \in Nat /\ t.width <= width
      /\ width = blocks * c0 /\ width % c0 = 0
  <2>1. gRow \in Nat
    BY <1>1, CeilFacts
  <2>2. rows \in Nat /\ t.height <= rows
    BY <1>1, CeilFacts
  <2>3. blocks \in Nat /\ width \in Nat /\ t.width <= width /\ width % c0 = 0
    BY <1>1, CeilFacts
  <2>4. width = blocks * c0
    BY DEF CeilAlign
  <2>. QED  BY <2>1, <2>2, <2>3, <2>4
<1>4. h \in Nat /\ rows <= h
  BY <1>1, L1RowsFacts
<1>5. src = NzAt(gRow, c0, InRow(j, t), InCol(j, t)) /\ src \in Nat
  <2>1. src = NzAt(gRow, c0, InRow(j, t), InCol(j, t))
    BY <1>1, <1>2, <1>3, NzSum
  <2>2. InRow(j, t) * c0 \in Nat /\ InCol(j, t) * gRow \in Nat
    BY <1>1, <1>3, MulMonotone DEF Positive
  <2>. QED  BY <2>1, <2>2
<1>6. moves = Bursts(0, src, blocks, rows, gRow - rows, h - rows, c0)
  <2>1. CASE gRow - rows < StrideLimit
    <3>1. ~(gRow - rows >= StrideLimit)
      BY <1>3, <2>1, StrideAssumption
    <3>. QED  BY <3>1 DEF CopyNZ2NZ
  <2>2. CASE gRow - rows >= StrideLimit
    <3>1. rows >= Cube
      <4>1. rows = Cube * CeilDiv(t.height, Cube) /\ CeilDiv(t.height, Cube) \in Nat
        BY <1>1, CeilFacts
      <4> DEFINE k == CeilDiv(t.height, Cube)
      <4>. HIDE DEF k, rows
      <4>2. k # 0
        <5>1. SUFFICES ASSUME k = 0 PROVE FALSE
          OBVIOUS
        <5>2. rows = Cube * 0
          BY <4>1, <5>1 DEF k
        <5>. QED  BY <1>1, <1>3, <5>2 DEF Positive
      <4>3. 1 * Cube <= k * Cube
        BY <1>1, <4>1, <4>2, MulMonotone DEF Positive, k
      <4>4. k * Cube = Cube * k
        BY <1>1, <4>1 DEF Positive, k
      <4>. QED  BY <1>1, <4>1, <4>3, <4>4 DEF Positive, k
    <3>2. ~(gRow < StrideLimit + Cube)
      BY <1>1, <1>3, <2>2, <3>1, StrideAssumption DEF Positive
    <3>3. j.m % Cube = 0 /\ ~KAligned(j)
      BY <3>2 DEF InLegal
    <3>4. gRow = j.m /\ h = rows
      BY <1>1, <3>3, CeilOfMultiple, L1RowsFacts
    <3>5. moves = UNION {Bursts(i * rows * c0, src + i * j.m * c0, 1, rows, 0, 0, c0) : i \in 0 .. blocks - 1}
      BY <2>2 DEF CopyNZ2NZ
    <3>6. moves = Bursts(0, src, blocks, rows, j.m - rows, rows - rows, c0)
      <4>. HIDE DEF moves, rows, c0, src, blocks
      <4>1. src \in Int /\ blocks \in Nat /\ rows \in Nat /\ rows \in Int /\ j.m \in Int /\ c0 \in Positive
        BY <1>1, <1>3, <1>5
      <4>. QED  BY ONLY <3>5, <4>1, BurstsOneByOne
    <3>. QED  BY <3>4, <3>6
  <2>. QED  BY <1>3, <2>1, <2>2, StrideAssumption
<1>7. /\ NzTile(moves, h, c0, rows, width)
      /\ \A r \in 0 .. rows - 1, c \in 0 .. width - 1 : <<NzAt(h, c0, r, c), src + NzAt(gRow, c0, r, c)>> \in moves
  <2>. HIDE DEF moves, h, c0, gRow, rows, blocks, src, width
  <2>1. h - rows \in Nat /\ gRow - rows \in Int /\ rows + (h - rows) = h /\ rows + (gRow - rows) = gRow /\ src \in Int
    BY <1>3, <1>4, <1>5
  <2>2. /\ NzTile(moves, rows + (h - rows), c0, rows, blocks * c0)
        /\ \A r \in 0 .. rows - 1, c \in 0 .. blocks * c0 - 1 :
             <<NzAt(rows + (h - rows), c0, r, c), src + NzAt(rows + (gRow - rows), c0, r, c)>> \in moves
    <3>1. /\ c0 \in Positive /\ blocks \in Nat /\ rows \in Nat
          /\ moves = Bursts(0, src, blocks, rows, gRow - rows, h - rows, c0)
      BY <1>1, <1>3, <1>6
    <3>. QED  BY ONLY <2>1, <3>1, BurstsTile
  <2>. QED  BY <1>3, <2>1, <2>2
<1>8. ASSUME NEW r \in 0 .. t.height - 1, NEW c \in 0 .. t.width - 1
      PROVE  <<InPlace(j, t, r, c), InSource(j, t, r, c)>> \in moves
  <2>1. InPlace(j, t, r, c) = NzAt(h, c0, r, c)
    BY DEF InPlace, InRows
  <2>2. InSource(j, t, r, c) = NzAt(gRow, c0, InRow(j, t) + r, InCol(j, t) + c)
    BY DEF InSource, LayoutAt, InC0
  <2>3. src + NzAt(gRow, c0, r, c) = NzAt(gRow, c0, InRow(j, t) + r, InCol(j, t) + c)
    <3>. HIDE DEF src, gRow, c0
    <3>1. gRow \in Int /\ c0 \in Positive /\ InRow(j, t) \in Nat /\ InCol(j, t) \in Nat /\ r \in Nat /\ c \in Nat
      BY <1>1, <1>3
    <3>. QED  BY <1>2, <1>5, <3>1, NzSum
  <2>4. r \in 0 .. rows - 1 /\ c \in 0 .. width - 1
    BY <1>1, <1>3
  <2>. QED  BY <1>7, <2>1, <2>2, <2>3, <2>4
<1>9. InRoom(j, t) = h * width
  BY DEF InRoom, InRows
<1>10. \A x \in moves : x[1] \in 0 .. h * width - 1
  <2>. HIDE DEF moves, h, c0, width, rows, blocks, src, gRow
  <2>1. /\ h \in Nat /\ c0 \in Positive /\ rows \in Int /\ rows <= h /\ width \in Int /\ width \in Nat
        /\ width <= width /\ width % c0 = 0 /\ NzTile(moves, h, c0, rows, width)
    BY <1>1, <1>3, <1>4, <1>7
  <2>. QED  BY <2>1, NzTileRange
<1>. QED  BY <1>7, <1>8, <1>9, <1>10 DEF BringsTile, NzTile

\* The smaller of two is one of them.
LEMMA LeastFacts ==
    ASSUME NEW a \in Int, NEW b \in Int
    PROVE  Least(a, b) \in {a, b} /\ Least(a, b) <= a /\ Least(a, b) <= b
BY DEF Least

\* A vector is brought in one burst, whole blocks of it.
LEMMA VectorBringsTile ==
    ASSUME NEW j, j.unit = "in", InLegal(j), j.format = "VECTOR", NEW t \in Tiles(j),
           NEW len \in Nat, InRoom(j, t) = len * InC0(j), t.width <= len * InC0(j)
    PROVE  BringsTile(Bursts(0, InCol(j, t), 1, len, 0, 0, InC0(j)), j, t)
<1> DEFINE c0 == InC0(j)
           moves == Bursts(0, InCol(j, t), 1, len, 0, 0, c0)
<1>1. /\ j.m = 1 /\ j.n \in Nat /\ c0 \in Positive /\ InRow(j, t) \in Nat /\ InRow(j, t) < j.m /\ InCol(j, t) \in Nat
      /\ t.height \in Nat \ {0} /\ t.width \in Nat \ {0} /\ t.height = Least(j.baseM, j.m - InRow(j, t))
      /\ j.baseM \in Positive
  BY InFacts DEF InLegal
<1>2. InRow(j, t) = 0 /\ t.height <= 1
  <2>1. InRow(j, t) = 0
    BY <1>1
  <2>2. t.height <= 1
    BY <1>1, <2>1, LeastFacts DEF Positive
  <2>. QED  BY <2>1, <2>2
<1>3. /\ Clean(moves) /\ \A c \in 0 .. len * c0 - 1 : <<c, InCol(j, t) + c>> \in moves
      /\ \A x \in moves : x[1] \in 0 .. len * c0 - 1
  <2>. HIDE DEF moves, c0
  <2>1. InCol(j, t) \in Int
    BY <1>1
  <2>. QED  BY <1>1, <2>1, BurstLine DEF moves
<1>4. ASSUME NEW r \in 0 .. t.height - 1, NEW c \in 0 .. t.width - 1
      PROVE  <<InPlace(j, t, r, c), InSource(j, t, r, c)>> \in moves
  <2>1. r = 0
    BY <1>1, <1>2
  <2>2. InSource(j, t, r, c) = RowMajorAt(j.n, 0 + 0, InCol(j, t) + c)
    BY <1>2, <2>1 DEF InSource, LayoutAt
  <2>3. RowMajorAt(j.n, 0 + 0, InCol(j, t) + c) = InCol(j, t) + c
    BY <1>1 DEF RowMajorAt
  <2>4. InPlace(j, t, r, c) = c
    BY DEF InPlace
  <2>5. c \in 0 .. len * c0 - 1
    <3>1. len * c0 \in Nat
      BY <1>1, MulMonotone DEF Positive
    <3>. HIDE DEF c0
    <3>. QED  BY <1>1, <3>1 DEF c0
  <2>. QED  BY <1>3, <2>2, <2>3, <2>4, <2>5
<1>. QED  BY <1>3, <1>4 DEF BringsTile

\* Both ways to copy a vector do so.
LEMMA VectorsBringTile ==
    ASSUME NEW j, j.unit = "in", InLegal(j), j.format = "VECTOR", NEW t \in Tiles(j)
    PROVE  /\ j.policy = "CopyWithParams" => BringsTile(CopyVector2A1(j, t), j, t)
           /\ j.policy = "CopyWithLayout" => BringsTile(LayoutInVector(j, t), j, t)
<1> DEFINE c0 == InC0(j)
<1>1. c0 \in Positive /\ t.width \in Nat /\ j.baseN \in Nat /\ t.width <= j.baseN
  BY InFacts DEF Positive
<1>2. ASSUME j.policy = "CopyWithParams" PROVE BringsTile(CopyVector2A1(j, t), j, t)
  <2>1. InRoom(j, t) = CeilDiv(t.width, c0) * c0
    BY <1>2 DEF InRoom, CeilAlign
  <2>2. CeilDiv(t.width, c0) \in Nat /\ t.width <= CeilDiv(t.width, c0) * c0
    BY <1>1, CeilFacts DEF CeilAlign
  <2>. QED  BY <2>1, <2>2, VectorBringsTile DEF CopyVector2A1
<1>3. ASSUME j.policy = "CopyWithLayout" PROVE BringsTile(LayoutInVector(j, t), j, t)
  <2> DEFINE w == L1Width(j)
  <2>1. w \in Nat /\ w % c0 = 0 /\ j.baseN <= w
    BY <1>1, CeilFacts DEF L1Width
  <2>2. w = c0 * (w \div c0) /\ w \div c0 \in Nat
    BY <1>1, <2>1, CeilOfMultiple, DivMod
  <2>3. InRoom(j, t) = w
    BY <1>3 DEF InRoom
  <2> DEFINE k == w \div c0
  <2>. HIDE DEF w, k
  <2>4. w = k * c0 /\ t.width <= k * c0 /\ k \in Nat
    <3>1. c0 * k = k * c0
      BY <1>1, <2>2 DEF Positive, k
    <3>. QED  BY <1>1, <2>1, <2>2, <3>1 DEF k
  <2>5. LayoutInVector(j, t) = Bursts(0, InCol(j, t), 1, k, 0, 0, InC0(j))
    BY DEF LayoutInVector, k, w
  <2>. QED  BY <2>3, <2>4, <2>5, VectorBringsTile
<1>. QED  BY <1>2, <1>3

\* A full tile of L1, rounded up to fractals.
LEMMA L1Facts ==
    ASSUME NEW j, j.unit = "in", InLegal(j), NEW t \in Tiles(j)
    PROVE  /\ L1Height(j) \in Nat /\ j.baseM <= L1Height(j) /\ t.height <= L1Height(j)
           /\ L1Width(j) \in Nat /\ j.baseN <= L1Width(j) /\ t.width <= L1Width(j) /\ L1Width(j) % InC0(j) = 0
<1>1. /\ j.baseM \in Nat /\ j.baseN \in Nat /\ InC0(j) \in Positive /\ Cube \in Positive
      /\ t.height \in Nat /\ t.width \in Nat /\ t.height <= j.baseM /\ t.width <= j.baseN
  BY InFacts DEF Positive
<1>2. L1Height(j) \in Nat /\ j.baseM <= L1Height(j)
  BY <1>1, CeilFacts DEF L1Height
<1>3. L1Width(j) \in Nat /\ j.baseN <= L1Width(j) /\ L1Width(j) % InC0(j) = 0
  BY <1>1, CeilFacts DEF L1Width
<1>. QED  BY <1>1, <1>2, <1>3

\* CopyWithLayout of a row-major matrix clips the full tile at the matrix.
LEMMA LayoutNDBringsTile ==
    ASSUME NEW j, j.unit = "in", InLegal(j), j.policy = "CopyWithLayout", j.format \in {"ND", "ND_ALIGN"},
           NEW t \in Tiles(j)
    PROVE  BringsTile(LayoutInND(j, t), j, t)
<1> DEFINE h == L1Height(j)
           c0 == InC0(j)
           src == InOffset(j, t)
           moves == LayoutInND(j, t)
           width == L1Width(j)
           nValue == Least(h, j.m - InRow(j, t))
           dValue == Least(width, j.n - InCol(j, t))
<1>1. /\ j.m \in Nat /\ j.n \in Nat /\ c0 \in Positive
      /\ InRow(j, t) \in Nat /\ InRow(j, t) < j.m /\ InCol(j, t) \in Nat /\ InCol(j, t) < j.n
      /\ t.height \in Nat \ {0} /\ t.width \in Nat \ {0} /\ j.baseM \in Nat /\ j.baseN \in Nat
      /\ t.height = Least(j.baseM, j.m - InRow(j, t)) /\ t.width = Least(j.baseN, j.n - InCol(j, t))
  BY InFacts DEF Positive
<1>2. /\ h \in Nat /\ j.baseM <= h /\ t.height <= h
      /\ width \in Nat /\ j.baseN <= width /\ t.width <= width /\ width % c0 = 0
  BY L1Facts
<1>3. /\ nValue \in Nat /\ nValue <= h /\ t.height <= nValue
      /\ dValue \in Nat /\ dValue <= width /\ t.width <= dValue
  <2>. HIDE DEF h, width
  <2>. QED  BY <1>1, <1>2 DEF Least
<1>4. src = RowMajorAt(j.n, InRow(j, t), InCol(j, t)) /\ src \in Int
  <2>1. src = RowMajorAt(j.n, InRow(j, t), InCol(j, t))
    BY DEF InOffset, LayoutAt
  <2>. QED  BY <1>1, <2>1, RowMajorSum
<1>5. moves = Nd2Nz(0, src, nValue, dValue, j.n, h, 1, c0)
  BY DEF LayoutInND
<1>6. /\ NzTile(moves, h, c0, nValue, dValue)
      /\ \A r \in 0 .. nValue - 1, c \in 0 .. dValue - 1 : <<NzAt(h, c0, r, c), src + RowMajorAt(j.n, r, c)>> \in moves
  <2>. HIDE DEF moves, h, c0, src, nValue, dValue
  <2>. QED  BY <1>1, <1>2, <1>3, <1>4, <1>5, Nd2NzTile
<1>7. ASSUME NEW r \in 0 .. t.height - 1, NEW c \in 0 .. t.width - 1
      PROVE  <<InPlace(j, t, r, c), InSource(j, t, r, c)>> \in moves
  <2>1. InPlace(j, t, r, c) = NzAt(h, c0, r, c)
    BY DEF InPlace, InRows
  <2>2. InSource(j, t, r, c) = RowMajorAt(j.n, InRow(j, t) + r, InCol(j, t) + c)
    BY DEF InSource, LayoutAt
  <2>3. src + RowMajorAt(j.n, r, c) = RowMajorAt(j.n, InRow(j, t) + r, InCol(j, t) + c)
    <3>. HIDE DEF src
    <3>. QED  BY <1>1, <1>4, RowMajorSum
  <2>4. r \in 0 .. nValue - 1 /\ c \in 0 .. dValue - 1
    <3>. HIDE DEF nValue, dValue
    <3>. QED  BY <1>1, <1>3
  <2>. QED  BY <1>6, <2>1, <2>2, <2>3, <2>4
<1>8. InRoom(j, t) = h * width
  BY DEF InRoom, InRows
<1>9. \A x \in moves : x[1] \in 0 .. h * width - 1
  <2>. HIDE DEF moves, h, c0, width, nValue, dValue
  <2>. QED  BY <1>1, <1>2, <1>3, <1>6, NzTileRange
<1>. QED  BY <1>6, <1>7, <1>8, <1>9 DEF BringsTile, NzTile

\* CopyWithLayout of a matrix in column blocks takes a full tile of blocks.
LEMMA LayoutNZBringsTile ==
    ASSUME NEW j, j.unit = "in", InLegal(j), j.policy = "CopyWithLayout", j.format = "NZ", NEW t \in Tiles(j)
    PROVE  BringsTile(LayoutInNZ(j, t), j, t)
<1> DEFINE h == L1Height(j)
           c0 == InC0(j)
           gRow == CeilAlign(j.m, Cube)
           src == InOffset(j, t)
           moves == LayoutInNZ(j, t)
           width == L1Width(j)
           blocks == width \div c0
<1>1. /\ j.m \in Nat /\ j.n \in Nat /\ c0 \in Positive /\ Cube \in Positive
      /\ InRow(j, t) \in Nat /\ InCol(j, t) \in Nat
      /\ t.height \in Nat \ {0} /\ t.width \in Nat \ {0}
  BY InFacts
<1>2. h \in Nat /\ t.height <= h /\ width \in Nat /\ t.width <= width /\ width % c0 = 0
  BY L1Facts
<1>3. InCol(j, t) % c0 = 0
  <2>1. InCol(j, t) % j.baseN = 0 /\ j.baseN \in Positive
    BY InFacts
  <2>2. j.baseN % c0 = 0
    BY DEF InLegal, InC0
  <2>. QED  BY <1>1, <2>1, <2>2, MultipleOfMultiple
<1>4. gRow \in Nat
  BY <1>1, CeilFacts
<1>5. src = NzAt(gRow, c0, InRow(j, t), InCol(j, t)) /\ src \in Int
  <2>1. src = NzAt(gRow, c0, InRow(j, t), InCol(j, t))
    BY DEF InOffset, LayoutAt, InC0
  <2>2. gRow \in Int /\ InRow(j, t) \in Int
    BY <1>1, <1>4
  <2>. HIDE DEF src, gRow, c0
  <2>. QED  BY <1>1, <2>1, <2>2, NzForm
<1>6. blocks \in Nat /\ blocks * c0 = width
  <2>1. width = c0 * blocks /\ blocks \in Nat
    BY <1>1, <1>2, CeilOfMultiple, DivMod
  <2>. HIDE DEF blocks, c0, width
  <2>2. c0 * blocks = blocks * c0
    BY <1>1, <2>1 DEF Positive
  <2>. QED  BY <2>1, <2>2
<1>7. moves = Bursts(0, src, blocks, h, gRow - h, 0, c0)
  BY DEF LayoutInNZ
<1>8. /\ NzTile(moves, h, c0, h, width)
      /\ \A r \in 0 .. h - 1, c \in 0 .. width - 1 : <<NzAt(h, c0, r, c), src + NzAt(gRow, c0, r, c)>> \in moves
  <2>. HIDE DEF moves, h, c0, gRow, blocks, src, width
  <2>1. gRow - h \in Int /\ h + 0 = h /\ h + (gRow - h) = gRow /\ 0 \in Nat
    BY <1>2, <1>4
  <2>2. /\ NzTile(moves, h + 0, c0, h, blocks * c0)
        /\ \A r \in 0 .. h - 1, c \in 0 .. blocks * c0 - 1 :
             <<NzAt(h + 0, c0, r, c), src + NzAt(h + (gRow - h), c0, r, c)>> \in moves
    <3>1. c0 \in Positive /\ h \in Nat /\ src \in Int /\ blocks \in Nat
      BY <1>1, <1>2, <1>5, <1>6
    <3>. QED  BY ONLY <1>7, <2>1, <3>1, BurstsTile
  <2>. QED  BY <1>6, <2>1, <2>2
<1>9. ASSUME NEW r \in 0 .. t.height - 1, NEW c \in 0 .. t.width - 1
      PROVE  <<InPlace(j, t, r, c), InSource(j, t, r, c)>> \in moves
  <2>1. InPlace(j, t, r, c) = NzAt(h, c0, r, c)
    BY DEF InPlace, InRows
  <2>2. InSource(j, t, r, c) = NzAt(gRow, c0, InRow(j, t) + r, InCol(j, t) + c)
    BY DEF InSource, LayoutAt, InC0
  <2>3. src + NzAt(gRow, c0, r, c) = NzAt(gRow, c0, InRow(j, t) + r, InCol(j, t) + c)
    <3>. HIDE DEF src, gRow, c0
    <3>1. gRow \in Int /\ InRow(j, t) \in Nat /\ InCol(j, t) \in Nat /\ r \in Nat /\ c \in Nat
      BY <1>1, <1>4
    <3>. QED  BY <1>1, <1>3, <1>5, <3>1, NzSum
  <2>4. r \in 0 .. h - 1 /\ c \in 0 .. width - 1
    <3>. HIDE DEF h, width
    <3>. QED  BY <1>1, <1>2
  <2>. QED  BY <1>8, <2>1, <2>2, <2>3, <2>4
<1>10. InRoom(j, t) = h * width
  BY DEF InRoom, InRows
<1>11. \A x \in moves : x[1] \in 0 .. h * width - 1
  <2>. HIDE DEF moves, h, c0, width, blocks, src, gRow
  <2>1. h \in Int /\ h <= h /\ width \in Int /\ width <= width
    BY <1>2
  <2>. QED  BY <1>1, <1>2, <1>8, <2>1, NzTileRange
<1>. QED  BY <1>8, <1>10, <1>9, <1>11 DEF BringsTile, NzTile

-----------------------------------------------------------------------------
\* Every specialisation of the copy in brings its tile.
LEMMA CopyInBringsTile ==
    ASSUME NEW j, j.unit = "in", InLegal(j), NEW t \in Tiles(j)
    PROVE  BringsTile(CopyIn(j, t), j, t)
<1>1. CASE j.policy = "CopyWithParams" /\ j.format = "ND"
  BY <1>1, ParamsNDBringsTile DEF CopyIn
<1>2. CASE j.policy = "CopyWithParams" /\ j.format = "NZ"
  BY <1>2, ParamsNZBringsTile DEF CopyIn
<1>3. CASE j.policy = "CopyWithParams" /\ j.format = "VECTOR"
  BY <1>3, VectorsBringTile DEF CopyIn
<1>4. CASE j.policy = "CopyWithLayout" /\ j.format \in {"ND", "ND_ALIGN"}
  BY <1>4, LayoutNDBringsTile DEF CopyIn
<1>5. CASE j.policy = "CopyWithLayout" /\ j.format = "NZ"
  BY <1>5, LayoutNZBringsTile DEF CopyIn
<1>6. CASE j.policy = "CopyWithLayout" /\ j.format = "VECTOR"
  BY <1>6, VectorsBringTile DEF CopyIn
<1>. QED  BY <1>1, <1>2, <1>3, <1>4, <1>5, <1>6 DEF InLegal

\* Renaming the places and the sources of moves one to one keeps them clean.
LEMMA RenamedClean ==
    ASSUME NEW moves, Clean(moves), NEW b
    PROVE  Clean(IntoBuffer(b, moves)) /\ Clean(OutOfBuffer(b, moves))
<1> DEFINE e == [mv \in moves |-> <<<<b, mv[1]>>, <<0, mv[2]>>>>]
           f == [mv \in moves |-> <<<<0, mv[1]>>, <<b, mv[2]>>>>]
<1>1. IntoBuffer(b, moves) = {e[mv] : mv \in moves} /\ OutOfBuffer(b, moves) = {f[mv] : mv \in moves}
  BY DEF IntoBuffer, OutOfBuffer
<1>2. IsFiniteSet(IntoBuffer(b, moves)) /\ IsFiniteSet(OutOfBuffer(b, moves))
  <2>. HIDE DEF e, f
  <2>1. IsFiniteSet(moves)
    BY DEF Clean
  <2>. QED  BY <1>1, <2>1, ImageFinite
<1>3. ASSUME NEW x \in IntoBuffer(b, moves), NEW y \in IntoBuffer(b, moves), x[1] = y[1] PROVE x = y
  <2>1. PICK mx \in moves : x = <<<<b, mx[1]>>, <<0, mx[2]>>>>
    BY DEF IntoBuffer
  <2>2. PICK my \in moves : y = <<<<b, my[1]>>, <<0, my[2]>>>>
    BY DEF IntoBuffer
  <2>3. mx[1] = my[1]
    BY <1>3, <2>1, <2>2
  <2>. QED  BY <2>1, <2>2, <2>3 DEF Clean
<1>4. ASSUME NEW x \in OutOfBuffer(b, moves), NEW y \in OutOfBuffer(b, moves), x[1] = y[1] PROVE x = y
  <2>1. PICK mx \in moves : x = <<<<0, mx[1]>>, <<b, mx[2]>>>>
    BY DEF OutOfBuffer
  <2>2. PICK my \in moves : y = <<<<0, my[1]>>, <<b, my[2]>>>>
    BY DEF OutOfBuffer
  <2>3. mx[1] = my[1]
    BY <1>4, <2>1, <2>2
  <2>. QED  BY <2>1, <2>2, <2>3 DEF Clean
<1>. QED  BY <1>2, <1>3, <1>4, Zenon DEF Clean

\* Tiles that have a buffer each never write each other's places.
LEMMA BufferedSound ==
    ASSUME NEW j, j.unit \in {"in", "out", "load", "attention"}, Grid(j),
           \A t \in Tiles(j) :
             /\ Clean(Moves(j, t))
             /\ \A rc \in Cells(j, t) :
                  <<PlaceOf(j, t, rc[1], rc[2]), SourceOf(j, t, rc[1], rc[2])>> \in Moves(j, t)
             /\ \A x \in Moves(j, t) : x[1] \in RoomOf(j, t) /\ x[1][1] = Buffer(t)
    PROVE  Sound(j)
<1>1. ASSUME NEW t \in Tiles(j), NEW u \in Tiles(j) \ {t}, NEW x \in Moves(j, t), NEW y \in Moves(j, u)
      PROVE  x[1] # y[1]
  <2>1. Buffer(u) # Buffer(t)
    BY TileFacts
  <2>. QED  BY <2>1
<1>. QED  BY <1>1 DEF Sound

\* So the copies in of a legal job are sound.
LEMMA InSound == ASSUME NEW j, j.unit = "in", InLegal(j) PROVE Sound(j)
<1>. SUFFICES ASSUME NEW t \in Tiles(j)
              PROVE  /\ Clean(Moves(j, t))
                     /\ \A rc \in Cells(j, t) :
                          <<PlaceOf(j, t, rc[1], rc[2]), SourceOf(j, t, rc[1], rc[2])>> \in Moves(j, t)
                     /\ \A x \in Moves(j, t) : x[1] \in RoomOf(j, t) /\ x[1][1] = Buffer(t)
  <2>1. Grid(j) /\ j.unit \in {"in", "out", "load", "attention"}
    BY DEF InLegal
  <2>. QED  BY <2>1, BufferedSound
<1> DEFINE moves == CopyIn(j, t)
<1>1. BringsTile(moves, j, t)
  BY CopyInBringsTile
<1>2. Moves(j, t) = {<<<<Buffer(t), mv[1]>>, <<0, mv[2]>>>> : mv \in moves}
  BY DEF Moves
<1>. HIDE DEF moves
<1>3. Clean(Moves(j, t))
  <2>1. Moves(j, t) = IntoBuffer(Buffer(t), moves) /\ Clean(moves)
    BY <1>1, <1>2 DEF IntoBuffer, BringsTile
  <2>. QED  BY <2>1, RenamedClean
<1>4. ASSUME NEW rc \in Cells(j, t)
      PROVE  <<PlaceOf(j, t, rc[1], rc[2]), SourceOf(j, t, rc[1], rc[2])>> \in Moves(j, t)
  <2>1. rc[1] \in 0 .. t.height - 1 /\ rc[2] \in 0 .. t.width - 1
    BY DEF Cells
  <2>2. <<InPlace(j, t, rc[1], rc[2]), InSource(j, t, rc[1], rc[2])>> \in moves
    BY <1>1, <2>1 DEF BringsTile
  <2>3. PlaceOf(j, t, rc[1], rc[2]) = <<Buffer(t), InPlace(j, t, rc[1], rc[2])>>
    BY DEF PlaceOf
  <2>4. SourceOf(j, t, rc[1], rc[2]) = <<0, InSource(j, t, rc[1], rc[2])>>
    BY DEF SourceOf, InSource
  <2>. QED  BY <1>2, <2>2, <2>3, <2>4
<1>5. ASSUME NEW x \in Moves(j, t) PROVE x[1] \in RoomOf(j, t) /\ x[1][1] = Buffer(t)
  <2>1. PICK mv \in moves : x = <<<<Buffer(t), mv[1]>>, <<0, mv[2]>>>>
    BY <1>2
  <2>2. RoomOf(j, t) = {<<Buffer(t), a>> : a \in 0 .. InRoom(j, t) - 1}
    BY DEF RoomOf
  <2>. QED  BY <1>1, <2>1, <2>2 DEF BringsTile
<1>. QED  BY <1>3, <1>4, <1>5

-----------------------------------------------------------------------------
(* Copies out of L0C with parameters.                                      *)
(* The part of the result that a copy out of one tile may write, in rows and columns.               *)
OutRows(j) == IF j.format = "NZ" /\ OutPolicy(j.policy) # "CopyWithParams" THEN CeilAlign(j.m, Cube) ELSE j.m
OutCols(j) == IF j.format = "NZ" THEN CeilAlign(j.n, Cube) ELSE Aligned(j, j.n)
(* The rows of a column block in L0C.                                                               *)
L0cHeight(j, t) == IF OutPolicy(j.policy) \in LayoutPolicies THEN FullHeight(j) ELSE CeilAlign(t.height, Cube)

(* The moves take H rows and W columns from the tile's first cell to their places.                  *)
TakesPart(moves, j, t, H, W) ==
  /\ H \in t.height .. j.baseM /\ RowOf(j, t) + H <= OutRows(j)
  /\ W \in t.width .. j.baseN /\ ColOf(j, t) + W <= OutCols(j)
  /\ \A x \in moves : \E i \in 0 .. H - 1, k \in 0 .. W - 1 :
        <<0, x[1]>> = OutPlace(j, RowOf(j, t) + i, ColOf(j, t) + k) /\ x = <<x[1], NzAt(L0cHeight(j, t), Cube, i, k)>>
  /\ \A i \in 0 .. H - 1, k \in 0 .. W - 1 :
        \E x \in moves : <<0, x[1]>> = OutPlace(j, RowOf(j, t) + i, ColOf(j, t) + k)
                          /\ x = <<x[1], NzAt(L0cHeight(j, t), Cube, i, k)>>
TakesTile(moves, j, t) == \E H \in Nat, W \in Nat : TakesPart(moves, j, t, H, W)

(* No two cells of the result have one place.                                                       *)
PlacesApart(j) ==
  \A r1, r2 \in 0 .. OutRows(j) - 1, c1, c2 \in 0 .. OutCols(j) - 1 :
     OutPlace(j, r1, c1) = OutPlace(j, r2, c2) => r1 = r2 /\ c1 = c2

\* With parameters, rows are written with or without their padding.
LEMMA ParamsOutRows ==
    ASSUME NEW j, OutLegal(j), OutPolicy(j.policy) = "CopyWithParams", j.format # "NZ", NEW t
    PROVE  CopyOut(j, t) \in {RowMajorOut(j, t, t.width), RowMajorOut(j, t, Aligned(j, t.width))}
<1>. USE DEF CopyOut, ParamsND_910B, ParamsQuantND_910B, ParamsND_910_95, ParamsNDToUB, ParamsQuantND_910_95,
             ParamsQuantNDToUB, LayoutPolicies
<1>1. CASE j.device = "910B" /\ j.pos = "GM"
  BY <1>1
<1>2. CASE j.device = "910_95" /\ j.pos = "GM"
  BY <1>2
<1>3. CASE j.device = "910_95" /\ j.pos = "UB"
  BY <1>3
<1>. QED  BY <1>1, <1>2, <1>3 DEF OutLegal

\* The sizes of the result.
LEMMA OutSizes ==
    ASSUME NEW j, Grid(j)
    PROVE  /\ C0(j.size) \in Positive /\ Cube \in Positive
           /\ OutRows(j) \in Nat /\ j.m <= OutRows(j)
           /\ OutCols(j) \in Nat /\ j.n <= OutCols(j)
           /\ \A x \in Nat : Aligned(j, x) \in Nat /\ x <= Aligned(j, x)
<1>1. C0(j.size) \in Positive /\ Cube \in Positive
  BY C0Positive DEF Grid
<1>2. CeilAlign(j.m, Cube) \in Nat /\ j.m <= CeilAlign(j.m, Cube)
  BY <1>1, CeilFacts DEF Grid
<1>3. CeilAlign(j.n, Cube) \in Nat /\ j.n <= CeilAlign(j.n, Cube)
  BY <1>1, CeilFacts DEF Grid
<1>4. ASSUME NEW x \in Nat PROVE Aligned(j, x) \in Nat /\ x <= Aligned(j, x)
  <2>1. CeilAlign(x, C0(j.size)) \in Nat /\ x <= CeilAlign(x, C0(j.size))
    BY <1>1, CeilFacts
  <2>. QED  BY <2>1 DEF Aligned
<1>5. j.m \in Nat /\ j.n \in Nat
  BY DEF Grid
<1>. QED  BY <1>1, <1>2, <1>3, <1>4, <1>5 DEF OutRows, OutCols

\* Two tiles have no row and column in common.
LEMMA TilesApart ==
    ASSUME NEW b \in Nat \ {0}, NEW r \in Nat, NEW u \in Nat, NEW i \in 0 .. b - 1, NEW k \in 0 .. b - 1,
           r * b + i = u * b + k
    PROVE  r = u /\ i = k
<1>1. r * b = b * r /\ u * b = b * u
  OBVIOUS
<1>2. (b * r + i) \div b = r /\ (b * u + k) \div b = u
  BY DivModUnique DEF Positive
<1>3. (b * r + i) % b = i /\ (b * u + k) % b = k
  BY DivModUnique DEF Positive
<1>4. b * r + i = b * u + k
  BY <1>1
<1>. QED  BY <1>2, <1>3, <1>4

\* Copies that take each tile to its own part of the result are sound.
LEMMA TakenSound ==
    ASSUME NEW j, j.unit = "out", Grid(j), ~IsSplit(j), PlacesApart(j),
           \A t \in Tiles(j) : TakesTile(CopyOut(j, t), j, t)
    PROVE  Sound(j)
<1>1. \A t \in Tiles(j) : Moves(j, t) = {<<<<0, mv[1]>>, <<Buffer(t), mv[2]>>>> : mv \in CopyOut(j, t)}
  BY DEF Moves
<1>2. ASSUME NEW t \in Tiles(j), NEW x \in Moves(j, t)
      PROVE  \E i \in 0 .. j.baseM - 1, k \in 0 .. j.baseN - 1 :
               /\ x = <<OutPlace(j, RowOf(j, t) + i, ColOf(j, t) + k), <<Buffer(t), NzAt(L0cHeight(j, t), Cube, i, k)>>>>
               /\ RowOf(j, t) + i \in 0 .. OutRows(j) - 1 /\ ColOf(j, t) + k \in 0 .. OutCols(j) - 1
  <2>1. PICK mv \in CopyOut(j, t) : x = <<<<0, mv[1]>>, <<Buffer(t), mv[2]>>>>
    BY <1>1
  <2>2. PICK H \in Nat, W \in Nat : TakesPart(CopyOut(j, t), j, t, H, W)
    BY DEF TakesTile
  <2>3. PICK i \in 0 .. H - 1, k \in 0 .. W - 1 :
          <<0, mv[1]>> = OutPlace(j, RowOf(j, t) + i, ColOf(j, t) + k) /\ mv = <<mv[1], NzAt(L0cHeight(j, t), Cube, i, k)>>
    BY <2>1, <2>2, Zenon DEF TakesPart
  <2>4. mv[2] = NzAt(L0cHeight(j, t), Cube, i, k)
    <3>1. mv = <<mv[1], NzAt(L0cHeight(j, t), Cube, i, k)>>
      BY <2>3, Zenon
    <3>. QED  BY ONLY <3>1
  <2>5. x = <<OutPlace(j, RowOf(j, t) + i, ColOf(j, t) + k), <<Buffer(t), NzAt(L0cHeight(j, t), Cube, i, k)>>>>
    BY <2>1, <2>3, <2>4, Zenon
  <2>6. RowOf(j, t) \in Nat /\ ColOf(j, t) \in Nat /\ j.baseM \in Nat /\ j.baseN \in Nat
    BY TileFacts DEF RowOf, ColOf, Grid
  <2>7. /\ H <= j.baseM /\ W <= j.baseN /\ RowOf(j, t) + H <= OutRows(j) /\ ColOf(j, t) + W <= OutCols(j)
    <3>1. H \in t.height .. j.baseM /\ W \in t.width .. j.baseN /\ RowOf(j, t) + H <= OutRows(j) /\ ColOf(j, t) + W <= OutCols(j)
      BY <2>2, Zenon DEF TakesPart
    <3>. QED  BY <3>1
  <2>8. i \in 0 .. j.baseM - 1 /\ k \in 0 .. j.baseN - 1
    BY <2>6, <2>7
  <2>10. OutRows(j) \in Int /\ OutCols(j) \in Int
    BY OutSizes
  <2>9. RowOf(j, t) + i \in 0 .. OutRows(j) - 1 /\ ColOf(j, t) + k \in 0 .. OutCols(j) - 1
    BY <2>6, <2>7, <2>10
  <2>. QED  BY <2>5, <2>8, <2>9
<1>3. ASSUME NEW t \in Tiles(j), NEW u \in Tiles(j), NEW x \in Moves(j, t), NEW y \in Moves(j, u), x[1] = y[1]
      PROVE  t = u /\ x = y
  <2>1. PICK i \in 0 .. j.baseM - 1, k \in 0 .. j.baseN - 1 :
               /\ x = <<OutPlace(j, RowOf(j, t) + i, ColOf(j, t) + k), <<Buffer(t), NzAt(L0cHeight(j, t), Cube, i, k)>>>>
               /\ RowOf(j, t) + i \in 0 .. OutRows(j) - 1 /\ ColOf(j, t) + k \in 0 .. OutCols(j) - 1
    BY <1>2
  <2>2. PICK p \in 0 .. j.baseM - 1, q \in 0 .. j.baseN - 1 :
               /\ y = <<OutPlace(j, RowOf(j, u) + p, ColOf(j, u) + q), <<Buffer(u), NzAt(L0cHeight(j, u), Cube, p, q)>>>>
               /\ RowOf(j, u) + p \in 0 .. OutRows(j) - 1 /\ ColOf(j, u) + q \in 0 .. OutCols(j) - 1
    BY <1>2
  <2>3. OutPlace(j, RowOf(j, t) + i, ColOf(j, t) + k) = OutPlace(j, RowOf(j, u) + p, ColOf(j, u) + q)
    BY <1>3, <2>1, <2>2, Zenon
  <2>4. RowOf(j, t) + i = RowOf(j, u) + p /\ ColOf(j, t) + k = ColOf(j, u) + q
    BY <2>1, <2>2, <2>3, Zenon DEF PlacesApart
  <2>5. t.row \in Nat /\ u.row \in Nat /\ t.col \in Nat /\ u.col \in Nat
    BY TileFacts
  <2>6. t.row = u.row /\ i = p
    <3>1. t.row * j.baseM + i = u.row * j.baseM + p /\ j.baseM \in Nat \ {0}
      BY <2>4 DEF RowOf, Grid
    <3>. QED  BY ONLY <2>5, <3>1, i \in 0 .. j.baseM - 1, p \in 0 .. j.baseM - 1, TilesApart
  <2>7. t.col = u.col /\ k = q
    <3>1. t.col * j.baseN + k = u.col * j.baseN + q /\ j.baseN \in Nat \ {0}
      BY <2>4 DEF ColOf, Grid
    <3>. QED  BY ONLY <2>5, <3>1, k \in 0 .. j.baseN - 1, q \in 0 .. j.baseN - 1, TilesApart
  <2>8. t = u
    BY <2>6, <2>7, TileFacts DEF Buffer
  <2>. QED  BY <2>1, <2>2, <2>6, <2>7, <2>8, Zenon
<1>4. ASSUME NEW t \in Tiles(j) PROVE IsFiniteSet(Moves(j, t))
  <2> DEFINE f == [i \in 0 .. j.baseM - 1 |-> [k \in 0 .. j.baseN - 1 |-> OutPlace(j, RowOf(j, t) + i, ColOf(j, t) + k)]]
             g == [i \in 0 .. j.baseM - 1 |-> [k \in 0 .. j.baseN - 1 |-> <<Buffer(t), NzAt(L0cHeight(j, t), Cube, i, k)>>]]
  <2>1. ASSUME NEW x \in Moves(j, t) PROVE \E i \in 0 .. j.baseM - 1, k \in 0 .. j.baseN - 1 : x = <<f[i][k], g[i][k]>>
    <3>1. PICK i \in 0 .. j.baseM - 1, k \in 0 .. j.baseN - 1 :
            x = <<OutPlace(j, RowOf(j, t) + i, ColOf(j, t) + k), <<Buffer(t), NzAt(L0cHeight(j, t), Cube, i, k)>>>>
      BY <1>2
    <3>2. /\ f[i][k] = OutPlace(j, RowOf(j, t) + i, ColOf(j, t) + k)
          /\ g[i][k] = <<Buffer(t), NzAt(L0cHeight(j, t), Cube, i, k)>>
      OBVIOUS
    <3>. HIDE DEF f, g
    <3>. QED  BY <3>1, <3>2, Zenon
  <2>. HIDE DEF f, g
  <2>2. Tabled(Moves(j, t), j.baseM, j.baseN, f, g) /\ j.baseM \in Int /\ j.baseN \in Int
    BY <2>1 DEF Tabled, Grid
  <2>. QED  BY <2>2, TableFinite
<1>5. ASSUME NEW t \in Tiles(j), NEW rc \in Cells(j, t)
      PROVE  <<PlaceOf(j, t, rc[1], rc[2]), SourceOf(j, t, rc[1], rc[2])>> \in Moves(j, t)
  <2>1. PICK H \in Nat, W \in Nat : TakesPart(CopyOut(j, t), j, t, H, W)
    BY DEF TakesTile
  <2>2. rc[1] \in 0 .. t.height - 1 /\ rc[2] \in 0 .. t.width - 1
    BY DEF Cells
  <2>3. t.height \in Nat /\ t.width \in Nat /\ H \in t.height .. j.baseM /\ W \in t.width .. j.baseN
        /\ j.baseM \in Nat /\ j.baseN \in Nat
    BY <2>1, TileFacts DEF TakesPart, Grid
  <2>4. rc[1] \in 0 .. H - 1 /\ rc[2] \in 0 .. W - 1
    BY <2>2, <2>3
  <2>5. PICK mv \in CopyOut(j, t) : /\ <<0, mv[1]>> = OutPlace(j, RowOf(j, t) + rc[1], ColOf(j, t) + rc[2])
                                    /\ mv = <<mv[1], NzAt(L0cHeight(j, t), Cube, rc[1], rc[2])>>
    BY <2>1, <2>4, Zenon DEF TakesPart
  <2>6. mv[2] = NzAt(L0cHeight(j, t), Cube, rc[1], rc[2])
    <3>1. mv = <<mv[1], NzAt(L0cHeight(j, t), Cube, rc[1], rc[2])>>
      BY <2>5, Zenon
    <3>. QED  BY ONLY <3>1
  <2>7. PlaceOf(j, t, rc[1], rc[2]) = OutPlace(j, RowOf(j, t) + rc[1], ColOf(j, t) + rc[2])
    BY DEF PlaceOf
  <2>8. SourceOf(j, t, rc[1], rc[2]) = <<Buffer(t), NzAt(L0cHeight(j, t), Cube, rc[1], rc[2])>>
    BY DEF SourceOf, L0cHeight
  <2>9. <<<<0, mv[1]>>, <<Buffer(t), mv[2]>>>> \in Moves(j, t)
    BY <1>1
  <2>. QED  BY <2>5, <2>6, <2>7, <2>8, <2>9, Zenon
<1>6. ASSUME NEW t \in Tiles(j), NEW x \in Moves(j, t) PROVE x[1] \in RoomOf(j, t)
  <2> DEFINE rows == IF j.format = "NZ" \/ IsSplit(j) THEN CeilAlign(j.m, Cube) ELSE j.m
  <2>1. RoomOf(j, t) = {OutPlace(j, r, c) : r \in 0 .. rows - 1, c \in 0 .. OutCols(j) - 1}
    BY DEF RoomOf, OutCols
  <2>5. OutRows(j) <= rows /\ OutRows(j) \in Nat /\ rows \in Nat
    <3>1. CeilAlign(j.m, Cube) \in Nat /\ j.m <= CeilAlign(j.m, Cube) /\ j.m \in Nat
      BY OutSizes, CeilFacts DEF Grid
    <3>. QED  BY <3>1 DEF OutRows
  <2>. HIDE DEF rows
  <2>2. PICK i \in 0 .. j.baseM - 1, k \in 0 .. j.baseN - 1 :
           /\ x = <<OutPlace(j, RowOf(j, t) + i, ColOf(j, t) + k), <<Buffer(t), NzAt(L0cHeight(j, t), Cube, i, k)>>>>
           /\ RowOf(j, t) + i \in 0 .. OutRows(j) - 1 /\ ColOf(j, t) + k \in 0 .. OutCols(j) - 1
    BY <1>2
  <2>3. x[1] = OutPlace(j, RowOf(j, t) + i, ColOf(j, t) + k)
    BY <2>2, Zenon
  <2>4. RowOf(j, t) + i \in 0 .. rows - 1
    BY <2>2, <2>5
  <2>. QED  BY <2>1, <2>2, <2>3, <2>4
<1>7. \A t \in Tiles(j) : Clean(Moves(j, t))
  BY <1>3, <1>4, Zenon DEF Clean
<1>8. \A t \in Tiles(j) : \A u \in Tiles(j) \ {t} : \A x \in Moves(j, t), y \in Moves(j, u) : x[1] # y[1]
  <2>. SUFFICES ASSUME NEW t \in Tiles(j), NEW u \in Tiles(j) \ {t}, NEW x \in Moves(j, t), NEW y \in Moves(j, u), x[1] = y[1]
                PROVE  FALSE
    OBVIOUS
  <2>1. u \in Tiles(j) /\ u # t
    OBVIOUS
  <2>. QED  BY <1>3, <2>1, Zenon
<1>. QED  BY <1>5, <1>6, <1>7, <1>8, Zenon DEF Sound

(* The distance of two rows of the result, and the height of its column blocks.                     *)
RowStride(j)   == Aligned(j, IF OutPolicy(j.policy) = "CopyWithParams" THEN DimN(j) ELSE j.n)
ColumnHeight(j) == IF OutPolicy(j.policy) = "CopyWithParams" THEN j.m ELSE CeilAlign(j.m, Cube)

\* The places of a result that is not split.
LEMMA WholePlaces ==
    ASSUME NEW j, ~IsSplit(j), NEW r, NEW c
    PROVE  OutPlace(j, r, c) = IF j.format = "NZ" THEN <<0, NzAt(ColumnHeight(j), Cube, r, c)>>
                                                  ELSE <<0, RowMajorAt(RowStride(j), r, c)>>
<1>1. OutPolicy(j.policy) \notin {"CopyOutSplitMWithParams", "CopyOutSplitNWithParams"}
  BY DEF IsSplit
<1>. QED  BY <1>1 DEF OutPlace, RowStride, ColumnHeight, IsSplit

\* Rows and columns of a tile's first cell.
LEMMA OutCorner ==
    ASSUME NEW j, j.unit = "out", Grid(j), NEW t \in Tiles(j)
    PROVE  /\ RowOf(j, t) \in Nat /\ RowOf(j, t) < j.m /\ RowOf(j, t) % j.baseM = 0
           /\ ColOf(j, t) \in Nat /\ ColOf(j, t) < j.n /\ ColOf(j, t) % j.baseN = 0
           /\ t.height \in 1 .. j.baseM /\ t.width \in 1 .. j.baseN
           /\ RowOf(j, t) + t.height <= j.m /\ ColOf(j, t) + t.width <= j.n
           /\ t.height = Least(j.baseM, j.m - RowOf(j, t)) /\ t.width = Least(j.baseN, j.n - ColOf(j, t))
           /\ j.m \in Nat /\ j.n \in Nat /\ j.baseM \in Nat \ {0} /\ j.baseN \in Nat \ {0}
BY TileFacts DEF RowOf, ColOf, Grid

\* Fixpipe with CFG_ROW_MAJOR takes a part of the tile to the rows of the result.
LEMMA RowMajorTakes ==
    ASSUME NEW j, j.unit = "out", Grid(j), ~IsSplit(j), j.format # "NZ", RowStride(j) \in Nat, NEW t \in Tiles(j),
           NEW H \in t.height .. j.baseM, RowOf(j, t) + H <= OutRows(j),
           NEW W \in t.width .. j.baseN, ColOf(j, t) + W <= OutCols(j),
           NEW dst, dst = RowMajorAt(RowStride(j), RowOf(j, t), ColOf(j, t)), NEW h, h = L0cHeight(j, t)
    PROVE  TakesTile(FixpipeRowMajor(dst, W, H, h, RowStride(j)), j, t)
<1> DEFINE s == RowStride(j)
           R == RowOf(j, t)
           C == ColOf(j, t)
           At(i, k) == <<RowMajorAt(s, i, k) + dst, NzAt(h, Cube, i, k)>>
           moves == FixpipeRowMajor(dst, W, H, h, s)
<1>1. moves = {At(i, k) : i \in 0 .. H - 1, k \in 0 .. W - 1}
  BY DEF FixpipeRowMajor
<1>2. R \in Nat /\ C \in Nat /\ H \in Nat /\ W \in Nat
  BY OutCorner
<1>3. ASSUME NEW i \in 0 .. H - 1, NEW k \in 0 .. W - 1
      PROVE  <<0, RowMajorAt(s, i, k) + dst>> = OutPlace(j, R + i, C + k)
  <2>1. RowMajorAt(s, i, k) + RowMajorAt(s, R, C) = RowMajorAt(s, R + i, C + k)
    <3>. HIDE DEF s, R, C
    <3>1. s \in Int /\ i \in Int /\ k \in Int /\ R \in Int /\ C \in Int
      BY <1>2 DEF s
    <3>. QED  BY ONLY <3>1 DEF RowMajorAt
  <2>2. OutPlace(j, R + i, C + k) = <<0, RowMajorAt(s, R + i, C + k)>>
    BY WholePlaces
  <2>3. dst = RowMajorAt(s, R, C)
    OBVIOUS
  <2>. QED  BY <2>1, <2>2, <2>3, Zenon
<1>4. ASSUME NEW i \in 0 .. H - 1, NEW k \in 0 .. W - 1
      PROVE  <<0, At(i, k)[1]>> = OutPlace(j, R + i, C + k) /\ At(i, k) = <<At(i, k)[1], NzAt(h, Cube, i, k)>>
  BY <1>3
<1>. HIDE DEF At, moves
<1>5. \A x \in moves : \E i \in 0 .. H - 1, k \in 0 .. W - 1 :
        <<0, x[1]>> = OutPlace(j, R + i, C + k) /\ x = <<x[1], NzAt(h, Cube, i, k)>>
  BY <1>1, <1>4
<1>6. \A i \in 0 .. H - 1, k \in 0 .. W - 1 : \E x \in moves :
        <<0, x[1]>> = OutPlace(j, R + i, C + k) /\ x = <<x[1], NzAt(h, Cube, i, k)>>
  <2>. SUFFICES ASSUME NEW i \in 0 .. H - 1, NEW k \in 0 .. W - 1
                PROVE  \E x \in moves : <<0, x[1]>> = OutPlace(j, R + i, C + k) /\ x = <<x[1], NzAt(h, Cube, i, k)>>
    OBVIOUS
  <2>1. At(i, k) \in moves
    BY <1>1
  <2>. QED  BY <1>4, <2>1
<1>7. TakesPart(moves, j, t, H, W)
  BY <1>5, <1>6, Zenon DEF TakesPart
<1>. QED  BY <1>2, <1>7, Zenon DEF TakesTile, moves

\* Fixpipe with CFG_NZ takes a part of the tile to the column blocks of the result.
LEMMA NzTakes ==
    ASSUME NEW j, j.unit = "out", Grid(j), ~IsSplit(j), j.format = "NZ", ColumnHeight(j) \in Nat, NEW t \in Tiles(j),
           ColOf(j, t) % Cube = 0,
           NEW H \in t.height .. j.baseM, RowOf(j, t) + H <= OutRows(j),
           NEW W \in t.width .. j.baseN, ColOf(j, t) + W <= OutCols(j),
           NEW dst, dst = NzAt(ColumnHeight(j), Cube, RowOf(j, t), ColOf(j, t)), NEW h, h = L0cHeight(j, t),
           NEW d, d = ColumnHeight(j) * Cube
    PROVE  TakesTile(FixpipeNz(dst, W, H, h, d), j, t)
<1> DEFINE s == ColumnHeight(j)
           R == RowOf(j, t)
           C == ColOf(j, t)
           At(i, k) == <<dst + (k \div Cube) * d + i * Cube + (k % Cube), NzAt(h, Cube, i, k)>>
           moves == FixpipeNz(dst, W, H, h, d)
<1>1. moves = {At(i, k) : i \in 0 .. H - 1, k \in 0 .. W - 1}
  BY DEF FixpipeNz
<1>2. R \in Nat /\ C \in Nat /\ H \in Nat /\ W \in Nat /\ Cube \in Positive
  BY OutCorner, OutSizes
<1>3. ASSUME NEW i \in 0 .. H - 1, NEW k \in 0 .. W - 1
      PROVE  <<0, dst + (k \div Cube) * d + i * Cube + (k % Cube)>> = OutPlace(j, R + i, C + k)
  <2>1. NzAt(s, Cube, R, C) + NzAt(s, Cube, i, k) = NzAt(s, Cube, R + i, C + k)
    <3>1. i \in Nat /\ k \in Nat /\ C % Cube = 0 /\ s \in Int
      OBVIOUS
    <3>. HIDE DEF s, R, C
    <3>. QED  BY ONLY <1>2, <3>1, NzSum
  <2>2. OutPlace(j, R + i, C + k) = <<0, NzAt(s, Cube, R + i, C + k)>>
    BY WholePlaces
  <2>3. dst + (k \div Cube) * d + i * Cube + (k % Cube) = dst + NzAt(s, Cube, i, k)
    <3> DEFINE q == k \div Cube  x == k % Cube  v == q * s * Cube  y == i * Cube
    <3>1. q \in Int /\ x \in Int /\ s \in Int /\ i \in Int /\ Cube \in Int
      BY <1>2, DivMod DEF Positive
    <3>2. dst \in Int
      <4>1. NzAt(s, Cube, R, C) \in Int
        BY <1>2, NzForm
      <4>. QED  BY <4>1
    <3>3. NzAt(s, Cube, i, k) = v + y + x
      BY DEF NzAt
    <3>4. q * d = v
      <4>1. d = s * Cube
        OBVIOUS
      <4>. HIDE DEF q, s
      <4>. QED  BY <3>1, <4>1
    <3>5. v \in Int /\ y \in Int
      <4>. HIDE DEF q, s
      <4>. QED  BY <3>1
    <3>. HIDE DEF v, y, q, x, s
    <3>6. dst + v + y + x = dst + (v + y + x)
      BY ONLY <3>1, <3>2, <3>5
    <3>. QED  BY <3>3, <3>4, <3>6 DEF q, x, y
  <2>4. dst = NzAt(s, Cube, R, C)
    OBVIOUS
  <2>. QED  BY <2>1, <2>2, <2>3, <2>4, Zenon
<1>4. ASSUME NEW i \in 0 .. H - 1, NEW k \in 0 .. W - 1
      PROVE  <<0, At(i, k)[1]>> = OutPlace(j, R + i, C + k) /\ At(i, k) = <<At(i, k)[1], NzAt(h, Cube, i, k)>>
  BY <1>3
<1>. HIDE DEF At, moves
<1>5. \A x \in moves : \E i \in 0 .. H - 1, k \in 0 .. W - 1 :
        <<0, x[1]>> = OutPlace(j, R + i, C + k) /\ x = <<x[1], NzAt(h, Cube, i, k)>>
  BY <1>1, <1>4
<1>6. \A i \in 0 .. H - 1, k \in 0 .. W - 1 : \E x \in moves :
        <<0, x[1]>> = OutPlace(j, R + i, C + k) /\ x = <<x[1], NzAt(h, Cube, i, k)>>
  <2>. SUFFICES ASSUME NEW i \in 0 .. H - 1, NEW k \in 0 .. W - 1
                PROVE  \E x \in moves : <<0, x[1]>> = OutPlace(j, R + i, C + k) /\ x = <<x[1], NzAt(h, Cube, i, k)>>
    OBVIOUS
  <2>1. At(i, k) \in moves
    BY <1>1
  <2>. QED  BY <1>4, <2>1
<1>7. TakesPart(moves, j, t, H, W)
  <2>1. \A i, k : NzAt(h, Cube, i, k) = NzAt(L0cHeight(j, t), Cube, i, k)
    OBVIOUS
  <2>. QED  BY <1>5, <1>6, <2>1 DEF TakesPart
<1>. QED  BY <1>2, <1>7, Zenon DEF TakesTile, moves

\* The places of a result that is not split are apart, as a row's stride and a block's height have room.
LEMMA WholeApart ==
    ASSUME NEW j, OutLegal(j), ~IsSplit(j)
    PROVE  /\ PlacesApart(j)
           /\ j.format # "NZ" => RowStride(j) \in Nat
           /\ ColumnHeight(j) \in Nat
<1>1. Grid(j) /\ j.m \in Nat /\ j.n \in Nat /\ C0(j.size) \in Positive /\ Cube \in Positive
  BY OutSizes DEF OutLegal, Grid
<1>2. DimN(j) \in Nat /\ j.n <= DimN(j)
  BY <1>1 DEF DimN, OutLegal
<1>3. Aligned(j, j.n) \in Nat /\ Aligned(j, DimN(j)) \in Nat /\ Aligned(j, j.n) <= Aligned(j, DimN(j))
  <2>1. CeilAlign(j.n, C0(j.size)) <= CeilAlign(DimN(j), C0(j.size))
    <3>1. CeilDiv(DimN(j), C0(j.size)) \in Nat /\ DimN(j) <= C0(j.size) * CeilDiv(DimN(j), C0(j.size))
          /\ CeilAlign(DimN(j), C0(j.size)) = C0(j.size) * CeilDiv(DimN(j), C0(j.size))
      BY <1>1, <1>2, CeilFacts
    <3> DEFINE k == CeilDiv(DimN(j), C0(j.size))  b == C0(j.size)  a == j.n
    <3>2. a <= b * k /\ k \in Nat /\ b \in Positive /\ a \in Nat
      <4>1. b * k \in Nat
        <5>. HIDE DEF k, b
        <5>1. k \in Nat /\ b \in Nat
          BY <3>1, <1>1 DEF k, b, Positive
        <5>. QED  BY <5>1, MulMonotone
      <4>. HIDE DEF k, b
      <4>. QED  BY <1>1, <1>2, <3>1, <4>1 DEF k, b
    <3>3. CeilAlign(a, b) <= b * k
      <4>. HIDE DEF a, b, k
      <4>. QED  BY <3>2, CeilLeast
    <3>. QED  BY <3>1, <3>3
  <2>. QED  BY <1>1, <1>2, <2>1, OutSizes DEF Aligned
<1>4. ColumnHeight(j) \in Nat /\ OutRows(j) \in Nat /\ (j.format = "NZ" => OutRows(j) = ColumnHeight(j))
  BY <1>1, OutSizes, CeilFacts DEF ColumnHeight, OutRows
<1>5. OutCols(j) \in Nat
  BY <1>1, OutSizes
<1>6. RowStride(j) \in Nat
  BY <1>3 DEF RowStride
<1>7. CASE j.format = "NZ"
  <2>. SUFFICES ASSUME NEW r1 \in 0 .. OutRows(j) - 1, NEW r2 \in 0 .. OutRows(j) - 1,
                       NEW c1 \in 0 .. OutCols(j) - 1, NEW c2 \in 0 .. OutCols(j) - 1,
                       OutPlace(j, r1, c1) = OutPlace(j, r2, c2)
                PROVE  r1 = r2 /\ c1 = c2
    BY <1>4, <1>6 DEF PlacesApart
  <2>1. NzAt(ColumnHeight(j), Cube, r1, c1) = NzAt(ColumnHeight(j), Cube, r2, c2)
    <3>1. <<0, NzAt(ColumnHeight(j), Cube, r1, c1)>> = <<0, NzAt(ColumnHeight(j), Cube, r2, c2)>>
      BY <1>7, WholePlaces, Zenon
    <3>. QED  BY ONLY <3>1
  <2>2. r1 \in 0 .. ColumnHeight(j) - 1 /\ r2 \in 0 .. ColumnHeight(j) - 1 /\ c1 \in Nat /\ c2 \in Nat
    BY <1>4, <1>5, <1>7
  <2>. QED  BY ONLY <1>1, <1>4, <2>1, <2>2, NzInjective
<1>8. CASE j.format # "NZ"
  <2>. SUFFICES ASSUME NEW r1 \in 0 .. OutRows(j) - 1, NEW r2 \in 0 .. OutRows(j) - 1,
                       NEW c1 \in 0 .. OutCols(j) - 1, NEW c2 \in 0 .. OutCols(j) - 1,
                       OutPlace(j, r1, c1) = OutPlace(j, r2, c2)
                PROVE  r1 = r2 /\ c1 = c2
    BY <1>4, <1>6 DEF PlacesApart
  <2>1. RowMajorAt(RowStride(j), r1, c1) = RowMajorAt(RowStride(j), r2, c2)
    <3>1. <<0, RowMajorAt(RowStride(j), r1, c1)>> = <<0, RowMajorAt(RowStride(j), r2, c2)>>
      BY <1>8, WholePlaces, Zenon
    <3>. QED  BY ONLY <3>1
  <2>2. OutCols(j) <= RowStride(j)
    BY <1>3, <1>8 DEF OutCols, RowStride
  <2>3. r1 \in Nat /\ r2 \in Nat /\ c1 \in 0 .. RowStride(j) - 1 /\ c2 \in 0 .. RowStride(j) - 1
    BY <1>4, <1>5, <1>6, <2>2
  <2>. QED  BY ONLY <1>6, <2>1, <2>3, RowMajorInjective
<1>. QED  BY <1>7, <1>8

\* Rounding a length up at a multiple of the unit.
LEMMA AlignedInside ==
    ASSUME NEW b \in Positive, NEW c \in Nat, c % b = 0, NEW w \in Nat, NEW n \in Nat, c + w <= n
    PROVE  CeilAlign(w, b) \in Nat /\ w <= CeilAlign(w, b) /\ c + CeilAlign(w, b) <= CeilAlign(n, b)
<1>1. /\ CeilAlign(w, b) \in Nat /\ w <= CeilAlign(w, b) /\ n <= CeilAlign(n, b) /\ CeilDiv(n, b) \in Nat
      /\ CeilAlign(n, b) = b * CeilDiv(n, b) /\ CeilAlign(n, b) \in Nat
  BY CeilFacts
<1> DEFINE q == c \div b  p == CeilDiv(n, b)
<1>2. q \in Nat /\ c = b * q
  BY CeilOfMultiple, DivMod
<1>. HIDE DEF q, p
<1>3. p \in Nat /\ b \in Nat /\ b * q \in Nat /\ b * p \in Nat /\ b * q <= b * p
  BY <1>1, <1>2 DEF p, Positive
<1>4. CASE q <= p
  <2>1. w <= b * (p - q) /\ p - q \in Nat /\ b * (p - q) = b * p - b * q
    <3>1. p - q \in Nat /\ b * (p - q) = b * p - b * q
      BY <1>2, <1>3, <1>4
    <3>. QED  BY ONLY <1>1, <1>2, <1>3, <3>1, c + w <= n, w \in Nat, n \in Nat DEF p
  <2>2. CeilAlign(w, b) <= b * (p - q)
    BY <2>1, CeilLeast
  <2>. QED  BY ONLY <1>1, <1>2, <1>3, <2>1, <2>2 DEF p
<1>5. CASE p < q
  <2>1. p * b + b <= q * b
    BY <1>2, <1>3, <1>5, MulMonotone
  <2>2. p * b = b * p /\ q * b = b * q
    BY <1>2, <1>3
  <2>. QED  BY ONLY <1>1, <1>2, <1>3, <2>1, <2>2, b \in Positive, c + w <= n, w \in Nat, n \in Nat DEF p, Positive
<1>. QED  BY <1>2, <1>3, <1>4, <1>5

\* A multiple is no less than a rounded smaller number.
LEMMA AlignedBelow ==
    ASSUME NEW b \in Positive, NEW a \in Nat, a % b = 0, NEW w \in Nat, w <= a
    PROVE  CeilAlign(w, b) <= a
<1>1. 0 % b = 0 /\ CeilAlign(a, b) = a /\ 0 \in Nat /\ 0 + w <= a
  BY CeilOfMultiple, ZeroDivMod
<1>2. 0 + CeilAlign(w, b) <= CeilAlign(a, b) /\ CeilAlign(w, b) \in Nat
  BY <1>1, AlignedInside
<1>. QED  BY <1>1, <1>2

\* The width of a tile with its padding.
LEMMA PaddedWidth ==
    ASSUME NEW j, j.unit = "out", Grid(j), j.format = "ND_ALIGN" => j.baseN % C0(j.size) = 0, j.format # "NZ",
           NEW t \in Tiles(j)
    PROVE  /\ Aligned(j, t.width) \in t.width .. j.baseN /\ ColOf(j, t) + Aligned(j, t.width) <= OutCols(j)
           /\ ColOf(j, t) + t.width <= OutCols(j)
<1>1. /\ ColOf(j, t) \in Nat /\ t.width \in 1 .. j.baseN /\ ColOf(j, t) + t.width <= j.n
      /\ j.n \in Nat /\ j.baseN \in Nat \ {0} /\ ColOf(j, t) % j.baseN = 0
      /\ OutCols(j) \in Nat /\ j.n <= OutCols(j) /\ C0(j.size) \in Positive
  BY OutCorner, OutSizes
<1>2. CASE j.format # "ND_ALIGN"
  BY <1>1, <1>2 DEF Aligned, OutCols
<1>3. CASE j.format = "ND_ALIGN"
  <2>1. ColOf(j, t) % C0(j.size) = 0
    BY <1>1, <1>3, MultipleOfMultiple DEF Positive
  <2>2. /\ CeilAlign(t.width, C0(j.size)) \in Nat /\ t.width <= CeilAlign(t.width, C0(j.size))
        /\ ColOf(j, t) + CeilAlign(t.width, C0(j.size)) <= CeilAlign(j.n, C0(j.size))
    BY <1>1, <2>1, AlignedInside
  <2>3. CeilAlign(t.width, C0(j.size)) <= j.baseN
    BY <1>1, <1>3, AlignedBelow
  <2>4. Aligned(j, t.width) = CeilAlign(t.width, C0(j.size)) /\ OutCols(j) = CeilAlign(j.n, C0(j.size))
    BY <1>3 DEF Aligned, OutCols
  <2>. QED  BY <1>1, <2>2, <2>3, <2>4
<1>. QED  BY <1>2, <1>3

\* With parameters, rows go to their places.
LEMMA ParamsRowsTake ==
    ASSUME NEW j, j.unit = "out", OutLegal(j), OutPolicy(j.policy) = "CopyWithParams", j.format # "NZ", NEW t \in Tiles(j)
    PROVE  TakesTile(CopyOut(j, t), j, t)
<1>1. Grid(j) /\ ~IsSplit(j) /\ (j.format = "ND_ALIGN" => j.baseN % C0(j.size) = 0)
  BY DEF OutLegal, IsSplit
<1>2. /\ Aligned(j, t.width) \in t.width .. j.baseN /\ ColOf(j, t) + Aligned(j, t.width) <= OutCols(j)
      /\ ColOf(j, t) + t.width <= OutCols(j)
  BY <1>1, PaddedWidth
<1>3. t.height \in t.height .. j.baseM /\ RowOf(j, t) + t.height <= OutRows(j)
      /\ t.width \in t.width .. j.baseN
  BY <1>1, OutCorner DEF OutRows
<1>4. RowStride(j) \in Nat
  BY <1>1, WholeApart
<1>5. ASSUME NEW w \in t.width .. j.baseN, ColOf(j, t) + w <= OutCols(j)
      PROVE  TakesTile(RowMajorOut(j, t, w), j, t)
  <2>1. RowMajorOut(j, t, w) =
          FixpipeRowMajor(RowMajorAt(RowStride(j), RowOf(j, t), ColOf(j, t)), w, t.height, L0cHeight(j, t), RowStride(j))
    BY DEF RowMajorOut, RowStride, L0cHeight, RowMajorAt, LayoutPolicies
  <2>. QED  BY <1>1, <1>3, <1>4, <1>5, <2>1, RowMajorTakes
<1>6. CopyOut(j, t) \in {RowMajorOut(j, t, t.width), RowMajorOut(j, t, Aligned(j, t.width))}
  BY ParamsOutRows
<1>7. TakesTile(RowMajorOut(j, t, t.width), j, t) /\ TakesTile(RowMajorOut(j, t, Aligned(j, t.width)), j, t)
  BY <1>2, <1>3, <1>5
<1>. QED  BY <1>6, <1>7, Zenon

\* The halves have fractals as wide as they are high.
LEMMA HalfSize ==
    ASSUME NEW j, Grid(j), j.size = 2
    PROVE  C0(j.size) = Cube
<1>1. Cube \in Positive /\ Block = 2 * Cube
  BY C0Positive DEF Grid
<1>2. (2 * Cube + 0) \div 2 = Cube
  BY <1>1 DEF Positive
<1>. QED  BY <1>1, <1>2 DEF C0, Positive

\* The distance of two column blocks, put together from the tile's part and the rest.
LEMMA NzStrideWhole ==
    ASSUME NEW j, j.unit = "out", Grid(j), j.size = 2, NEW t \in Tiles(j)
    PROVE  NzStride(j, t) = j.m
<1>1. /\ Cube \in Positive /\ Block = 2 * Cube /\ t.height \in Nat /\ j.m \in Nat /\ t.height <= j.m
  <2>1. RowOf(j, t) \in Nat /\ t.height \in 1 .. j.baseM /\ RowOf(j, t) + t.height <= j.m /\ j.m \in Nat
    BY OutCorner
  <2>2. Cube \in Positive /\ Block = 2 * Cube
    BY C0Positive DEF Grid
  <2>. QED  BY <2>1, <2>2
<1> DEFINE rest == j.m - t.height  h == t.height
<1>2. rest \in Nat /\ h \in Nat /\ rest + h = j.m
  BY <1>1
<1>. HIDE DEF rest, h
<1>3. Block \in Positive /\ 0 \in 0 .. Block - 1
  BY <1>1 DEF Positive
<1>4. rest * Cube * 2 = Block * rest + 0 /\ h * Cube * 4 = Block * (2 * h) + 0 /\ 2 * h \in Nat
  BY <1>1, <1>2 DEF Positive
<1>5. (Block * rest + 0) \div Block = rest /\ (Block * (2 * h) + 0) \div Block = 2 * h
  BY <1>2, <1>3, <1>4, DivModUnique
<1>6. ((2 * h) * 2) \div 4 = h
  BY <1>2
<1>7. NzStride(j, t) = (rest * Cube * 2) \div Block + (((h * Cube * 4) \div Block) * 2) \div 4
  BY DEF NzStride, rest, h
<1>. QED  BY <1>2, <1>4, <1>5, <1>6, <1>7

\* With parameters, column blocks go to their places.
LEMMA ParamsNzTake ==
    ASSUME NEW j, j.unit = "out", OutLegal(j), OutPolicy(j.policy) = "CopyWithParams", j.format = "NZ", NEW t \in Tiles(j)
    PROVE  TakesTile(CopyOut(j, t), j, t)
<1>1. Grid(j) /\ ~IsSplit(j) /\ j.size = 2 /\ j.baseN % Cube = 0
  BY DEF OutLegal, IsSplit
<1>2. /\ ColOf(j, t) \in Nat /\ RowOf(j, t) \in Nat /\ t.width \in 1 .. j.baseN /\ ColOf(j, t) + t.width <= j.n
      /\ t.height \in 1 .. j.baseM /\ RowOf(j, t) + t.height <= j.m
      /\ j.m \in Nat /\ j.n \in Nat /\ j.baseN \in Nat \ {0} /\ ColOf(j, t) % j.baseN = 0
      /\ Cube \in Positive
  BY <1>1, OutCorner, OutSizes
<1>3. ColOf(j, t) % Cube = 0
  BY <1>1, <1>2, MultipleOfMultiple DEF Positive
<1> DEFINE w == CeilAlign(t.width, Cube)
<1>4. w \in t.width .. j.baseN /\ ColOf(j, t) + w <= OutCols(j)
  <2>1. /\ w \in Nat /\ t.width <= w /\ ColOf(j, t) + w <= CeilAlign(j.n, Cube)
    BY <1>2, <1>3, AlignedInside
  <2>2. w <= j.baseN
    BY <1>1, <1>2, AlignedBelow
  <2>. QED  BY <1>2, <2>1, <2>2 DEF OutCols
<1>5. t.height \in t.height .. j.baseM /\ RowOf(j, t) + t.height <= OutRows(j)
  BY <1>2 DEF OutRows
<1>6. ColumnHeight(j) = j.m
  BY DEF ColumnHeight
<1>7. ColOf(j, t) * j.m + RowOf(j, t) * Cube = NzAt(ColumnHeight(j), Cube, RowOf(j, t), ColOf(j, t))
  <2>1. NzAt(j.m, Cube, RowOf(j, t), ColOf(j, t)) = RowOf(j, t) * Cube + ColOf(j, t) * j.m
    <3> DEFINE R == RowOf(j, t)  C == ColOf(j, t)  h == j.m
    <3>1. 0 \in Nat /\ h \in Int /\ R \in Nat /\ C \in Nat /\ C % Cube = 0 /\ Cube \in Positive
      BY <1>2, <1>3
    <3>. HIDE DEF R, C, h
    <3>2. NzAt(h, Cube, R, C) = R * Cube + C * h
      BY ONLY <3>1, NzSum
    <3>. QED  BY <3>2 DEF R, C, h
  <2> DEFINE a == RowOf(j, t) * Cube  b == ColOf(j, t) * j.m
  <2>2. a \in Int /\ b \in Int
    BY <1>2 DEF Positive
  <2>. HIDE DEF a, b
  <2>3. b + a = a + b
    BY <2>2
  <2>. QED  BY <1>6, <2>1, <2>3 DEF a, b
<1>8. NzStride(j, t) * C0(j.size) = ColumnHeight(j) * Cube
  BY <1>1, <1>6, NzStrideWhole, HalfSize
<1>9. CopyOut(j, t) = NzOut(j, t)
  <2>. USE DEF CopyOut, ParamsNZ_910B, ParamsQuantNZ_910B, ParamsNZ_910_95, ParamsNZToUB, ParamsQuantNZ_910_95,
               ParamsQuantNZToUB, LayoutPolicies
  <2>1. CASE j.device = "910B" /\ j.pos = "GM"
    BY <2>1
  <2>2. CASE j.device = "910_95" /\ j.pos = "GM"
    BY <2>2
  <2>3. CASE j.device = "910_95" /\ j.pos = "UB"
    BY <2>3
  <2>. QED  BY <2>1, <2>2, <2>3 DEF OutLegal
<1>10. CeilAlign(t.height, Cube) = L0cHeight(j, t)
  BY DEF L0cHeight, LayoutPolicies
<1>11. NzOut(j, t) = FixpipeNz(ColOf(j, t) * j.m + RowOf(j, t) * Cube, w, t.height, CeilAlign(t.height, Cube),
                               NzStride(j, t) * C0(j.size))
  BY DEF NzOut, CeilAlign
<1>. HIDE DEF w
<1>12. ColumnHeight(j) \in Nat
  BY <1>2, <1>6
<1>13. TakesTile(NzOut(j, t), j, t)
  BY <1>1, <1>3, <1>4, <1>5, <1>7, <1>8, <1>10, <1>11, <1>12, NzTakes
<1>. QED  BY <1>9, <1>13

-----------------------------------------------------------------------------
(* Copies out of L0C with layouts.                                         *)
\* A tile in L0C, with layouts: as high and as wide as a full one.
LEMMA FullTile ==
    ASSUME NEW j, OutLegal(j), OutPolicy(j.policy) \in LayoutPolicies
    PROVE  FullHeight(j) = j.baseM /\ FullWidth(j) = j.baseN /\ \A t : L0cHeight(j, t) = j.baseM
<1>1. /\ Cube \in Positive /\ j.baseM \in Nat /\ j.baseN \in Nat /\ j.baseM % Cube = 0 /\ j.baseN % Cube = 0
  BY OutSizes DEF OutLegal, Grid
<1>2. CeilAlign(j.baseM, Cube) = j.baseM /\ CeilAlign(j.baseN, Cube) = j.baseN
  BY <1>1, CeilOfMultiple
<1>. QED  BY <1>2 DEF FullHeight, FullWidth, L0cHeight

\* With layouts, the specialisations that write rows.
LEMMA LayoutOutRows ==
    ASSUME NEW j, OutLegal(j), OutPolicy(j.policy) \in LayoutPolicies, j.format # "NZ", NEW t
    PROVE  \E w \in {InsideRow(j, t), Aligned(j, InsideRow(j, t))}, s \in {j.n, Aligned(j, j.n)} :
             CopyOut(j, t) = LayoutRowMajor(j, t, w, s)
<1>. USE DEF CopyOut, LayoutND_910B, LayoutND_910_95, LayoutNDToUB, UnitFlagND_910B, UnitFlagND_910_95, LayoutPolicies
<1>1. CASE OutPolicy(j.policy) = "CopyWithLayout" /\ j.device = "910B" /\ j.pos = "GM"
  BY <1>1
<1>2. CASE OutPolicy(j.policy) = "CopyWithLayout" /\ j.device = "910_95" /\ j.pos = "GM"
  BY <1>2
<1>3. CASE OutPolicy(j.policy) = "CopyWithLayout" /\ j.device = "910_95" /\ j.pos = "UB"
  BY <1>3
<1>4. CASE OutPolicy(j.policy) = "CopyEnUnitFlagWithLayout" /\ j.device = "910B" /\ j.pos = "GM"
  BY <1>4
<1>5. CASE OutPolicy(j.policy) = "CopyEnUnitFlagWithLayout" /\ j.device = "910_95" /\ j.pos = "GM"
  BY <1>5
<1>. QED  BY <1>1, <1>2, <1>3, <1>4, <1>5 DEF OutLegal

\* With layouts, rows go to their places.
LEMMA LayoutRowsTake ==
    ASSUME NEW j, j.unit = "out", OutLegal(j), OutPolicy(j.policy) \in LayoutPolicies, j.format # "NZ", NEW t \in Tiles(j)
    PROVE  TakesTile(CopyOut(j, t), j, t)
<1>1. Grid(j) /\ ~IsSplit(j) /\ (j.format = "ND_ALIGN" => j.baseN % C0(j.size) = 0)
      /\ (j.format = "ND_ALIGN" => j.n % C0(j.size) = 0) /\ j.format \in {"ND", "ND_ALIGN"}
  BY DEF OutLegal, IsSplit, LayoutPolicies
<1>2. /\ Aligned(j, t.width) \in t.width .. j.baseN /\ ColOf(j, t) + Aligned(j, t.width) <= OutCols(j)
      /\ ColOf(j, t) + t.width <= OutCols(j)
  BY <1>1, PaddedWidth
<1>3. t.height \in t.height .. j.baseM /\ RowOf(j, t) + t.height <= OutRows(j)
      /\ t.width \in t.width .. j.baseN
  BY <1>1, OutCorner DEF OutRows
<1>4. RowStride(j) \in Nat
  BY <1>1, WholeApart
<1>5. InsideRow(j, t) = t.width /\ Least(FullHeight(j), j.m - RowOf(j, t)) = t.height
      /\ FullHeight(j) = L0cHeight(j, t)
  BY <1>1, FullTile, OutCorner DEF InsideRow
<1>6. Aligned(j, j.n) = j.n /\ RowStride(j) = j.n
  <2>1. j.n \in Nat /\ C0(j.size) \in Positive
    BY <1>1, OutSizes DEF Grid
  <2>2. Aligned(j, j.n) = j.n
    BY <1>1, <2>1, CeilOfMultiple DEF Aligned
  <2>. QED  BY <2>2 DEF RowStride, LayoutPolicies
<1>7. OutOffset(j, t) = RowMajorAt(RowStride(j), RowOf(j, t), ColOf(j, t))
  BY <1>1, <1>6 DEF OutOffset, LayoutAt
<1>8. ASSUME NEW w \in t.width .. j.baseN, ColOf(j, t) + w <= OutCols(j)
      PROVE  TakesTile(LayoutRowMajor(j, t, w, j.n), j, t)
  <2>1. LayoutRowMajor(j, t, w, j.n) = FixpipeRowMajor(OutOffset(j, t), w, t.height, L0cHeight(j, t), RowStride(j))
    BY <1>5, <1>6 DEF LayoutRowMajor
  <2>. QED  BY <1>1, <1>3, <1>4, <1>7, <1>8, <2>1, RowMajorTakes
<1>9. PICK w \in {t.width, Aligned(j, t.width)}, s \in {j.n, j.n} : CopyOut(j, t) = LayoutRowMajor(j, t, w, s)
  BY <1>5, <1>6, LayoutOutRows
<1>10. TakesTile(LayoutRowMajor(j, t, t.width, j.n), j, t) /\ TakesTile(LayoutRowMajor(j, t, Aligned(j, t.width), j.n), j, t)
  BY <1>2, <1>3, <1>8
<1>. QED  BY <1>9, <1>10

\* With layouts, the specialisations that write column blocks.
LEMMA LayoutOutBlocks ==
    ASSUME NEW j, OutLegal(j), OutPolicy(j.policy) \in LayoutPolicies, j.format = "NZ", NEW t
    PROVE  \E d \in {((BlockStride(j) * j.size) \div Block) * C0(j.size), (BlockStride(j) * Cube) \div C0(j.size)} :
             CopyOut(j, t) = LayoutNz(j, t, d)
<1>. USE DEF CopyOut, LayoutNZ_910B, LayoutNZ_910_95, LayoutNZToUB, UnitFlagNZ_910B, LayoutPolicies
<1>1. CASE OutPolicy(j.policy) = "CopyWithLayout" /\ j.device = "910B" /\ j.pos = "GM"
  BY <1>1
<1>2. CASE OutPolicy(j.policy) = "CopyWithLayout" /\ j.device = "910_95" /\ j.pos = "GM"
  BY <1>2
<1>3. CASE OutPolicy(j.policy) = "CopyWithLayout" /\ j.device = "910_95" /\ j.pos = "UB"
  BY <1>3
<1>4. CASE OutPolicy(j.policy) = "CopyEnUnitFlagWithLayout" /\ j.device = "910B" /\ j.pos = "GM"
  BY <1>4
<1>. QED  BY <1>1, <1>2, <1>3, <1>4 DEF OutLegal

\* One edge of a tile, in whole fractals.
LEMMA WholeEdge ==
    ASSUME NEW b \in Positive, NEW base \in Positive, base % b = 0, NEW o \in Nat, o % b = 0, NEW m \in Nat, o < m,
           NEW len, len = Least(base, m - o)
    PROVE  LET whole == Least(base, CeilAlign(m, b) - o)
           IN  whole \in len .. base /\ o + whole <= CeilAlign(m, b)
<1>1. CeilAlign(m, b) \in Nat /\ m <= CeilAlign(m, b)
  BY CeilFacts
<1>. QED  BY <1>1 DEF Least, Positive

\* With layouts, column blocks go to their places.
LEMMA LayoutBlocksTake ==
    ASSUME NEW j, j.unit = "out", OutLegal(j), OutPolicy(j.policy) \in LayoutPolicies, j.format = "NZ", NEW t \in Tiles(j)
    PROVE  TakesTile(CopyOut(j, t), j, t)
<1>1. Grid(j) /\ ~IsSplit(j) /\ j.size = 2 /\ j.baseM % Cube = 0 /\ j.baseN % Cube = 0
      /\ OutPolicy(j.policy) # "CopyWithParams"
  BY DEF OutLegal, IsSplit, LayoutPolicies
<1>2. C0(j.size) = Cube /\ Cube \in Positive /\ Block = 2 * Cube
  BY <1>1, HalfSize, C0Positive DEF Grid
<1>3. /\ RowOf(j, t) \in Nat /\ RowOf(j, t) < j.m /\ RowOf(j, t) % j.baseM = 0
      /\ ColOf(j, t) \in Nat /\ ColOf(j, t) < j.n /\ ColOf(j, t) % j.baseN = 0
      /\ t.height = Least(j.baseM, j.m - RowOf(j, t)) /\ t.width = Least(j.baseN, j.n - ColOf(j, t))
      /\ j.m \in Nat /\ j.n \in Nat /\ j.baseM \in Positive /\ j.baseN \in Positive
  BY <1>1, OutCorner DEF Positive
<1>4. RowOf(j, t) % Cube = 0 /\ ColOf(j, t) % Cube = 0
  BY <1>1, <1>2, <1>3, MultipleOfMultiple
<1>5. FullHeight(j) = j.baseM /\ FullWidth(j) = j.baseN /\ L0cHeight(j, t) = j.baseM
  BY FullTile
<1> DEFINE H == Least(j.baseM, CeilAlign(j.m, Cube) - RowOf(j, t))
           W == Least(j.baseN, CeilAlign(j.n, Cube) - ColOf(j, t))
<1>6. H \in t.height .. j.baseM /\ RowOf(j, t) + H <= CeilAlign(j.m, Cube)
  BY <1>1, <1>2, <1>3, <1>4, WholeEdge
<1>7. W \in t.width .. j.baseN /\ ColOf(j, t) + W <= CeilAlign(j.n, Cube)
  BY <1>1, <1>2, <1>3, <1>4, WholeEdge
<1>8. OutRows(j) = CeilAlign(j.m, Cube) /\ OutCols(j) = CeilAlign(j.n, Cube) /\ ColumnHeight(j) = CeilAlign(j.m, Cube)
      /\ CeilAlign(j.m, Cube) \in Nat
  BY <1>1, <1>2, <1>3, CeilFacts DEF OutRows, OutCols, ColumnHeight
<1>9. OutOffset(j, t) = NzAt(ColumnHeight(j), Cube, RowOf(j, t), ColOf(j, t))
  BY <1>2, <1>8 DEF OutOffset, LayoutAt
<1> DEFINE h == CeilAlign(j.m, Cube)
<1>10. /\ BlockStride(j) = h * Cube /\ ((BlockStride(j) * 2) \div Block) * Cube = h * Cube
       /\ (BlockStride(j) * Cube) \div Cube = h * Cube
  <2>1. BlockStride(j) = h * Cube
    BY <1>2 DEF BlockStride
  <2>2. h \in Nat
    BY <1>8
  <2>. HIDE DEF h
  <2>3. h * Cube \in Nat /\ h * Cube * 2 = Block * h + 0 /\ h * Cube * Cube = Cube * (h * Cube) + 0
        /\ Block \in Positive /\ 0 \in 0 .. Block - 1 /\ 0 \in 0 .. Cube - 1
    BY <1>2, <2>2 DEF Positive
  <2>4. (Block * h + 0) \div Block = h /\ (Cube * (h * Cube) + 0) \div Cube = h * Cube
    BY <1>2, <2>2, <2>3, DivModUnique
  <2>. QED  BY <2>1, <2>3, <2>4
<1>11. PICK d \in {((BlockStride(j) * j.size) \div Block) * C0(j.size), (BlockStride(j) * Cube) \div C0(j.size)} :
         CopyOut(j, t) = LayoutNz(j, t, d)
  BY <1>1, LayoutOutBlocks
<1>12. d = ColumnHeight(j) * Cube
  BY <1>1, <1>2, <1>8, <1>10, <1>11
<1>13. LayoutNz(j, t, d) = FixpipeNz(OutOffset(j, t), W, H, L0cHeight(j, t), d)
  BY <1>2, <1>5 DEF LayoutNz
<1>. HIDE DEF H, W, h
<1>14. ColumnHeight(j) \in Nat
  BY <1>8
<1>15. RowOf(j, t) + H <= OutRows(j) /\ ColOf(j, t) + W <= OutCols(j)
  BY <1>6, <1>7, <1>8
<1>16. TakesTile(FixpipeNz(OutOffset(j, t), W, H, L0cHeight(j, t), d), j, t)
  BY <1>1, <1>4, <1>6, <1>7, <1>9, <1>12, <1>14, <1>15, NzTakes
<1>. QED  BY <1>11, <1>13, <1>16

\* So the copies out of a legal job whose tile is not split are sound.
LEMMA WholeSound == ASSUME NEW j, j.unit = "out", OutLegal(j), ~IsSplit(j) PROVE Sound(j)
<1>1. Grid(j) /\ PlacesApart(j)
  BY WholeApart DEF OutLegal
<1>2. OutPolicy(j.policy) \in {"CopyWithParams"} \cup LayoutPolicies
  BY DEF OutLegal, IsSplit
<1>3. ASSUME NEW t \in Tiles(j) PROVE TakesTile(CopyOut(j, t), j, t)
  BY <1>2, ParamsRowsTake, ParamsNzTake, LayoutRowsTake, LayoutBlocksTake
<1>. QED  BY <1>1, <1>3, TakenSound

-----------------------------------------------------------------------------
(* Copies to two vector cores.                                             *)
(* The moves take the first R rows and C columns of the only tile to the two vector cores.          *)
SplitsTile(moves, j, R, C) ==
  /\ R \in j.m .. CeilAlign(j.m, Cube) /\ C \in j.n .. OutCols(j)
  /\ \A x \in moves : \E r \in 0 .. R - 1, c \in 0 .. C - 1 :
        x = <<OutPlace(j, r, c), NzAt(CeilAlign(j.m, Cube), Cube, r, c)>>
  /\ \A r \in 0 .. R - 1, c \in 0 .. C - 1 :
        <<OutPlace(j, r, c), NzAt(CeilAlign(j.m, Cube), Cube, r, c)>> \in moves
  /\ \A r1, r2 \in 0 .. R - 1, c1, c2 \in 0 .. C - 1 :
        OutPlace(j, r1, c1) = OutPlace(j, r2, c2) => r1 = r2 /\ c1 = c2

\* A result that is split has one tile, all of it.
LEMMA OneTile ==
    ASSUME NEW j, j.unit = "out", OutLegal(j), IsSplit(j), NEW t \in Tiles(j)
    PROVE  /\ t.row = 0 /\ t.col = 0 /\ t.height = j.m /\ t.width = j.n
           /\ RowOf(j, t) = 0 /\ ColOf(j, t) = 0
           /\ \A u \in Tiles(j) : u = t
<1>1. Grid(j) /\ j.m > 0 /\ j.n > 0 /\ j.m <= j.baseM /\ j.n <= j.baseN
      /\ j.m \in Nat /\ j.n \in Nat /\ j.baseM \in Nat /\ j.baseN \in Nat
  BY DEF OutLegal, Grid
<1>2. ASSUME NEW b \in Nat \ {0}, NEW r \in Nat, r * b < b PROVE r = 0
  <2>1. SUFFICES ASSUME 0 < r PROVE FALSE
    BY <1>2
  <2>2. 0 * b + b <= r * b
    BY <1>2, <2>1, MulMonotone
  <2>. QED  BY <1>2, <2>2
<1>3. ASSUME NEW u \in Tiles(j) PROVE u.row = 0 /\ u.col = 0
  <2>1. u.row \in Nat /\ u.row * j.baseM \in Nat /\ u.row * j.baseM < j.m
        /\ u.col \in Nat /\ u.col * j.baseN \in Nat /\ u.col * j.baseN < j.n
    BY <1>1, TileFacts
  <2>2. u.row * j.baseM < j.baseM /\ j.baseM \in Nat \ {0}
    BY <1>1, <2>1
  <2>3. u.col * j.baseN < j.baseN /\ j.baseN \in Nat \ {0}
    BY <1>1, <2>1
  <2>. QED  BY <1>2, <2>1, <2>2, <2>3
<1>4. RowOf(j, t) = 0 /\ ColOf(j, t) = 0
  BY <1>1, <1>3 DEF RowOf, ColOf
<1>5. t.height = Least(j.baseM, j.m - 0) /\ t.width = Least(j.baseN, j.n - 0)
  BY <1>1, <1>4, OutCorner
<1>6. t.height = j.m /\ t.width = j.n
  BY <1>1, <1>5 DEF Least
<1>7. ASSUME NEW u \in Tiles(j) PROVE u = t
  <2>1. Buffer(u) = Buffer(t)
    BY <1>3 DEF Buffer
  <2>. QED  BY <1>1, <2>1, TileFacts
<1>. QED  BY <1>3, <1>4, <1>6, <1>7

\* Such a copy is sound.
LEMMA SplitSound ==
    ASSUME NEW j, j.unit = "out", OutLegal(j), IsSplit(j),
           \A t \in Tiles(j) : \E R \in Nat, C \in Nat : SplitsTile(CopyOut(j, t), j, R, C)
    PROVE  Sound(j)
<1>. SUFFICES ASSUME NEW t \in Tiles(j)
              PROVE  /\ Clean(Moves(j, t))
                     /\ \A rc \in Cells(j, t) :
                          <<PlaceOf(j, t, rc[1], rc[2]), SourceOf(j, t, rc[1], rc[2])>> \in Moves(j, t)
                     /\ \A x \in Moves(j, t) : x[1] \in RoomOf(j, t)
  <2>1. \A u \in Tiles(j) : Tiles(j) \ {u} = {}
    BY OneTile
  <2>. QED  BY <2>1, OneTile DEF Sound
<1>1. PICK R \in Nat, C \in Nat : SplitsTile(CopyOut(j, t), j, R, C)
  OBVIOUS
<1> DEFINE h == CeilAlign(j.m, Cube)
           moves == CopyOut(j, t)
           f == [r \in 0 .. R - 1 |-> [c \in 0 .. C - 1 |-> OutPlace(j, r, c)]]
           g == [r \in 0 .. R - 1 |-> [c \in 0 .. C - 1 |-> <<Buffer(t), NzAt(h, Cube, r, c)>>]]
<1>2. Moves(j, t) = {<<mv[1], <<Buffer(t), mv[2]>>>> : mv \in moves}
  BY DEF Moves
<1>3. \A r \in 0 .. R - 1, c \in 0 .. C - 1 : f[r][c] = OutPlace(j, r, c) /\ g[r][c] = <<Buffer(t), NzAt(h, Cube, r, c)>>
  OBVIOUS
<1>4. /\ \A x \in moves : \E r \in 0 .. R - 1, c \in 0 .. C - 1 : x = <<OutPlace(j, r, c), NzAt(h, Cube, r, c)>>
      /\ \A r \in 0 .. R - 1, c \in 0 .. C - 1 : <<OutPlace(j, r, c), NzAt(h, Cube, r, c)>> \in moves
  BY <1>1 DEF SplitsTile
<1>5. j.m \in Nat /\ j.n \in Nat /\ h \in Nat /\ OutCols(j) \in Nat /\ j.m <= R /\ R <= h /\ j.n <= C /\ C <= OutCols(j)
      /\ t.height = j.m /\ t.width = j.n
  <2>1. j.m \in Nat /\ j.n \in Nat /\ OutCols(j) \in Nat /\ h \in Nat
    BY OutSizes, CeilFacts DEF OutLegal, Grid
  <2>2. R \in j.m .. h /\ C \in j.n .. OutCols(j)
    BY <1>1 DEF SplitsTile
  <2>3. t.height = j.m /\ t.width = j.n
    BY OneTile
  <2>. QED  BY <2>1, <2>2, <2>3
<1>. HIDE DEF f, g, moves, h
<1>6. Distinct(f, R, C)
  <2>. SUFFICES ASSUME NEW r1 \in 0 .. R - 1, NEW r2 \in 0 .. R - 1, NEW c1 \in 0 .. C - 1, NEW c2 \in 0 .. C - 1,
                       f[r1][c1] = f[r2][c2]
                PROVE  r1 = r2 /\ c1 = c2
    BY DEF Distinct
  <2>1. OutPlace(j, r1, c1) = OutPlace(j, r2, c2)
    BY <1>3
  <2>2. \A a1, a2 \in 0 .. R - 1, b1, b2 \in 0 .. C - 1 :
          OutPlace(j, a1, b1) = OutPlace(j, a2, b2) => a1 = a2 /\ b1 = b2
    BY <1>1 DEF SplitsTile
  <2>. QED  BY ONLY <2>1, <2>2, r1 \in 0 .. R - 1, r2 \in 0 .. R - 1, c1 \in 0 .. C - 1, c2 \in 0 .. C - 1
<1>7. ASSUME NEW x \in Moves(j, t)
      PROVE  \E r \in 0 .. R - 1, c \in 0 .. C - 1 : x = <<OutPlace(j, r, c), <<Buffer(t), NzAt(h, Cube, r, c)>>>>
  <2>1. PICK mv \in moves : x = <<mv[1], <<Buffer(t), mv[2]>>>>
    BY <1>2
  <2>2. PICK r \in 0 .. R - 1, c \in 0 .. C - 1 : mv = <<OutPlace(j, r, c), NzAt(h, Cube, r, c)>>
    BY <1>4
  <2>3. mv[1] = OutPlace(j, r, c) /\ mv[2] = NzAt(h, Cube, r, c)
    BY ONLY <2>2
  <2>. QED  BY <2>1, <2>3
<1>8. Clean(Moves(j, t))
  <2>1. Tabled(Moves(j, t), R, C, f, g)
    <3>. SUFFICES ASSUME NEW x \in Moves(j, t) PROVE \E r \in 0 .. R - 1, c \in 0 .. C - 1 : x = <<f[r][c], g[r][c]>>
      BY DEF Tabled
    <3>1. PICK r \in 0 .. R - 1, c \in 0 .. C - 1 : x = <<OutPlace(j, r, c), <<Buffer(t), NzAt(h, Cube, r, c)>>>>
      BY <1>7
    <3>. QED  BY <1>3, <3>1
  <2>. QED  BY <1>6, <2>1, TableClean
<1>9. ASSUME NEW rc \in Cells(j, t)
      PROVE  <<PlaceOf(j, t, rc[1], rc[2]), SourceOf(j, t, rc[1], rc[2])>> \in Moves(j, t)
  <2>1. rc[1] \in 0 .. t.height - 1 /\ rc[2] \in 0 .. t.width - 1
    BY DEF Cells
  <2>2. rc[1] \in 0 .. R - 1 /\ rc[2] \in 0 .. C - 1
    BY <1>5, <2>1
  <2> DEFINE mv == <<OutPlace(j, rc[1], rc[2]), NzAt(h, Cube, rc[1], rc[2])>>
  <2>3. mv \in moves
    BY <1>4, <2>2
  <2>4. <<mv[1], <<Buffer(t), mv[2]>>>> \in Moves(j, t)
    <3>. HIDE DEF mv
    <3>. QED  BY <1>2, <2>3
  <2>5. RowOf(j, t) + rc[1] = rc[1] /\ ColOf(j, t) + rc[2] = rc[2]
    BY <2>1, OneTile
  <2>6. PlaceOf(j, t, rc[1], rc[2]) = OutPlace(j, rc[1], rc[2])
    BY <2>5 DEF PlaceOf
  <2>7. SourceOf(j, t, rc[1], rc[2]) = <<Buffer(t), NzAt(h, Cube, rc[1], rc[2])>>
    <3>1. OutPolicy(j.policy) \notin LayoutPolicies
      BY DEF IsSplit, LayoutPolicies
    <3>. QED  BY <1>5, <3>1 DEF SourceOf, h
  <2>. QED  BY <2>4, <2>6, <2>7
<1>10. ASSUME NEW x \in Moves(j, t) PROVE x[1] \in RoomOf(j, t)
  <2>1. RoomOf(j, t) = {OutPlace(j, r, c) : r \in 0 .. h - 1, c \in 0 .. OutCols(j) - 1}
    BY DEF RoomOf, OutCols, h
  <2>2. PICK r \in 0 .. R - 1, c \in 0 .. C - 1 : x = <<OutPlace(j, r, c), <<Buffer(t), NzAt(h, Cube, r, c)>>>>
    BY <1>7
  <2>3. r \in 0 .. h - 1 /\ c \in 0 .. OutCols(j) - 1
    BY <1>5
  <2>4. x[1] = OutPlace(j, r, c)
    BY <2>2
  <2>. QED  BY <2>1, <2>3, <2>4
<1>. QED  BY <1>8, <1>9, <1>10

(* Where element (i, k) of a half goes in its vector core; and two halves of H rows and W columns,  *)
(* the second of which starts skip elements behind the first one.                                   *)
HalfAt(j, s, i, k) == IF j.format = "NZ" THEN NzAt(j.m, Cube, i, k) ELSE RowMajorAt(s, i, k)
HalfPart(j, s, H, W) ==
  {<<HalfAt(j, s, i, k), NzAt(CeilAlign(j.m, Cube), Cube, i, k)>> : i \in 0 .. H - 1, k \in 0 .. W - 1}
Halves(moves, j, s, H, W, skip) ==
  /\ \A x \in moves : \E d \in 0 .. 1, i \in 0 .. H - 1, k \in 0 .. W - 1 :
        x = <<<<d, HalfAt(j, s, i, k)>>, NzAt(CeilAlign(j.m, Cube), Cube, i, k) + d * skip>>
  /\ \A d \in 0 .. 1, i \in 0 .. H - 1, k \in 0 .. W - 1 :
        <<<<d, HalfAt(j, s, i, k)>>, NzAt(CeilAlign(j.m, Cube), Cube, i, k) + d * skip>> \in moves

HalfDistinct(j, s, H, W) ==
  \A i1, i2 \in 0 .. H - 1, k1, k2 \in 0 .. W - 1 :
     HalfAt(j, s, i1, k1) = HalfAt(j, s, i2, k2) => i1 = i2 /\ k1 = k2

\* Fixpipe with a split moves two halves.
LEMMA SplitHalves ==
    ASSUME NEW j, NEW s, NEW H \in Nat, NEW W \in Nat, NEW skip \in Int, Cube \in Positive, j.m \in Nat
    PROVE  Halves(First(HalfPart(j, s, H, W)) \cup Second(HalfPart(j, s, H, W), skip), j, s, H, W, skip)
<1> DEFINE h == CeilAlign(j.m, Cube)
           moves == HalfPart(j, s, H, W)
           P(i, k) == HalfAt(j, s, i, k)
           S(i, k) == NzAt(h, Cube, i, k)
           both == First(moves) \cup Second(moves, skip)
           M(i, k) == <<P(i, k), S(i, k)>>
<1>1. moves = {M(i, k) : i \in 0 .. H - 1, k \in 0 .. W - 1}
  BY DEF HalfPart
<1>2. \A i \in 0 .. H - 1, k \in 0 .. W - 1 : S(i, k) \in Int
  <2>. SUFFICES ASSUME NEW i \in 0 .. H - 1, NEW k \in 0 .. W - 1 PROVE S(i, k) \in Int
    OBVIOUS
  <2>1. h \in Int
    BY CeilFacts
  <2>. HIDE DEF h
  <2>. QED  BY <2>1, NzForm
<1>. HIDE DEF P, S, moves
<1>3. \A x \in both : \E d \in 0 .. 1, i \in 0 .. H - 1, k \in 0 .. W - 1 : x = <<<<d, P(i, k)>>, S(i, k) + d * skip>>
  <2>1. ASSUME NEW x \in First(moves)
        PROVE  \E i \in 0 .. H - 1, k \in 0 .. W - 1 : x = <<<<0, P(i, k)>>, S(i, k) + 0 * skip>>
    <3>1. PICK mv \in moves : x = <<<<0, mv[1]>>, mv[2]>>
      BY <2>1 DEF First
    <3>2. PICK i \in 0 .. H - 1, k \in 0 .. W - 1 : mv = <<P(i, k), S(i, k)>>
      BY <1>1
    <3>3. S(i, k) + 0 * skip = S(i, k)
      BY <1>2
    <3>. QED  BY <3>1, <3>2, <3>3
  <2>2. ASSUME NEW x \in Second(moves, skip)
        PROVE  \E i \in 0 .. H - 1, k \in 0 .. W - 1 : x = <<<<1, P(i, k)>>, S(i, k) + 1 * skip>>
    <3>1. PICK mv \in moves : x = <<<<1, mv[1]>>, mv[2] + skip>>
      BY <2>2 DEF Second
    <3>2. PICK i \in 0 .. H - 1, k \in 0 .. W - 1 : mv = <<P(i, k), S(i, k)>>
      BY <1>1
    <3>3. S(i, k) + 1 * skip = S(i, k) + skip
      BY <1>2
    <3>. QED  BY <3>1, <3>2, <3>3
  <2>3. 0 \in 0 .. 1 /\ 1 \in 0 .. 1
    OBVIOUS
  <2>. QED  BY <2>1, <2>2, <2>3, Zenon
<1>4. \A d \in 0 .. 1, i \in 0 .. H - 1, k \in 0 .. W - 1 : <<<<d, P(i, k)>>, S(i, k) + d * skip>> \in both
  <2>. SUFFICES ASSUME NEW d \in 0 .. 1, NEW i \in 0 .. H - 1, NEW k \in 0 .. W - 1
                PROVE  <<<<d, P(i, k)>>, S(i, k) + d * skip>> \in both
    OBVIOUS
  <2> DEFINE mv == M(i, k)
  <2>2. mv[1] = P(i, k) /\ mv[2] = S(i, k)
    OBVIOUS
  <2>1. mv \in moves
    <3>. HIDE DEF M
    <3>. QED  BY <1>1
  <2>. HIDE DEF mv
  <2>3. <<<<0, mv[1]>>, mv[2]>> \in First(moves) /\ <<<<1, mv[1]>>, mv[2] + skip>> \in Second(moves, skip)
    BY <2>1 DEF First, Second
  <2>4. CASE d = 0
    <3>1. S(i, k) + d * skip = S(i, k)
      <4>1. S(i, k) \in Int /\ d * skip = 0
        BY <1>2, <2>4
      <4>. QED  BY <4>1
    <3>. QED  BY <2>2, <2>3, <2>4, <3>1
  <2>5. CASE d = 1
    <3>1. S(i, k) + d * skip = S(i, k) + skip
      <4>1. S(i, k) \in Int /\ d * skip = skip
        BY <1>2, <2>5
      <4>. QED  BY <4>1
    <3>. QED  BY <2>2, <2>3, <2>5, <3>1
  <2>. QED  BY <2>4, <2>5
<1>. QED  BY <1>3, <1>4 DEF Halves, P, S, moves

\* A half has no place twice.
LEMMA HalfApart ==
    ASSUME NEW j, Cube \in Positive, j.m \in Nat, NEW s \in Nat, NEW H \in Nat, NEW W \in Nat,
           j.format = "NZ" => H <= j.m, j.format # "NZ" => W <= s
    PROVE  HalfDistinct(j, s, H, W)
<1>. SUFFICES ASSUME NEW i1 \in 0 .. H - 1, NEW i2 \in 0 .. H - 1, NEW k1 \in 0 .. W - 1, NEW k2 \in 0 .. W - 1,
                     HalfAt(j, s, i1, k1) = HalfAt(j, s, i2, k2)
              PROVE  i1 = i2 /\ k1 = k2
  BY DEF HalfDistinct
<1>1. CASE j.format = "NZ"
  <2>1. NzAt(j.m, Cube, i1, k1) = NzAt(j.m, Cube, i2, k2)
    BY <1>1 DEF HalfAt
  <2>2. i1 \in 0 .. j.m - 1 /\ i2 \in 0 .. j.m - 1 /\ k1 \in Nat /\ k2 \in Nat /\ Cube \in Positive /\ j.m \in Nat
    BY <1>1
  <2>. QED  BY ONLY <2>1, <2>2, NzInjective
<1>2. CASE j.format # "NZ"
  <2>1. RowMajorAt(s, i1, k1) = RowMajorAt(s, i2, k2)
    BY <1>2 DEF HalfAt
  <2>2. i1 \in Nat /\ i2 \in Nat /\ k1 \in 0 .. s - 1 /\ k2 \in 0 .. s - 1
    BY <1>2
  <2>. QED  BY ONLY <2>1, <2>2, s \in Nat, RowMajorInjective
<1>. QED  BY <1>1, <1>2

\* The lower and the upper rows.
LEMMA SplitMTakes ==
    ASSUME NEW j, OutLegal(j), OutPolicy(j.policy) = "CopyOutSplitMWithParams", NEW H \in Positive,
           H = HalfOf(CeilAlign(j.m, 2)), 2 * H \in j.m .. CeilAlign(j.m, Cube), NEW W \in j.n .. OutCols(j),
           j.format = "NZ" => H <= j.m, j.format # "NZ" => W <= Aligned(j, j.n), NEW moves,
           Halves(moves, j, Aligned(j, j.n), H, W, H * Cube)
    PROVE  SplitsTile(moves, j, 2 * H, W)
<1> DEFINE h == CeilAlign(j.m, Cube)
           s == Aligned(j, j.n)
           S(i, k) == NzAt(h, Cube, i, k)
           P(i, k) == HalfAt(j, s, i, k)
<1>0. Cube \in Positive /\ j.m \in Nat /\ j.n \in Nat /\ h \in Nat /\ W \in Nat /\ s \in Nat /\ H \in Nat
  <2>1. Cube \in Positive /\ j.m \in Nat /\ j.n \in Nat /\ OutCols(j) \in Nat /\ s \in Nat
    BY OutSizes DEF OutLegal, Grid
  <2>2. h \in Nat
    BY <2>1, CeilFacts
  <2>. HIDE DEF h, s
  <2>. QED  BY <2>1, <2>2 DEF Positive
<1>1. ASSUME NEW r \in Nat, NEW c \in Nat PROVE OutPlace(j, r, c) = <<r \div H, P(r % H, c)>>
  <2>1. HalfOf(CeilAlign(j.m, 2)) = H
    OBVIOUS
  <2>. HIDE DEF s
  <2>2. OutPlace(j, r, c) = <<r \div H, IF j.format = "NZ" THEN NzAt(j.m, Cube, r % H, c) ELSE RowMajorAt(s, r % H, c)>>
    BY <2>1 DEF OutPlace, IsSplit, s
  <2>. QED  BY <2>2 DEF HalfAt
\* Row i of half d.
<1>2. ASSUME NEW d \in 0 .. 1, NEW i \in 0 .. H - 1, NEW k \in 0 .. W - 1
      PROVE  /\ d * H + i \in 0 .. 2 * H - 1
             /\ OutPlace(j, d * H + i, k) = <<d, P(i, k)>>
             /\ S(d * H + i, k) = S(i, k) + d * (H * Cube)
  <2>1. (H * d + i) \div H = d /\ (H * d + i) % H = i
    BY DivModUnique
  <2>2. d * H = H * d /\ d * H + i \in 0 .. 2 * H - 1 /\ d * H + i \in Nat
    BY <1>0
  <2>3. OutPlace(j, d * H + i, k) = <<d, P(i, k)>>
    <3>. HIDE DEF P
    <3>1. (d * H + i) \div H = d /\ (d * H + i) % H = i /\ k \in Nat
      BY <2>1, <2>2
    <3>. QED  BY <1>1, <2>2, <3>1
  <2>4. S(d * H + i, k) = S(i, k) + d * (H * Cube)
    <3> DEFINE a == d * H  z == 0
    <3>1. a \in Nat /\ z % Cube = 0 /\ z \in Nat /\ i \in Nat /\ k \in Nat /\ h \in Int /\ Cube \in Positive
      BY <1>0, ZeroDivMod
    <3>. HIDE DEF a, h, z
    <3>2. NzAt(h, Cube, a, z) + NzAt(h, Cube, i, k) = NzAt(h, Cube, a + i, z + k)
      BY ONLY <3>1, NzSum
    <3>7. NzAt(h, Cube, a, z) = a * Cube + z * h
      BY ONLY <3>1, NzSum
    <3>6. NzAt(h, Cube, i, k) \in Int
      BY ONLY <3>1, i \in Int, NzForm
    <3>3. z + k = k /\ z * h = 0 /\ a * Cube \in Int /\ NzAt(h, Cube, i, k) \in Int
      BY <3>1, <3>6 DEF Positive, z
    <3>4. NzAt(h, Cube, a + i, k) = NzAt(h, Cube, i, k) + a * Cube
      <4>1. a * Cube + 0 = a * Cube
        BY <3>3
      <4> DEFINE y == a * Cube  x == NzAt(h, Cube, i, k)
      <4>2. y \in Int /\ x \in Int
        BY <3>3
      <4>. HIDE DEF x, y
      <4>3. y + x = x + y
        BY <4>2
      <4>. QED  BY <3>2, <3>3, <3>7, <4>1, <4>3 DEF x, y
    <3>5. a * Cube = d * (H * Cube)
      <4>1. d = 0 \/ d = 1
        OBVIOUS
      <4>. QED  BY <1>0, <4>1 DEF a, Positive
    <3>. QED  BY <3>4, <3>5 DEF a
  <2>. QED  BY <2>2, <2>3, <2>4
\* And back.
<1>3. ASSUME NEW r \in 0 .. 2 * H - 1 PROVE \E d \in 0 .. 1, i \in 0 .. H - 1 : r = d * H + i
  <2>1. CASE r < H
    BY <1>0, <2>1, r = 0 * H + r, r \in 0 .. H - 1
  <2>2. CASE H <= r
    BY <1>0, <2>2, r = 1 * H + (r - H), r - H \in 0 .. H - 1
  <2>. QED  BY <1>0, <2>1, <2>2
<1>4. /\ \A x \in moves : \E d \in 0 .. 1, i \in 0 .. H - 1, k \in 0 .. W - 1 :
            x = <<<<d, P(i, k)>>, S(i, k) + d * (H * Cube)>>
      /\ \A d \in 0 .. 1, i \in 0 .. H - 1, k \in 0 .. W - 1 : <<<<d, P(i, k)>>, S(i, k) + d * (H * Cube)>> \in moves
  BY DEF Halves
<1>5. ASSUME NEW i1 \in 0 .. H - 1, NEW i2 \in 0 .. H - 1, NEW k1 \in 0 .. W - 1, NEW k2 \in 0 .. W - 1, P(i1, k1) = P(i2, k2)
      PROVE  i1 = i2 /\ k1 = k2
  <2>1. HalfAt(j, s, i1, k1) = HalfAt(j, s, i2, k2) /\ (j.format # "NZ" => W <= s)
    BY <1>5
  <2>. HIDE DEF s, P
  <2>2. Cube \in Positive /\ j.m \in Nat /\ s \in Nat /\ H \in Nat /\ W \in Nat /\ (j.format = "NZ" => H <= j.m)
    BY <1>0
  <2>3. HalfDistinct(j, s, H, W)
    BY ONLY <2>1, <2>2, HalfApart
  <2>. QED  BY <2>1, <2>3 DEF HalfDistinct
<1>. HIDE DEF P, S
<1>6. ASSUME NEW x \in moves PROVE \E r \in 0 .. 2 * H - 1, c \in 0 .. W - 1 : x = <<OutPlace(j, r, c), S(r, c)>>
  <2>1. PICK d \in 0 .. 1, i \in 0 .. H - 1, k \in 0 .. W - 1 : x = <<<<d, P(i, k)>>, S(i, k) + d * (H * Cube)>>
    BY <1>4
  <2>2. x = <<OutPlace(j, d * H + i, k), S(d * H + i, k)>>
    BY <1>2, <2>1
  <2>. QED  BY <1>2, <2>2
<1>7. ASSUME NEW r \in 0 .. 2 * H - 1, NEW c \in 0 .. W - 1 PROVE <<OutPlace(j, r, c), S(r, c)>> \in moves
  <2>1. PICK d \in 0 .. 1, i \in 0 .. H - 1 : r = d * H + i
    BY <1>3
  <2>2. OutPlace(j, r, c) = <<d, P(i, c)>> /\ S(r, c) = S(i, c) + d * (H * Cube)
    BY <1>2, <2>1
  <2>3. <<<<d, P(i, c)>>, S(i, c) + d * (H * Cube)>> \in moves
    BY <1>4
  <2>. QED  BY <2>2, <2>3
<1>8. ASSUME NEW r1 \in 0 .. 2 * H - 1, NEW r2 \in 0 .. 2 * H - 1, NEW c1 \in 0 .. W - 1, NEW c2 \in 0 .. W - 1,
             OutPlace(j, r1, c1) = OutPlace(j, r2, c2)
      PROVE  r1 = r2 /\ c1 = c2
  <2>1. PICK d1 \in 0 .. 1, i1 \in 0 .. H - 1 : r1 = d1 * H + i1
    BY <1>3
  <2>2. PICK d2 \in 0 .. 1, i2 \in 0 .. H - 1 : r2 = d2 * H + i2
    BY <1>3
  <2>3. <<d1, P(i1, c1)>> = <<d2, P(i2, c2)>>
    BY <1>2, <1>8, <2>1, <2>2
  <2>4. d1 = d2 /\ P(i1, c1) = P(i2, c2)
    BY ONLY <2>3
  <2>. QED  BY <1>5, <2>1, <2>2, <2>4
<1>. QED  BY <1>6, <1>7, <1>8 DEF SplitsTile, S

\* The left and the right columns.
LEMMA SplitNTakes ==
    ASSUME NEW j, OutLegal(j), OutPolicy(j.policy) = "CopyOutSplitNWithParams", NEW W \in Positive, W % Cube = 0,
           W = HalfOf(Aligned(j, j.n)), 2 * W \in j.n .. OutCols(j), Aligned(j, W) \in Nat, W <= Aligned(j, W), NEW moves,
           Halves(moves, j, Aligned(j, W), j.m, W, NzAt(CeilAlign(j.m, Cube), Cube, 0, W))
    PROVE  SplitsTile(moves, j, j.m, 2 * W)
<1> DEFINE h == CeilAlign(j.m, Cube)
           s == Aligned(j, W)
           H == j.m
           S(i, k) == NzAt(h, Cube, i, k)
           P(i, k) == HalfAt(j, s, i, k)
           skip == S(0, W)
<1>0. Cube \in Positive /\ H \in Nat /\ j.n \in Nat /\ h \in Nat /\ W \in Nat /\ s \in Nat /\ H \in H .. h
  <2>1. Cube \in Positive /\ j.m \in Nat /\ j.n \in Nat /\ OutCols(j) \in Nat /\ s \in Nat
    BY OutSizes DEF OutLegal, Grid
  <2>2. h \in Nat /\ H <= h
    BY <2>1, CeilFacts
  <2>. HIDE DEF h, s
  <2>. QED  BY <2>1, <2>2 DEF Positive
<1>1. ASSUME NEW r \in Nat, NEW c \in Nat PROVE OutPlace(j, r, c) = <<c \div W, P(r, c % W)>>
  <2>1. HalfOf(Aligned(j, j.n)) = W
    OBVIOUS
  <2>. HIDE DEF s
  <2>2. OutPlace(j, r, c) = <<c \div W, IF j.format = "NZ" THEN NzAt(j.m, Cube, r, c % W) ELSE RowMajorAt(s, r, c % W)>>
    BY <2>1 DEF OutPlace, IsSplit, s
  <2>. QED  BY <2>2 DEF HalfAt
\* Column k of half d.
<1>2. ASSUME NEW d \in 0 .. 1, NEW i \in 0 .. H - 1, NEW k \in 0 .. W - 1
      PROVE  /\ d * W + k \in 0 .. 2 * W - 1
             /\ OutPlace(j, i, d * W + k) = <<d, P(i, k)>>
             /\ S(i, d * W + k) = S(i, k) + d * skip
  <2>1. (W * d + k) \div W = d /\ (W * d + k) % W = k
    BY DivModUnique
  <2>2. d * W = W * d /\ d * W + k \in 0 .. 2 * W - 1 /\ d * W + k \in Nat
    BY <1>0
  <2>3. OutPlace(j, i, d * W + k) = <<d, P(i, k)>>
    <3>. HIDE DEF P
    <3>1. (d * W + k) \div W = d /\ (d * W + k) % W = k /\ i \in Nat
      BY <2>1, <2>2
    <3>. QED  BY <1>1, <2>2, <3>1
  <2>4. S(i, k) \in Int /\ skip \in Int
    <3>1. i \in Int /\ k \in Nat /\ h \in Int /\ W \in Nat /\ 0 \in Int
      BY <1>0
    <3>. HIDE DEF h
    <3>. QED  BY <1>0, <3>1, NzForm
  <2>5. CASE d = 0
    <3>1. d * W + k = k /\ d * skip = 0
      BY <1>0, <2>4, <2>5
    <3>. HIDE DEF S, skip
    <3>. QED  BY <2>2, <2>3, <2>4, <3>1
  <2>6. CASE d = 1
    <3> DEFINE z == 0
    <3>1. z \in Nat /\ i \in Nat /\ k \in Nat /\ h \in Int /\ W \in Nat /\ Cube \in Positive /\ W % Cube = 0
      BY <1>0
    <3>. HIDE DEF z, h, H
    <3>2. NzAt(h, Cube, z, W) + NzAt(h, Cube, i, k) = NzAt(h, Cube, z + i, W + k)
      BY ONLY <3>1, NzSum
    <3>3. z + i = i /\ d * W + k = W + k /\ d * skip = skip
      BY <1>0, <2>4, <2>6 DEF z
    <3>4. skip + S(i, k) = S(i, W + k)
      BY <3>2, <3>3 DEF z
    <3>. HIDE DEF S, skip
    <3>5. skip + S(i, k) = S(i, k) + skip
      BY <2>4
    <3>. QED  BY <2>2, <2>3, <3>3, <3>4, <3>5
  <2>. QED  BY <2>5, <2>6
\* And back.
<1>3. ASSUME NEW c \in 0 .. 2 * W - 1 PROVE \E d \in 0 .. 1, k \in 0 .. W - 1 : c = d * W + k
  <2>1. CASE c < W
    BY <1>0, <2>1, c = 0 * W + c, c \in 0 .. W - 1
  <2>2. CASE W <= c
    BY <1>0, <2>2, c = 1 * W + (c - W), c - W \in 0 .. W - 1
  <2>. QED  BY <1>0, <2>1, <2>2
<1>4. /\ \A x \in moves : \E d \in 0 .. 1, i \in 0 .. H - 1, k \in 0 .. W - 1 :
            x = <<<<d, P(i, k)>>, S(i, k) + d * skip>>
      /\ \A d \in 0 .. 1, i \in 0 .. H - 1, k \in 0 .. W - 1 : <<<<d, P(i, k)>>, S(i, k) + d * skip>> \in moves
  BY DEF Halves
<1>5. ASSUME NEW i1 \in 0 .. H - 1, NEW i2 \in 0 .. H - 1, NEW k1 \in 0 .. W - 1, NEW k2 \in 0 .. W - 1, P(i1, k1) = P(i2, k2)
      PROVE  i1 = i2 /\ k1 = k2
  <2>1. HalfAt(j, s, i1, k1) = HalfAt(j, s, i2, k2) /\ (j.format # "NZ" => W <= s)
    BY <1>5
  <2>2. Cube \in Positive /\ j.m \in Nat /\ s \in Nat /\ H \in Nat /\ W \in Nat /\ (j.format = "NZ" => H <= j.m)
    BY <1>0
  <2>. HIDE DEF s, P, H
  <2>3. HalfDistinct(j, s, H, W)
    BY ONLY <2>1, <2>2, HalfApart
  <2>. QED  BY <2>1, <2>3 DEF HalfDistinct
<1>. HIDE DEF P, S, skip
<1>6. ASSUME NEW x \in moves PROVE \E r \in 0 .. H - 1, c \in 0 .. 2 * W - 1 : x = <<OutPlace(j, r, c), S(r, c)>>
  <2>1. PICK d \in 0 .. 1, i \in 0 .. H - 1, k \in 0 .. W - 1 : x = <<<<d, P(i, k)>>, S(i, k) + d * skip>>
    BY <1>4
  <2>2. x = <<OutPlace(j, i, d * W + k), S(i, d * W + k)>>
    BY <1>2, <2>1
  <2>. QED  BY <1>2, <2>2
<1>7. ASSUME NEW r \in 0 .. H - 1, NEW c \in 0 .. 2 * W - 1 PROVE <<OutPlace(j, r, c), S(r, c)>> \in moves
  <2>1. PICK d \in 0 .. 1, k \in 0 .. W - 1 : c = d * W + k
    BY <1>3
  <2>2. OutPlace(j, r, c) = <<d, P(r, k)>> /\ S(r, c) = S(r, k) + d * skip
    BY <1>2, <2>1
  <2>3. <<<<d, P(r, k)>>, S(r, k) + d * skip>> \in moves
    BY <1>4
  <2>. QED  BY <2>2, <2>3
<1>8. ASSUME NEW r1 \in 0 .. H - 1, NEW r2 \in 0 .. H - 1, NEW c1 \in 0 .. 2 * W - 1, NEW c2 \in 0 .. 2 * W - 1,
             OutPlace(j, r1, c1) = OutPlace(j, r2, c2)
      PROVE  r1 = r2 /\ c1 = c2
  <2>1. PICK d1 \in 0 .. 1, k1 \in 0 .. W - 1 : c1 = d1 * W + k1
    BY <1>3
  <2>2. PICK d2 \in 0 .. 1, k2 \in 0 .. W - 1 : c2 = d2 * W + k2
    BY <1>3
  <2>3. <<d1, P(r1, k1)>> = <<d2, P(r2, k2)>>
    BY <1>2, <1>8, <2>1, <2>2
  <2>4. d1 = d2 /\ P(r1, k1) = P(r2, k2)
    BY ONLY <2>3
  <2>. QED  BY <1>5, <2>1, <2>2, <2>4
<1>. QED  BY <1>0, <1>6, <1>7, <1>8 DEF SplitsTile, S

-----------------------------------------------------------------------------
\* The sizes of a tile that is split.
LEMMA SplitSizes ==
    ASSUME NEW j, j.unit = "out", OutLegal(j), IsSplit(j)
    PROVE  /\ Cube \in Positive /\ j.m \in Positive /\ j.n \in Positive /\ j.m \in Nat /\ j.n \in Nat
           /\ CeilAlign(j.m, Cube) \in Nat /\ j.m <= CeilAlign(j.m, Cube)
           /\ Aligned(j, j.n) \in Nat /\ j.n <= Aligned(j, j.n) /\ DimN(j) = j.n
           /\ CeilAlign(j.n, Cube) \in Nat /\ j.n <= CeilAlign(j.n, Cube)
           /\ j.format # "NZ" => OutCols(j) = Aligned(j, j.n)
           /\ j.format = "NZ" => OutCols(j) = CeilAlign(j.n, Cube) /\ Aligned(j, j.n) = j.n
<1>1. Cube \in Positive /\ j.m \in Nat /\ j.n \in Nat /\ j.m > 0 /\ j.n > 0
      /\ Aligned(j, j.n) \in Nat /\ j.n <= Aligned(j, j.n)
  BY OutSizes DEF OutLegal, Grid
<1>2. CeilAlign(j.m, Cube) \in Nat /\ j.m <= CeilAlign(j.m, Cube) /\ CeilAlign(j.n, Cube) \in Nat /\ j.n <= CeilAlign(j.n, Cube)
  BY <1>1, CeilFacts
<1>3. DimN(j) = j.n
  BY DEF DimN, OutLegal
<1>. QED  BY <1>1, <1>2, <1>3 DEF OutCols, Aligned, Positive

\* Half the rows of a tile, rounded up.
LEMMA HalfRows ==
    ASSUME NEW j, j.unit = "out", OutLegal(j), OutPolicy(j.policy) = "CopyOutSplitMWithParams"
    PROVE  LET up == CeilAlign(j.m, 2)
               H  == HalfOf(up)
           IN  /\ H \in Positive /\ up = 2 * H /\ up \in j.m .. CeilAlign(j.m, Cube) /\ H = up \div 2 /\ H <= j.m
               /\ CeilAlign(up, Cube) = CeilAlign(j.m, Cube)
               /\ j.format = "NZ" => up = j.m
<1> DEFINE up == CeilAlign(j.m, 2)
           H == up \div 2
           h == CeilAlign(j.m, Cube)
<1>1. IsSplit(j)
  BY DEF IsSplit
<1>2. Cube \in Positive /\ j.m \in Positive /\ j.m \in Nat /\ h \in Nat /\ j.m <= h
  BY <1>1, SplitSizes
<1>3. up \in Nat /\ j.m <= up /\ up < j.m + 2 /\ up % 2 = 0 /\ 2 \in Positive
  BY <1>2, 2 \in Positive, CeilFacts DEF Positive
<1>4. h % Cube = 0 /\ CeilAlign(h, Cube) = h
  <2>1. h % Cube = 0
    BY <1>2, CeilFacts
  <2>. HIDE DEF h
  <2>. QED  BY <1>2, <2>1, CeilOfMultiple
<1>5. up \in Nat /\ H \in Nat /\ up = 2 * H
  <2>. HIDE DEF up
  <2>. QED  BY <1>3
<1>6. j.m % 2 = 0 \/ (j.format # "NZ" /\ Cube % 2 = 0)
  BY DEF OutLegal
<1>7. CASE j.m % 2 = 0
  <2>1. up = j.m
    BY <1>2, <1>3, <1>7, CeilOfMultiple
  <2>. HIDE DEF up
  <2>. QED  BY <1>2, <1>3, <1>5, <2>1 DEF HalfOf, Positive, up
<1>8. CASE j.format # "NZ" /\ Cube % 2 = 0
  <2>1. h % 2 = 0
    BY <1>2, <1>3, <1>4, <1>8, MultipleOfMultiple
  <2>. HIDE DEF h
  <2>2. up <= h
    BY <1>2, <1>3, <2>1, AlignedBelow
  <2>3. CeilAlign(up, Cube) <= h /\ CeilAlign(up, Cube) \in Nat /\ h <= CeilAlign(up, Cube)
    <3>. HIDE DEF up
    <3>1. CeilAlign(up, Cube) <= h /\ CeilAlign(up, Cube) \in Nat
      BY <1>2, <1>3, <1>4, <2>2, AlignedBelow, CeilFacts
    <3>2. CeilAlign(up, Cube) = Cube * CeilDiv(up, Cube) /\ CeilDiv(up, Cube) \in Nat /\ up <= CeilAlign(up, Cube)
      BY <1>2, <1>3, CeilFacts
    <3> DEFINE k == CeilDiv(up, Cube)
    <3>3. j.m <= Cube * k /\ k \in Nat
      BY <1>2, <1>3, <3>1, <3>2
    <3>. HIDE DEF k
    <3>4. h <= Cube * k
      BY <1>2, <3>3, CeilLeast DEF h
    <3>. QED  BY <3>1, <3>2, <3>4 DEF k
  <2>. HIDE DEF up
  <2>. QED  BY <1>2, <1>3, <1>5, <1>8, <2>2, <2>3 DEF HalfOf, Positive, up, h
<1>. QED  BY <1>6, <1>7, <1>8

\* Fixpipe of a half, row by row.
LEMMA HalfRowMajor ==
    ASSUME NEW j, j.format # "NZ", NEW s \in Nat, NEW H \in Nat, NEW W \in Nat
    PROVE  FixpipeRowMajor(0, W, H, CeilAlign(j.m, Cube), s) = HalfPart(j, s, H, W)
<1>1. ASSUME NEW i \in 0 .. H - 1, NEW k \in 0 .. W - 1 PROVE RowMajorAt(s, i, k) + 0 = HalfAt(j, s, i, k)
  <2>1. RowMajorAt(s, i, k) \in Int
    BY DEF RowMajorAt
  <2>. QED  BY <2>1 DEF HalfAt
<1>. QED  BY <1>1 DEF FixpipeRowMajor, HalfPart

\* Fixpipe of a half, in column blocks.
LEMMA HalfNz ==
    ASSUME NEW j, j.format = "NZ", Cube \in Positive, j.m \in Nat, NEW s, NEW H \in Nat, NEW W \in Nat
    PROVE  FixpipeNz(0, W, H, CeilAlign(j.m, Cube), j.m * Cube) = HalfPart(j, s, H, W)
<1>1. ASSUME NEW i \in 0 .. H - 1, NEW k \in 0 .. W - 1
      PROVE  0 + (k \div Cube) * (j.m * Cube) + i * Cube + (k % Cube) = HalfAt(j, s, i, k)
  <2> DEFINE q == k \div Cube  x == k % Cube  m == j.m
  <2>1. q \in Int /\ x \in Int /\ i \in Int /\ m \in Int /\ Cube \in Int
    BY DivMod DEF Positive
  <2>. HIDE DEF q, x, m
  <2>2. 0 + q * (m * Cube) + i * Cube + x = q * m * Cube + i * Cube + x
    BY <2>1
  <2>3. HalfAt(j, s, i, k) = q * m * Cube + i * Cube + x
    BY DEF HalfAt, NzAt, q, x, m
  <2>. QED  BY <2>2, <2>3 DEF q, x, m
<1>. QED  BY <1>1 DEF FixpipeNz, HalfPart

\* Every copy out that splits the rows.
LEMMA SplitRowsTake ==
    ASSUME NEW j, j.unit = "out", OutLegal(j), OutPolicy(j.policy) = "CopyOutSplitMWithParams", NEW t \in Tiles(j)
    PROVE  \E R \in Nat, C \in Nat : SplitsTile(CopyOut(j, t), j, R, C)
<1> DEFINE up == CeilAlign(j.m, 2)
           H == HalfOf(up)
           h == CeilAlign(j.m, Cube)
           s == Aligned(j, j.n)
           W == IF j.format = "NZ" THEN CeilAlign(j.n, Cube) ELSE s
           part == HalfPart(j, s, H, W)
<1>1. IsSplit(j)
  BY DEF IsSplit
<1>2. /\ t.height = j.m /\ t.width = j.n /\ RowOf(j, t) = 0 /\ ColOf(j, t) = 0
  BY <1>1, OneTile
<1>3. /\ H \in Positive /\ up = 2 * H /\ up \in j.m .. h /\ H = up \div 2 /\ H <= j.m /\ CeilAlign(up, Cube) = h
      /\ (j.format = "NZ" => up = j.m)
  BY HalfRows
<1>4. /\ Cube \in Positive /\ j.m \in Nat /\ j.n \in Nat /\ s \in Nat /\ j.n <= s /\ DimN(j) = j.n
      /\ CeilAlign(j.n, Cube) \in Nat /\ j.n <= CeilAlign(j.n, Cube)
      /\ (j.format # "NZ" => OutCols(j) = s) /\ (j.format = "NZ" => OutCols(j) = CeilAlign(j.n, Cube))
  BY <1>1, SplitSizes
<1>5. W \in j.n .. OutCols(j) /\ W \in Nat /\ (j.format # "NZ" => W = s)
  <2>. HIDE DEF s
  <2>. QED  BY <1>4
<1>6. CopyOut(j, t) = First(part) \cup Second(part, H * Cube)
  <2>1. H \in Nat
    BY <1>3 DEF Positive
  <2>2. CASE j.format # "NZ"
    <3>1. FixpipeRowMajor(0, W, H, h, s) = part
      <4>1. Cube \in Positive /\ j.m \in Nat /\ W \in Nat /\ s \in Nat
        BY <1>4, <1>5
      <4>. HIDE DEF H, W, s
      <4>. QED  BY <2>1, <2>2, <4>1, HalfRowMajor
    <3>2. CopyOut(j, t) = SplitMRowMajor(0, W, up, s)
      <4>1. CASE IsQuant(j)
        <5>1. CopyOut(j, t) = SplitM_QuantND(j, t)
          BY <2>2, <4>1 DEF CopyOut, OutLegal, IsSplit, LayoutPolicies
        <5>2. SplitM_QuantND(j, t) = SplitMRowMajor(0, s, up, s)
          BY <1>2 DEF SplitM_QuantND
        <5>. QED  BY <1>5, <2>2, <5>1, <5>2
      <4>2. CASE ~IsQuant(j)
        <5>1. CopyOut(j, t) = SplitM_ND(j, t)
          BY <2>2, <4>2 DEF CopyOut, OutLegal, IsSplit, LayoutPolicies
        <5>2. (RowOf(j, t) * s) \div 2 + ColOf(j, t) = 0
          <6>. HIDE DEF s
          <6>1. RowOf(j, t) * s = 0 /\ 0 \div 2 = 0
            BY <1>2, <1>4
          <6>. QED  BY <1>2, <6>1
        <5>3. SplitM_ND(j, t) = SplitMRowMajor(0, s, up, s)
          BY <1>2, <1>4, <5>2 DEF SplitM_ND
        <5>. QED  BY <1>5, <2>2, <5>1, <5>3
      <4>. QED  BY <4>1, <4>2
    <3>3. SplitMRowMajor(0, W, up, s) = First(part) \cup Second(part, H * Cube)
      <4>. HIDE DEF part, W, s, up, H, h
      <4>. QED  BY <1>3, <3>1 DEF SplitMRowMajor
    <3>. QED  BY <3>2, <3>3, Zenon
  <2>3. CASE j.format = "NZ"
    <3>1. FixpipeNz(0, W, H, h, j.m * Cube) = part
      <4>1. Cube \in Positive /\ j.m \in Nat /\ W \in Nat
        BY <1>4, <1>5
      <4>. HIDE DEF H, W, s
      <4>. QED  BY <2>1, <2>3, <4>1, HalfNz
    <3>2. CopyOut(j, t) = SplitMNz(0, W, j.m, j.m * Cube)
      <4>1. CopyOut(j, t) = SplitM_NZ(j, t)
        <5>1. ~IsQuantSenario(j.device, j.c, j.a)
          BY <1>1, <2>3 DEF OutLegal, IsQuant
        <5>. QED  BY <2>3, <5>1 DEF CopyOut, OutLegal, IsSplit, LayoutPolicies
      <4>2. (ColOf(j, t) * j.m + RowOf(j, t) * Cube) \div 2 = 0
        <5>1. ColOf(j, t) * j.m = 0 /\ RowOf(j, t) * Cube = 0 /\ (0 + 0) \div 2 = 0
          BY <1>2, <1>4 DEF Positive
        <5>. QED  BY <5>1
      <4>3. W = CeilDiv(j.n, Cube) * Cube
        BY <2>3 DEF CeilAlign
      <4>. HIDE DEF W
      <4>. QED  BY <1>2, <4>1, <4>2, <4>3 DEF SplitM_NZ
    <3>3. SplitMNz(0, W, j.m, j.m * Cube) = First(part) \cup Second(part, H * Cube)
      <4>1. j.m \div 2 = H /\ up = j.m
        BY <1>3, <2>3
      <4>2. CeilAlign(j.m, Cube) = h
        OBVIOUS
      <4>. HIDE DEF part, W, s, up, H, h
      <4>. QED  BY <3>1, <4>1, <4>2 DEF SplitMNz
    <3>. QED  BY <3>2, <3>3, Zenon
  <2>. QED  BY <2>2, <2>3, Zenon
<1>7. Halves(First(part) \cup Second(part, H * Cube), j, s, H, W, H * Cube)
  <2>1. H \in Nat /\ H * Cube \in Int
    BY <1>3, <1>4 DEF Positive
  <2>2. Cube \in Positive /\ j.m \in Nat /\ W \in Nat
    BY <1>4, <1>5
  <2>. HIDE DEF H, W, s
  <2>. QED  BY <2>1, <2>2, SplitHalves
<1>8. SplitsTile(CopyOut(j, t), j, 2 * H, W)
  <2>1. H = HalfOf(CeilAlign(j.m, 2)) /\ 2 * H \in j.m .. CeilAlign(j.m, Cube)
    BY <1>3
  <2>2. Halves(CopyOut(j, t), j, Aligned(j, j.n), H, W, H * Cube)
    BY <1>6, <1>7, Zenon
  <2>3. j.format # "NZ" => W <= Aligned(j, j.n)
    <3>. HIDE DEF W
    <3>. QED  BY <1>4, <1>5 DEF s
  <2>. HIDE DEF H, W
  <2>. QED  BY <1>3, <1>5, <2>1, <2>2, <2>3, SplitMTakes
<1>9. 2 * H \in Nat
  <2>. HIDE DEF H
  <2>. QED  BY <1>3 DEF Positive
<1>. HIDE DEF H, W
<1>. QED  BY <1>5, <1>8, <1>9

\* Half the columns of a tile, whole fractals.
LEMMA HalfColumns ==
    ASSUME NEW j, j.unit = "out", OutLegal(j), OutPolicy(j.policy) = "CopyOutSplitNWithParams"
    PROVE  LET s == Aligned(j, j.n)
               W == HalfOf(s)
           IN  /\ W \in Positive /\ W % Cube = 0 /\ 2 * W = s /\ s = OutCols(j) /\ W = s \div 2
               /\ Aligned(j, W) \in Nat /\ W <= Aligned(j, W)
               /\ j.format = "NZ" => CeilAlign(j.n, Cube) = s
<1> DEFINE s == Aligned(j, j.n)
           W == s \div 2
           q == s \div (2 * Cube)
<1>1. IsSplit(j)
  BY DEF IsSplit
<1>2. /\ Cube \in Positive /\ j.n \in Positive /\ j.n \in Nat /\ s \in Nat /\ j.n <= s
      /\ (j.format # "NZ" => OutCols(j) = s)
      /\ (j.format = "NZ" => OutCols(j) = CeilAlign(j.n, Cube) /\ s = j.n)
  BY <1>1, SplitSizes
<1>3. s % (2 * Cube) = 0 /\ 2 * Cube \in Positive /\ (2 * Cube) % Cube = 0
  <2>1. s % (2 * Cube) = 0 /\ 2 * Cube \in Positive
    BY <1>2 DEF OutLegal, Positive
  <2>2. (Cube * 2 + 0) % Cube = 0 /\ Cube * 2 + 0 = 2 * Cube
    BY <1>2, DivModUnique DEF Positive
  <2>. QED  BY <2>1, <2>2
<1>4. q \in Nat /\ s = (2 * Cube) * q
  <2>. HIDE DEF s
  <2>. QED  BY <1>2, <1>3, CeilOfMultiple, DivMod
<1>5. s % Cube = 0
  <2>. HIDE DEF s
  <2>. QED  BY <1>2, <1>3, MultipleOfMultiple
<1>. HIDE DEF q
<1>6. W = Cube * q /\ Cube * q \in Nat /\ 2 * (Cube * q) = s
  <2>. HIDE DEF s
  <2>1. s = 2 * (Cube * q) + 0 /\ Cube * q \in Nat
    BY <1>2, <1>4 DEF Positive
  <2>. QED  BY <2>1
<1>7. W % Cube = 0
  <2>1. (Cube * q + 0) % Cube = 0
    <3>1. 0 \in 0 .. Cube - 1
      BY <1>2 DEF Positive
    <3>. QED  BY <1>2, <1>4, <3>1, DivModUnique
  <2>. QED  BY <1>6, <2>1
<1>8. W \in Positive
  <2>. HIDE DEF s, W
  <2>. QED  BY <1>2, <1>6 DEF Positive
<1>9. Aligned(j, W) \in Nat /\ W <= Aligned(j, W)
  <2>1. Grid(j) /\ W \in Nat
    BY <1>8 DEF OutLegal, Positive
  <2>. HIDE DEF W
  <2>. QED  BY <2>1, OutSizes
<1>10. j.format = "NZ" => CeilAlign(j.n, Cube) = s
  BY <1>2, <1>5, CeilOfMultiple
<1>. QED  BY <1>2, <1>6, <1>7, <1>8, <1>9, <1>10 DEF HalfOf

\* Every copy out that splits the columns.
LEMMA SplitColumnsTake ==
    ASSUME NEW j, j.unit = "out", OutLegal(j), OutPolicy(j.policy) = "CopyOutSplitNWithParams", NEW t \in Tiles(j)
    PROVE  \E R \in Nat, C \in Nat : SplitsTile(CopyOut(j, t), j, R, C)
<1> DEFINE s == Aligned(j, j.n)
           W == HalfOf(s)
           h == CeilAlign(j.m, Cube)
           u == Aligned(j, W)
           part == HalfPart(j, u, j.m, W)
           skip == NzAt(h, Cube, 0, W)
<1>1. IsSplit(j) /\ ~IsQuantSenario(j.device, j.c, j.a)
  BY DEF IsSplit, OutLegal, IsQuant
<1>2. t.height = j.m /\ t.width = j.n /\ RowOf(j, t) = 0 /\ ColOf(j, t) = 0
  BY <1>1, OneTile
<1>3. /\ W \in Positive /\ W % Cube = 0 /\ 2 * W = s /\ s = OutCols(j) /\ W = s \div 2
      /\ u \in Nat /\ W <= u /\ (j.format = "NZ" => CeilAlign(j.n, Cube) = s)
  BY HalfColumns
<1>4. /\ Cube \in Positive /\ j.m \in Nat /\ j.n \in Nat /\ s \in Nat /\ j.n <= s /\ DimN(j) = j.n
      /\ CeilAlign(j.m, Cube) \in Nat
  BY <1>1, SplitSizes
<1>5. W \in Nat /\ 0 \in Int /\ skip \in Int
  <2>1. W \in Nat
    BY <1>3 DEF Positive
  <2>. HIDE DEF W
  <2>. QED  BY <1>4, <2>1, NzForm, 0 \in Int
<1>6. CopyOut(j, t) = First(part) \cup Second(part, skip)
  <2>1. CASE j.format # "NZ"
    <3>1. FixpipeRowMajor(0, W, j.m, h, u) = part
      <4>. HIDE DEF W, u
      <4>. QED  BY <1>3, <1>4, <1>5, <2>1, HalfRowMajor
    <3>2. CopyOut(j, t) = SplitN_ND(j, t)
      BY <1>1, <2>1 DEF CopyOut, OutLegal, IsSplit, LayoutPolicies
    <3>3. (RowOf(j, t) * s + ColOf(j, t) * t.height) \div 2 = 0
      <4>. HIDE DEF s
      <4>1. RowOf(j, t) * s = 0 /\ ColOf(j, t) * t.height = 0 /\ (0 + 0) \div 2 = 0
        BY <1>2, <1>4
      <4>. QED  BY <4>1
    <3>4. SplitN_ND(j, t) = SplitNRowMajor(0, s, j.m, u)
      <4>1. u = Aligned(j, s \div 2)
        BY <1>3
      <4>. QED  BY <1>2, <1>4, <3>3, <4>1 DEF SplitN_ND
    <3>5. SplitNRowMajor(0, s, j.m, u) = First(part) \cup Second(part, skip)
      <4>1. W = s \div 2
        BY <1>3
      <4>. HIDE DEF part, W, s, u
      <4>. QED  BY <3>1, <4>1 DEF SplitNRowMajor
    <3>. QED  BY <3>2, <3>4, <3>5, Zenon
  <2>2. CASE j.format = "NZ"
    <3>1. FixpipeNz(0, W, j.m, h, j.m * Cube) = part
      <4>. HIDE DEF W, u
      <4>. QED  BY <1>4, <1>5, <2>2, HalfNz
    <3>2. CopyOut(j, t) = SplitN_NZ(j, t)
      BY <1>1, <2>2 DEF CopyOut, OutLegal, IsSplit, LayoutPolicies
    <3>3. (ColOf(j, t) * j.m + RowOf(j, t) * Cube) \div 2 = 0
      <4>1. ColOf(j, t) * j.m = 0 /\ RowOf(j, t) * Cube = 0 /\ (0 + 0) \div 2 = 0
        BY <1>2, <1>4 DEF Positive
      <4>. QED  BY <4>1
    <3>4. SplitN_NZ(j, t) = SplitNNz(0, s, j.m, j.m * Cube)
      <4>1. CeilDiv(j.n, Cube) * Cube = s
        BY <1>3, <2>2 DEF CeilAlign
      <4>. HIDE DEF s
      <4>. QED  BY <1>2, <3>3, <4>1 DEF SplitN_NZ
    <3>5. SplitNNz(0, s, j.m, j.m * Cube) = First(part) \cup Second(part, skip)
      <4>1. W = s \div 2
        BY <1>3
      <4>. HIDE DEF part, W, s, u
      <4>. QED  BY <3>1, <4>1 DEF SplitNNz
    <3>. QED  BY <3>2, <3>4, <3>5, Zenon
  <2>. QED  BY <2>1, <2>2, Zenon
<1>7. Halves(First(part) \cup Second(part, skip), j, u, j.m, W, skip)
  <2>. HIDE DEF W, u, skip
  <2>. QED  BY <1>4, <1>5, SplitHalves
<1>8. SplitsTile(CopyOut(j, t), j, j.m, 2 * W)
  <2>1. Halves(CopyOut(j, t), j, Aligned(j, W), j.m, W, NzAt(CeilAlign(j.m, Cube), Cube, 0, W))
    BY <1>6, <1>7, Zenon
  <2>2. 2 * W \in j.n .. OutCols(j) /\ W = HalfOf(Aligned(j, j.n))
    <3>1. 2 * W = OutCols(j) /\ s = 2 * W /\ W \in Nat /\ j.n <= s /\ s \in Nat /\ j.n \in Nat
      BY <1>3, <1>4, <1>5
    <3>2. 2 * W \in j.n .. OutCols(j)
      <4>. HIDE DEF W, s
      <4>. QED  BY <3>1
    <3>. QED  BY <3>2
  <2>3. W \in Positive /\ W % Cube = 0 /\ Aligned(j, W) \in Nat /\ W <= Aligned(j, W)
    BY <1>3
  <2>. HIDE DEF W
  <2>. QED  BY <2>1, <2>2, <2>3, SplitNTakes
<1>9. 2 * W \in Nat /\ j.m \in Nat
  <2>. HIDE DEF W
  <2>. QED  BY <1>4, <1>5
<1>. HIDE DEF W
<1>. QED  BY <1>8, <1>9

\* So the copies out of a legal job are sound.
LEMMA OutSound == ASSUME NEW j, j.unit = "out", OutLegal(j) PROVE Sound(j)
<1>1. CASE ~IsSplit(j)
  BY <1>1, WholeSound
<1>2. CASE IsSplit(j)
  <2>1. ASSUME NEW t \in Tiles(j) PROVE \E R \in Nat, C \in Nat : SplitsTile(CopyOut(j, t), j, R, C)
    <3>1. OutPolicy(j.policy) \in {"CopyOutSplitMWithParams", "CopyOutSplitNWithParams"}
      BY <1>2 DEF IsSplit
    <3>. QED  BY <3>1, SplitRowsTake, SplitColumnsTake
  <2>. QED  BY <1>2, <2>1, SplitSound
<1>. QED  BY <1>1, <1>2

-----------------------------------------------------------------------------
(* Loads into L0: order of fractals.                                       *)
(* Cell (r, c) of a part moved to its place; and a part of which R rows and C columns are moved.     *)
LoadMove(j, t, r, c) ==
  <<LoadPlace(j, t, r, c), NzAt(SrcRows(j), LoadC0(j), LoadRow(j, t) + r, LoadCol(j, t) + c)>>
LoadsBox(moves, j, t, R, C) ==
  /\ \A x \in moves : \E r \in 0 .. R - 1, c \in 0 .. C - 1 : x = LoadMove(j, t, r, c)
  /\ \A r \in 0 .. R - 1, c \in 0 .. C - 1 : LoadMove(j, t, r, c) \in moves

(* R rows and C columns have places in L0 of their own, within its room.                             *)
PlaceBox(j, t, R, C) ==
  /\ \A r1, r2 \in 0 .. R - 1, c1, c2 \in 0 .. C - 1 :
        LoadPlace(j, t, r1, c1) = LoadPlace(j, t, r2, c2) => r1 = r2 /\ c1 = c2
  /\ \A r \in 0 .. R - 1, c \in 0 .. C - 1 : LoadPlace(j, t, r, c) \in 0 .. LoadRoom(j, t) - 1

(* The matrix is stored with the rows that L0 has as columns.                                        *)
Turned(j) == j.trans = (j.operand = "A")

(* Row r is row x of row q of fractals.                                                             *)
ZzFormed(w, c0, r, c, q, x) ==
  /\ r = Cube * q + x
  /\ ZzAt(w, c0, r, c) = RowMajorAt(Cube * w, q, NzAt(Cube, c0, x, c))
  /\ NzAt(Cube, c0, x, c) \in 0 .. Cube * w - 1
  /\ Cube * w \in Nat

\* Fractals side by side, as rows of fractals.
LEMMA ZzForm ==
    ASSUME NEW w \in Nat, NEW c0 \in Positive, w % c0 = 0, Cube \in Positive, NEW r \in Nat, NEW c \in 0 .. w - 1
    PROVE  \E q \in Nat, x \in 0 .. Cube - 1 : ZzFormed(w, c0, r, c, q, x)
<1> DEFINE q == r \div Cube  x == r % Cube  b == c \div c0  e == c % c0
<1>1. q \in Nat /\ x \in 0 .. Cube - 1 /\ r = Cube * q + x
  BY DivMod
<1>2. b \in Nat /\ e \in 0 .. c0 - 1
  BY DivMod
<1>3. Cube * w \in Nat
  BY MulMonotone DEF Positive
<1>4. NzAt(Cube, c0, x, c) \in 0 .. Cube * w - 1
  <2>. HIDE DEF x
  <2>1. Cube \in Nat
    BY DEF Positive
  <2>. QED  BY <1>1, <2>1, NzRange
<1>5. ZzAt(w, c0, r, c) = q * Cube * w + b * Cube * c0 + x * c0 + e
  BY DEF ZzAt
<1>6. NzAt(Cube, c0, x, c) = b * Cube * c0 + x * c0 + e
  BY DEF NzAt
<1>7. RowMajorAt(Cube * w, q, NzAt(Cube, c0, x, c)) = q * (Cube * w) + (b * Cube * c0 + x * c0 + e)
  BY <1>6 DEF RowMajorAt
<1> DEFINE p == b * Cube * c0  s == x * c0  y == q * Cube * w
<1>8. p \in Int /\ s \in Int /\ y \in Int /\ q * (Cube * w) = y
  <2>. HIDE DEF q, x, b
  <2>. QED  BY <1>1, <1>2 DEF Positive
<1>9. y + p + s + e = y + (p + s + e)
  <2>. HIDE DEF p, s, y, e
  <2>. QED  BY <1>2, <1>8
<1>. HIDE DEF q, x, b, e
<1>10. ZzAt(w, c0, r, c) = RowMajorAt(Cube * w, q, NzAt(Cube, c0, x, c))
  BY <1>5, <1>7, <1>8, <1>9
<1>11. ZzFormed(w, c0, r, c, q, x)
  BY <1>1, <1>3, <1>4, <1>10 DEF ZzFormed
<1>. QED  BY <1>1, <1>11

\* No two cells of rows of fractals have one place.
ZzApart(w, c0) ==
  \A r1, r2 \in Nat, c1, c2 \in 0 .. w - 1 : ZzAt(w, c0, r1, c1) = ZzAt(w, c0, r2, c2) => r1 = r2 /\ c1 = c2
LEMMA ZzPlacesApart ==
    ASSUME NEW w \in Nat, NEW c0 \in Positive, w % c0 = 0, Cube \in Positive
    PROVE  ZzApart(w, c0)
<1>. SUFFICES ASSUME NEW r1 \in Nat, NEW r2 \in Nat, NEW c1 \in 0 .. w - 1, NEW c2 \in 0 .. w - 1,
                     ZzAt(w, c0, r1, c1) = ZzAt(w, c0, r2, c2)
              PROVE  r1 = r2 /\ c1 = c2
  BY DEF ZzApart
<1>1. PICK q1 \in Nat, x1 \in 0 .. Cube - 1 : ZzFormed(w, c0, r1, c1, q1, x1)
  BY ZzForm
<1>2. PICK q2 \in Nat, x2 \in 0 .. Cube - 1 : ZzFormed(w, c0, r2, c2, q2, x2)
  BY ZzForm
<1> DEFINE n1 == NzAt(Cube, c0, x1, c1)  n2 == NzAt(Cube, c0, x2, c2)
<1>3. q1 = q2 /\ n1 = n2
  <2>1. RowMajorAt(Cube * w, q1, n1) = RowMajorAt(Cube * w, q2, n2) /\ Cube * w \in Nat
        /\ n1 \in 0 .. Cube * w - 1 /\ n2 \in 0 .. Cube * w - 1
    BY <1>1, <1>2 DEF ZzFormed
  <2>. HIDE DEF n1, n2
  <2>. QED  BY <2>1, RowMajorInjective
<1>4. x1 = x2 /\ c1 = c2
  <2>1. Cube \in Nat /\ c1 \in Nat /\ c2 \in Nat
    BY DEF Positive
  <2>. QED  BY <1>3, <2>1, NzInjective
<1>. QED  BY <1>1, <1>2, <1>3, <1>4 DEF ZzFormed

\* Rows of fractals take as many places as whole fractals have cells.
LEMMA ZzRange ==
    ASSUME NEW w \in Nat, NEW c0 \in Positive, w % c0 = 0, Cube \in Positive,
           NEW h \in Nat, h % Cube = 0, NEW r \in 0 .. h - 1, NEW c \in 0 .. w - 1
    PROVE  ZzAt(w, c0, r, c) \in 0 .. h * w - 1
<1> DEFINE k == h \div Cube
<1>0. r \in Nat
  OBVIOUS
<1>1. PICK q \in Nat, x \in 0 .. Cube - 1 : ZzFormed(w, c0, r, c, q, x)
  BY <1>0, ZzForm
<1>2. h = Cube * k /\ k \in Nat
  BY CeilOfMultiple, DivMod
<1>. HIDE DEF k
<1>3. q \in 0 .. k - 1
  <2>1. SUFFICES ASSUME k <= q PROVE FALSE
    BY <1>2
  <2>2. k * Cube <= q * Cube /\ k * Cube = Cube * k /\ q * Cube = Cube * q
    BY <1>2, <2>1, MulMonotone DEF Positive
  <2>3. r = Cube * q + x /\ Cube * q \in Int
    BY <1>1 DEF Positive, ZzFormed
  <2>. QED  BY <1>2, <2>2, <2>3
<1>4. ZzAt(w, c0, r, c) \in 0 .. k * (Cube * w) - 1
  <2>1. NzAt(Cube, c0, x, c) \in 0 .. Cube * w - 1 /\ Cube * w \in Nat
        /\ ZzAt(w, c0, r, c) = RowMajorAt(Cube * w, q, NzAt(Cube, c0, x, c))
    BY <1>1 DEF ZzFormed
  <2>. QED  BY <1>2, <1>3, <2>1, RowMajorRange
<1>5. k * (Cube * w) = h * w
  BY <1>2 DEF Positive
<1>. QED  BY <1>4, <1>5

\* Rounding up to a multiple of a unit is no less than rounding up to the unit.
LEMMA CeilOfDivisor ==
    ASSUME NEW a \in Nat, NEW b \in Positive, NEW d \in Positive, d % b = 0
    PROVE  CeilAlign(a, b) <= CeilAlign(a, d)
<1> DEFINE k == CeilDiv(a, d)  q == d \div b
<1>1. CeilAlign(a, d) = d * k /\ k \in Nat /\ a <= CeilAlign(a, d)
  BY CeilFacts
<1>2. d = b * q /\ q \in Nat
  <2>1. d \in Nat
    BY DEF Positive
  <2>. QED  BY <2>1, CeilOfMultiple, DivMod
<1>3. d * k = b * (q * k) /\ q * k \in Nat
  <2>. HIDE DEF k, q
  <2>. QED  BY <1>1, <1>2, MulMonotone DEF Positive
<1>4. a <= b * (q * k)
  BY <1>1, <1>3
<1>5. CeilAlign(a, b) <= b * (q * k)
  <2>. HIDE DEF k, q
  <2>. QED  BY <1>3, <1>4, CeilLeast
<1>. QED  BY <1>1, <1>3, <1>5

(* A part of the places of L0.                                                                       *)
LoadEdge(j) == IF Cube < LoadC0(j) THEN LoadC0(j) ELSE Cube
FitsRoom(j, t, a, b) ==
  \A x, y \in Nat : x <= a /\ y <= b => x * y <= LoadRoom(j, t) /\ y * x <= LoadRoom(j, t)

\* A row of a fractal is two, one or half an edge of it.
LEMMA LoadUnits ==
    ASSUME NEW j, LoadLegal(j)
    PROVE  /\ LoadC0(j) \in Positive /\ Cube \in Positive /\ LoadEdge(j) \in Positive
           /\ LoadEdge(j) % Cube = 0 /\ LoadEdge(j) % LoadC0(j) = 0
           /\ j.size = 1 => LoadC0(j) = 2 * Cube
           /\ j.size = 2 => LoadC0(j) = Cube
           /\ j.size = 4 => Cube = 2 * LoadC0(j)
<1>1. Cube \in Positive /\ Block = 2 * Cube /\ Cube \in Nat \ {0}
  BY FractalAssumption DEF Positive
<1>2. j.size \in {1, 2, 4}
  BY DEF LoadLegal
<1>3. CASE j.size = 1
  <2>1. LoadC0(j) = 2 * Cube
    BY <1>1, <1>3 DEF LoadC0, C0
  <2>2. LoadEdge(j) = 2 * Cube
    BY <1>1, <2>1 DEF LoadEdge
  <2>3. (2 * Cube) % Cube = 0 /\ (2 * Cube) % (2 * Cube) = 0
    <3>1. (Cube * 2 + 0) % Cube = 0 /\ 0 \in 0 .. Cube - 1 /\ 2 \in Nat
      BY <1>1, DivModUnique DEF Positive
    <3>2. ((2 * Cube) * 1 + 0) % (2 * Cube) = 0
      <4>1. 2 * Cube \in Positive /\ 0 \in 0 .. (2 * Cube) - 1 /\ 1 \in Nat
        BY <1>1 DEF Positive
      <4>. QED  BY <4>1, DivModUnique
    <3>3. Cube * 2 + 0 = 2 * Cube /\ (2 * Cube) * 1 + 0 = 2 * Cube
      BY <1>1
    <3>. QED  BY <3>1, <3>2, <3>3
  <2>. QED  BY <1>1, <1>3, <2>1, <2>2, <2>3 DEF Positive
<1>4. CASE j.size = 2
  <2>1. LoadC0(j) = Cube
    BY <1>1, <1>4 DEF LoadC0, C0
  <2>2. LoadEdge(j) = Cube
    BY <1>1, <2>1 DEF LoadEdge
  <2>3. Cube % Cube = 0
    BY <1>1
  <2>. QED  BY <1>1, <1>4, <2>1, <2>2, <2>3 DEF Positive
<1>5. CASE j.size = 4
  <2>0. Cube % 2 = 0
    BY <1>5 DEF LoadLegal
  <2>1. Cube = 2 * LoadC0(j) /\ LoadC0(j) \in Positive
    <3>1. LoadC0(j) = (2 * Cube) \div 4
      BY <1>1, <1>5 DEF LoadC0, C0
    <3>. QED  BY <1>1, <2>0, <3>1 DEF Positive
  <2>2. LoadEdge(j) = Cube
    BY <1>1, <2>1 DEF LoadEdge, Positive
  <2>3. Cube % Cube = 0
    BY <1>1
  <2>4. Cube % LoadC0(j) = 0
    <3>1. (LoadC0(j) * 2 + 0) % LoadC0(j) = 0
      <4>1. 0 \in 0 .. LoadC0(j) - 1 /\ 2 \in Nat
        BY <2>1 DEF Positive
      <4>. QED  BY <2>1, <4>1, DivModUnique
    <3>2. LoadC0(j) * 2 + 0 = Cube
      BY <2>1 DEF Positive
    <3>. QED  BY <3>1, <3>2
  <2>. QED  BY <1>1, <1>5, <2>1, <2>2, <2>3, <2>4 DEF Positive
<1>. QED  BY <1>2, <1>3, <1>4, <1>5

\* The sizes of a part in L0, in whole fractals.
LEMMA LoadSizes ==
    ASSUME NEW j, j.unit = "load", LoadLegal(j), NEW t \in Tiles(j)
    PROVE  /\ t.height \in Nat /\ t.width \in Nat /\ SrcRows(j) \in Nat
           /\ DstRows(j, t) \in Nat /\ t.height <= DstRows(j, t) /\ DstRows(j, t) % Cube = 0
           /\ DstCols(j, t) \in Nat /\ t.width <= DstCols(j, t) /\ DstCols(j, t) % LoadC0(j) = 0
           /\ LoadRow(j, t) \in Nat /\ LoadCol(j, t) \in Nat
           /\ LoadRow(j, t) % Cube = 0 /\ LoadCol(j, t) % LoadC0(j) = 0
<1>1. LoadC0(j) \in Positive /\ Cube \in Positive
  BY LoadUnits
<1>2. Grid(j) /\ j.unit \in {"in", "out", "load", "attention"}
  BY DEF LoadLegal
<1>3. /\ t.row \in Nat /\ t.row * j.baseM \in Nat /\ t.row * j.baseM < j.m /\ t.height \in 1 .. j.baseM
      /\ (t.row * j.baseM) % j.baseM = 0
      /\ t.col \in Nat /\ t.col * j.baseN \in Nat /\ t.col * j.baseN < j.n /\ t.width \in 1 .. j.baseN
      /\ (t.col * j.baseN) % j.baseN = 0
  BY <1>2, TileFacts
<1>4. j.m \in Nat /\ j.n \in Nat /\ j.baseM \in Positive /\ j.baseN \in Positive
  BY <1>2 DEF Grid, Positive
<1>5. t.height \in Nat /\ t.width \in Nat
  BY <1>3
<1>6. /\ SrcRows(j) \in Nat /\ DstRows(j, t) \in Nat /\ t.height <= DstRows(j, t) /\ DstRows(j, t) % Cube = 0
      /\ DstCols(j, t) \in Nat /\ t.width <= DstCols(j, t) /\ DstCols(j, t) % LoadC0(j) = 0
  BY <1>1, <1>4, <1>5, CeilFacts DEF SrcRows, DstRows, DstCols
<1>7. LoadRow(j, t) % Cube = 0
  <2>1. CASE j.m <= j.baseM
    <3>1. t.row = 0
      <4>1. SUFFICES ASSUME 1 <= t.row PROVE FALSE
        BY <1>3
      <4>2. 1 * j.baseM <= t.row * j.baseM
        BY <1>3, <1>4, <4>1, MulMonotone DEF Positive
      <4>. QED  BY <1>3, <1>4, <2>1, <4>2 DEF Positive
    <3>2. t.row * j.baseM = 0
      BY <1>4, <3>1 DEF Positive
    <3>. QED  BY <1>1, <3>2, ZeroDivMod DEF LoadRow
  <2>2. CASE j.baseM % Cube = 0
    BY <1>1, <1>3, <1>4, <2>2, MultipleOfMultiple DEF LoadRow
  <2>. QED  BY <2>1, <2>2 DEF LoadLegal
<1>8. LoadCol(j, t) % LoadC0(j) = 0
  <2>1. CASE j.n <= j.baseN
    <3>1. t.col = 0
      <4>1. SUFFICES ASSUME 1 <= t.col PROVE FALSE
        BY <1>3
      <4>2. 1 * j.baseN <= t.col * j.baseN
        BY <1>3, <1>4, <4>1, MulMonotone DEF Positive
      <4>. QED  BY <1>3, <1>4, <2>1, <4>2 DEF Positive
    <3>2. t.col * j.baseN = 0
      BY <1>4, <3>1 DEF Positive
    <3>. QED  BY <1>1, <3>2, ZeroDivMod DEF LoadCol
  <2>2. CASE j.baseN % C0(j.size) = 0
    BY <1>1, <1>3, <1>4, <2>2, MultipleOfMultiple DEF LoadCol, LoadC0
  <2>. QED  BY <2>1, <2>2 DEF LoadLegal
<1>. QED  BY <1>3, <1>5, <1>6, <1>7, <1>8 DEF LoadRow, LoadCol

\* Rounded up to either edge of a fractal, a part fits its room.
LEMMA LoadFits ==
    ASSUME NEW j, j.unit = "load", LoadLegal(j), NEW t \in Tiles(j)
    PROVE  \E a \in Nat, b \in Nat :
             /\ FitsRoom(j, t, a, b)
             /\ DstRows(j, t) <= a /\ CeilAlign(DstRows(j, t), Cube) <= a /\ CeilAlign(DstRows(j, t), LoadC0(j)) <= a
             /\ DstCols(j, t) <= b /\ CeilAlign(DstCols(j, t), Cube) <= b /\ CeilAlign(DstCols(j, t), LoadC0(j)) <= b
<1> DEFINE a == CeilAlign(DstRows(j, t), LoadEdge(j))  b == CeilAlign(DstCols(j, t), LoadEdge(j))
<1>1. /\ LoadC0(j) \in Positive /\ Cube \in Positive /\ LoadEdge(j) \in Positive
      /\ LoadEdge(j) % Cube = 0 /\ LoadEdge(j) % LoadC0(j) = 0
  BY LoadUnits
<1>2. DstRows(j, t) \in Nat /\ DstCols(j, t) \in Nat
  BY LoadSizes
<1>3. /\ a \in Nat /\ DstRows(j, t) <= a
      /\ CeilAlign(DstRows(j, t), Cube) <= a /\ CeilAlign(DstRows(j, t), LoadC0(j)) <= a
  BY <1>1, <1>2, CeilFacts, CeilOfDivisor
<1>4. /\ b \in Nat /\ DstCols(j, t) <= b
      /\ CeilAlign(DstCols(j, t), Cube) <= b /\ CeilAlign(DstCols(j, t), LoadC0(j)) <= b
  BY <1>1, <1>2, CeilFacts, CeilOfDivisor
<1>5. LoadRoom(j, t) = a * b
  BY DEF LoadRoom, LoadEdge
<1>. HIDE DEF a, b
<1>6. ASSUME NEW x \in Nat, NEW y \in Nat, x <= a, y <= b PROVE x * y <= LoadRoom(j, t) /\ y * x <= LoadRoom(j, t)
  <2>1. x * y <= a * y
    BY <1>3, <1>6, MulMonotone
  <2>2. y * a <= b * a
    BY <1>3, <1>4, <1>6, MulMonotone
  <2>3. y * a = a * y /\ b * a = a * b /\ y * x = x * y /\ {x * y, a * y, a * b} \subseteq Int
    BY <1>3, <1>4
  <2>. QED  BY <1>5, <2>1, <2>2, <2>3
<1>7. FitsRoom(j, t, a, b)
  BY <1>6 DEF FitsRoom
<1>. QED  BY <1>3, <1>4, <1>7

(* The places of R rows and C columns, in column blocks or in rows of fractals, kept or turned.      *)
NzBox(j, t, R, C, h) == \A r \in 0 .. R - 1, c \in 0 .. C - 1 : LoadPlace(j, t, r, c) = NzAt(h, LoadC0(j), r, c)
NzBoxTurned(j, t, R, C, h) ==
  \A r \in 0 .. R - 1, c \in 0 .. C - 1 : LoadPlace(j, t, r, c) = NzAt(h, LoadC0(j), c, r)
ZzBox(j, t, R, C, w) == \A r \in 0 .. R - 1, c \in 0 .. C - 1 : LoadPlace(j, t, r, c) = ZzAt(w, LoadC0(j), r, c)
ZzBoxTurned(j, t, R, C, w) ==
  \A r \in 0 .. R - 1, c \in 0 .. C - 1 : LoadPlace(j, t, r, c) = ZzAt(w, LoadC0(j), c, r)

\* What holds of every place of a box holds of the box.
LEMMA NzBoxPlaces ==
    ASSUME NEW j, NEW t, LoadC0(j) \in Positive, NEW R \in Nat, NEW C \in Nat, NEW h \in Nat, NEW w \in Nat,
           R <= h, C <= w, w % LoadC0(j) = 0, LoadRoom(j, t) \in Int, h * w <= LoadRoom(j, t),
           NzBox(j, t, R, C, h)
    PROVE  PlaceBox(j, t, R, C)
<1>0. h * w \in Nat
  BY MulMonotone
<1>1. ASSUME NEW r \in 0 .. R - 1, NEW c \in 0 .. C - 1
      PROVE  /\ r \in 0 .. h - 1 /\ c \in 0 .. w - 1 /\ c \in Nat /\ LoadPlace(j, t, r, c) = NzAt(h, LoadC0(j), r, c)
  BY DEF NzBox
<1>2. ASSUME NEW r \in 0 .. R - 1, NEW c \in 0 .. C - 1 PROVE LoadPlace(j, t, r, c) \in 0 .. LoadRoom(j, t) - 1
  <2>1. NzAt(h, LoadC0(j), r, c) \in 0 .. h * w - 1
    BY <1>1, NzRange
  <2>. QED  BY <1>0, <1>1, <2>1
<1>3. ASSUME NEW r1 \in 0 .. R - 1, NEW r2 \in 0 .. R - 1, NEW c1 \in 0 .. C - 1, NEW c2 \in 0 .. C - 1,
             LoadPlace(j, t, r1, c1) = LoadPlace(j, t, r2, c2)
      PROVE  r1 = r2 /\ c1 = c2
  <2>1. NzAt(h, LoadC0(j), r1, c1) = NzAt(h, LoadC0(j), r2, c2)
    BY <1>1, <1>3
  <2>. QED  BY <1>1, <2>1, NzInjective
<1>. QED  BY <1>2, <1>3 DEF PlaceBox

\* The same with rows and columns exchanged.
LEMMA NzBoxTurnedPlaces ==
    ASSUME NEW j, NEW t, LoadC0(j) \in Positive, NEW R \in Nat, NEW C \in Nat, NEW h \in Nat, NEW w \in Nat,
           C <= h, R <= w, w % LoadC0(j) = 0, LoadRoom(j, t) \in Int, h * w <= LoadRoom(j, t),
           NzBoxTurned(j, t, R, C, h)
    PROVE  PlaceBox(j, t, R, C)
<1>0. h * w \in Nat
  BY MulMonotone
<1>1. ASSUME NEW r \in 0 .. R - 1, NEW c \in 0 .. C - 1
      PROVE  /\ c \in 0 .. h - 1 /\ r \in 0 .. w - 1 /\ r \in Nat /\ LoadPlace(j, t, r, c) = NzAt(h, LoadC0(j), c, r)
  BY DEF NzBoxTurned
<1>2. ASSUME NEW r \in 0 .. R - 1, NEW c \in 0 .. C - 1 PROVE LoadPlace(j, t, r, c) \in 0 .. LoadRoom(j, t) - 1
  <2>1. NzAt(h, LoadC0(j), c, r) \in 0 .. h * w - 1
    BY <1>1, NzRange
  <2>. QED  BY <1>0, <1>1, <2>1
<1>3. ASSUME NEW r1 \in 0 .. R - 1, NEW r2 \in 0 .. R - 1, NEW c1 \in 0 .. C - 1, NEW c2 \in 0 .. C - 1,
             LoadPlace(j, t, r1, c1) = LoadPlace(j, t, r2, c2)
      PROVE  r1 = r2 /\ c1 = c2
  <2>1. NzAt(h, LoadC0(j), c1, r1) = NzAt(h, LoadC0(j), c2, r2)
    BY <1>1, <1>3
  <2>. QED  BY <1>1, <2>1, NzInjective
<1>. QED  BY <1>2, <1>3 DEF PlaceBox

\* The same in rows of fractals.
LEMMA ZzBoxPlaces ==
    ASSUME NEW j, NEW t, LoadC0(j) \in Positive, Cube \in Positive,
           NEW R \in Nat, NEW C \in Nat, NEW h \in Nat, NEW w \in Nat,
           R <= h, C <= w, w % LoadC0(j) = 0, h % Cube = 0, LoadRoom(j, t) \in Int, h * w <= LoadRoom(j, t),
           ZzBox(j, t, R, C, w)
    PROVE  PlaceBox(j, t, R, C)
<1>0. h * w \in Nat
  BY MulMonotone
<1>1. ASSUME NEW r \in 0 .. R - 1, NEW c \in 0 .. C - 1
      PROVE  /\ r \in 0 .. h - 1 /\ r \in Nat /\ c \in 0 .. w - 1 /\ LoadPlace(j, t, r, c) = ZzAt(w, LoadC0(j), r, c)
  BY DEF ZzBox
<1>2. ASSUME NEW r \in 0 .. R - 1, NEW c \in 0 .. C - 1 PROVE LoadPlace(j, t, r, c) \in 0 .. LoadRoom(j, t) - 1
  <2>1. ZzAt(w, LoadC0(j), r, c) \in 0 .. h * w - 1
    BY <1>1, ZzRange
  <2>. QED  BY <1>0, <1>1, <2>1
<1>3. ASSUME NEW r1 \in 0 .. R - 1, NEW r2 \in 0 .. R - 1, NEW c1 \in 0 .. C - 1, NEW c2 \in 0 .. C - 1,
             LoadPlace(j, t, r1, c1) = LoadPlace(j, t, r2, c2)
      PROVE  r1 = r2 /\ c1 = c2
  <2>1. ZzAt(w, LoadC0(j), r1, c1) = ZzAt(w, LoadC0(j), r2, c2)
    BY <1>1, <1>3
  <2>2. r1 \in Nat /\ r2 \in Nat /\ c1 \in 0 .. w - 1 /\ c2 \in 0 .. w - 1 /\ w \in Nat /\ w % LoadC0(j) = 0
        /\ LoadC0(j) \in Positive /\ Cube \in Positive
    BY <1>1
  <2>3. ZzApart(w, LoadC0(j))
    BY <2>2, ZzPlacesApart
  <2>. QED  BY <2>1, <2>2, <2>3 DEF ZzApart
<1>. QED  BY <1>2, <1>3 DEF PlaceBox

\* The same in rows of fractals, with rows and columns exchanged.
LEMMA ZzBoxTurnedPlaces ==
    ASSUME NEW j, NEW t, LoadC0(j) \in Positive, Cube \in Positive,
           NEW R \in Nat, NEW C \in Nat, NEW h \in Nat, NEW w \in Nat,
           C <= h, R <= w, w % LoadC0(j) = 0, h % Cube = 0, LoadRoom(j, t) \in Int, h * w <= LoadRoom(j, t),
           ZzBoxTurned(j, t, R, C, w)
    PROVE  PlaceBox(j, t, R, C)
<1>0. h * w \in Nat
  BY MulMonotone
<1>1. ASSUME NEW r \in 0 .. R - 1, NEW c \in 0 .. C - 1
      PROVE  /\ c \in 0 .. h - 1 /\ c \in Nat /\ r \in 0 .. w - 1 /\ LoadPlace(j, t, r, c) = ZzAt(w, LoadC0(j), c, r)
  BY DEF ZzBoxTurned
<1>2. ASSUME NEW r \in 0 .. R - 1, NEW c \in 0 .. C - 1 PROVE LoadPlace(j, t, r, c) \in 0 .. LoadRoom(j, t) - 1
  <2>1. ZzAt(w, LoadC0(j), c, r) \in 0 .. h * w - 1
    BY <1>1, ZzRange
  <2>. QED  BY <1>0, <1>1, <2>1
<1>3. ASSUME NEW r1 \in 0 .. R - 1, NEW r2 \in 0 .. R - 1, NEW c1 \in 0 .. C - 1, NEW c2 \in 0 .. C - 1,
             LoadPlace(j, t, r1, c1) = LoadPlace(j, t, r2, c2)
      PROVE  r1 = r2 /\ c1 = c2
  <2>1. ZzAt(w, LoadC0(j), c1, r1) = ZzAt(w, LoadC0(j), c2, r2)
    BY <1>1, <1>3
  <2>2. c1 \in Nat /\ c2 \in Nat /\ r1 \in 0 .. w - 1 /\ r2 \in 0 .. w - 1 /\ w \in Nat /\ w % LoadC0(j) = 0
        /\ LoadC0(j) \in Positive /\ Cube \in Positive
    BY <1>1
  <2>3. ZzApart(w, LoadC0(j))
    BY <2>2, ZzPlacesApart
  <2>. QED  BY <2>1, <2>2, <2>3 DEF ZzApart
<1>. QED  BY <1>2, <1>3 DEF PlaceBox

\* Fractals of B are column blocks seen from the side.
LEMMA ZnIsNz == ASSUME NEW w, NEW c0, NEW r, NEW c PROVE ZnAt(w, c0, r, c) = NzAt(w, c0, c, r)
BY DEF ZnAt, NzAt

\* Whatever the device and the operand, what a load moves has places of its own.
LEMMA LoadPlaces ==
    ASSUME NEW j, j.unit = "load", LoadLegal(j), NEW t \in Tiles(j), NEW R \in Nat, NEW C \in Nat,
           Turned(j) => /\ R <= CeilAlign(DstRows(j, t), LoadC0(j))
                        /\ C <= IF j.device = "910_95" THEN CeilAlign(DstCols(j, t), Cube) ELSE DstCols(j, t),
           ~Turned(j) => R <= DstRows(j, t) /\ C <= DstCols(j, t)
    PROVE  PlaceBox(j, t, R, C)
<1> DEFINE c0 == LoadC0(j)  rows == DstRows(j, t)  cols == DstCols(j, t)
           rowsC0 == CeilAlign(rows, c0)  colsC0 == CeilAlign(cols, c0)
           rowsCube == CeilAlign(rows, Cube)  colsCube == CeilAlign(cols, Cube)
<1>1. c0 \in Positive /\ Cube \in Positive
  BY LoadUnits
<1>2. rows \in Nat /\ rows % Cube = 0 /\ cols \in Nat /\ cols % c0 = 0
  BY LoadSizes
<1>3. /\ rowsC0 \in Nat /\ rows <= rowsC0 /\ rowsC0 % c0 = 0
      /\ colsC0 \in Nat /\ cols <= colsC0 /\ colsC0 % c0 = 0
      /\ rowsCube \in Nat /\ rows <= rowsCube /\ rowsCube % Cube = 0
      /\ colsCube \in Nat /\ cols <= colsCube /\ colsCube % Cube = 0
  BY <1>1, <1>2, CeilFacts
<1>4. PICK a \in Nat, b \in Nat :
        /\ FitsRoom(j, t, a, b) /\ rows <= a /\ rowsCube <= a /\ rowsC0 <= a
        /\ cols <= b /\ colsCube <= b /\ colsC0 <= b
  BY LoadFits
<1>5. /\ colsCube * rowsC0 <= LoadRoom(j, t) /\ rows * colsC0 <= LoadRoom(j, t) /\ cols * rowsC0 <= LoadRoom(j, t)
      /\ rows * cols <= LoadRoom(j, t) /\ rowsCube * cols <= LoadRoom(j, t)
  <2>. HIDE DEF rows, cols, rowsC0, colsC0, rowsCube, colsCube
  <2>. QED  BY <1>2, <1>3, <1>4 DEF FitsRoom
<1>6. LoadRoom(j, t) \in Int
  <2>1. LoadEdge(j) \in Positive
    BY LoadUnits
  <2>2. CeilAlign(rows, LoadEdge(j)) \in Nat /\ CeilAlign(cols, LoadEdge(j)) \in Nat
    BY <1>2, <2>1, CeilFacts
  <2>3. LoadRoom(j, t) = CeilAlign(rows, LoadEdge(j)) * CeilAlign(cols, LoadEdge(j))
    BY DEF LoadRoom, LoadEdge
  <2>. HIDE DEF rows, cols
  <2>. QED  BY <2>2, <2>3
<1>7. CASE j.device = "910B" /\ j.operand = "A" /\ Turned(j)
  <2>1. ZzBoxTurned(j, t, R, C, rowsC0)
    BY <1>7 DEF ZzBoxTurned, LoadPlace, Turned
  <2>2. C <= colsCube /\ R <= rowsC0
    <3>1. C <= cols /\ R <= rowsC0
      BY <1>7
    <3>. HIDE DEF rows, cols, rowsC0, colsCube
    <3>. QED  BY <1>2, <1>3, <3>1
  <2>. HIDE DEF rows, cols, rowsC0, colsC0, rowsCube, colsCube, c0
  <2>. QED  BY <1>1, <1>3, <1>5, <1>6, <2>1, <2>2, ZzBoxTurnedPlaces DEF c0
<1>8. CASE j.device = "910B" /\ j.operand = "A" /\ ~Turned(j)
  <2>1. ZzBox(j, t, R, C, colsC0)
    BY <1>8 DEF ZzBox, LoadPlace, Turned
  <2>2. C <= colsC0 /\ R <= rows
    <3>1. C <= cols /\ R <= rows
      BY <1>8
    <3>. HIDE DEF rows, cols, rowsC0, colsC0
    <3>. QED  BY <1>2, <1>3, <3>1
  <2>. HIDE DEF rows, cols, rowsC0, colsC0, rowsCube, colsCube, c0
  <2>. QED  BY <1>1, <1>2, <1>3, <1>5, <1>6, <2>1, <2>2, ZzBoxPlaces DEF c0
<1>9. CASE j.device = "910B" /\ j.operand = "B" /\ Turned(j)
  <2>1. NzBoxTurned(j, t, R, C, cols)
    BY <1>9, ZnIsNz DEF NzBoxTurned, LoadPlace, Turned
  <2>2. C <= cols /\ R <= rowsC0
    BY <1>9
  <2>. HIDE DEF rows, cols, rowsC0, colsC0, rowsCube, colsCube, c0
  <2>. QED  BY <1>1, <1>2, <1>3, <1>5, <1>6, <2>1, <2>2, NzBoxTurnedPlaces DEF c0
<1>10. CASE j.device = "910B" /\ j.operand = "B" /\ ~Turned(j)
  <2>1. NzBox(j, t, R, C, rows)
    BY <1>10, ZnIsNz DEF NzBox, LoadPlace, Turned
  <2>2. C <= cols /\ R <= rows
    BY <1>10
  <2>. HIDE DEF rows, cols, rowsC0, colsC0, rowsCube, colsCube, c0
  <2>. QED  BY <1>1, <1>2, <1>5, <1>6, <2>1, <2>2, NzBoxPlaces DEF c0
<1>11. CASE j.device = "910_95" /\ Turned(j)
  <2>1. NzBoxTurned(j, t, R, C, colsCube)
    BY <1>11 DEF NzBoxTurned, LoadPlace, Turned
  <2>2. C <= colsCube /\ R <= rowsC0
    BY <1>11
  <2>. HIDE DEF rows, cols, rowsC0, colsC0, rowsCube, colsCube, c0
  <2>. QED  BY <1>1, <1>3, <1>5, <1>6, <2>1, <2>2, NzBoxTurnedPlaces DEF c0
<1>12. CASE j.device = "910_95" /\ ~Turned(j)
  <2>1. NzBox(j, t, R, C, rowsCube)
    BY <1>12 DEF NzBox, LoadPlace, Turned
  <2>2. C <= cols /\ R <= rowsCube
    <3>1. C <= cols /\ R <= rows
      BY <1>12
    <3>. HIDE DEF rows, cols, rowsCube
    <3>. QED  BY <1>2, <1>3, <3>1
  <2>. HIDE DEF rows, cols, rowsC0, colsC0, rowsCube, colsCube, c0
  <2>. QED  BY <1>1, <1>2, <1>3, <1>5, <1>6, <2>1, <2>2, NzBoxPlaces DEF c0
<1>. QED  BY <1>7, <1>8, <1>9, <1>10, <1>11, <1>12 DEF LoadLegal

-----------------------------------------------------------------------------
(* Loads by boxes and by fractals.                                         *)
(* Where a cell of the part comes from.                                                              *)
LoadFrom(j, t, r, c) == NzAt(SrcRows(j), LoadC0(j), LoadRow(j, t) + r, LoadCol(j, t) + c)

\* One instruction on the fractals of L0A or L0B moves a box.
LEMMA BoxOfCells ==
    ASSUME NEW j, NEW t, NEW R \in Nat, NEW C \in Nat, NEW moves,
           moves = {<<LoadPlace(j, t, r, c), LoadFrom(j, t, r, c)>> : r \in 0 .. R - 1, c \in 0 .. C - 1}
    PROVE  LoadsBox(moves, j, t, R, C)
BY DEF LoadsBox, LoadMove, LoadFrom

LEMMA Load3DBox ==
    ASSUME NEW j, j.unit = "load", LoadLegal(j), NEW t \in Tiles(j), NEW target, NEW transpose,
           \/ /\ target = "A2" /\ transpose = FALSE
              /\ \A r, c : LoadPlace(j, t, r, c) = ZzAt(DstCols(j, t), LoadC0(j), r, c)
           \/ /\ target = "A2" /\ transpose = TRUE
              /\ \A r, c : LoadPlace(j, t, r, c) = ZzAt(DstRows(j, t), LoadC0(j), c, r)
           \/ /\ target = "B2"
              /\ \A r, c : LoadPlace(j, t, r, c) = ZnAt(DstCols(j, t), LoadC0(j), r, c)
    PROVE  LoadsBox(Load3D(target, LoadRow(j, t), LoadCol(j, t), DstRows(j, t), DstCols(j, t), SrcRows(j),
                           transpose, LoadC0(j)), j, t, DstRows(j, t), DstCols(j, t))
<1> DEFINE moves == Load3D(target, LoadRow(j, t), LoadCol(j, t), DstRows(j, t), DstCols(j, t), SrcRows(j),
                           transpose, LoadC0(j))
           cells == {<<LoadPlace(j, t, r, c), LoadFrom(j, t, r, c)>> :
                       r \in 0 .. DstRows(j, t) - 1, c \in 0 .. DstCols(j, t) - 1}
<1>1. ASSUME /\ target = "A2" /\ transpose = FALSE
             /\ \A r, c : LoadPlace(j, t, r, c) = ZzAt(DstCols(j, t), LoadC0(j), r, c)
      PROVE  moves = cells
  <2>1. moves = {<<ZzAt(DstCols(j, t), LoadC0(j), r, c), LoadFrom(j, t, r, c)>> :
                   r \in 0 .. DstRows(j, t) - 1, c \in 0 .. DstCols(j, t) - 1}
    BY <1>1 DEF Load3D, LoadFrom
  <2>. QED  BY <1>1, <2>1
<1>2. ASSUME /\ target = "A2" /\ transpose = TRUE
             /\ \A r, c : LoadPlace(j, t, r, c) = ZzAt(DstRows(j, t), LoadC0(j), c, r)
      PROVE  moves = cells
  <2>1. moves = {<<ZzAt(DstRows(j, t), LoadC0(j), c, r), LoadFrom(j, t, r, c)>> :
                   r \in 0 .. DstRows(j, t) - 1, c \in 0 .. DstCols(j, t) - 1}
    BY <1>2 DEF Load3D, LoadFrom
  <2>. HIDE DEF moves
  <2>2. \A x : x \in moves <=> x \in cells
    BY <1>2, <2>1
  <2>. QED  BY <2>2
<1>3. ASSUME /\ target = "B2"
             /\ \A r, c : LoadPlace(j, t, r, c) = ZnAt(DstCols(j, t), LoadC0(j), r, c)
      PROVE  moves = cells
  <2>1. moves = {<<ZnAt(DstCols(j, t), LoadC0(j), r, c), LoadFrom(j, t, r, c)>> :
                   r \in 0 .. DstRows(j, t) - 1, c \in 0 .. DstCols(j, t) - 1}
    BY <1>3 DEF Load3D, LoadFrom
  <2>. QED  BY <1>3, <2>1
<1>4. moves = cells => LoadsBox(moves, j, t, DstRows(j, t), DstCols(j, t))
  BY LoadSizes, BoxOfCells
<1>5. moves = cells
  <2>. HIDE DEF moves, cells
  <2>. QED  BY <1>1, <1>2, <1>3
<1>. QED  BY <1>4, <1>5

\* Sizes in whole fractals need no rounding up.
LEMMA LoadWhole ==
    ASSUME NEW j, j.unit = "load", LoadLegal(j), NEW t \in Tiles(j)
    PROVE  /\ CeilAlign(DstRows(j, t), Cube) = DstRows(j, t) /\ CeilAlign(DstCols(j, t), LoadC0(j)) = DstCols(j, t)
           /\ CeilAlign(LoadRow(j, t), Cube) = LoadRow(j, t) /\ CeilAlign(LoadCol(j, t), LoadC0(j)) = LoadCol(j, t)
           /\ CeilAlign(SrcRows(j), Cube) = SrcRows(j)
           /\ j.size # 1 => CeilAlign(DstRows(j, t), LoadC0(j)) = DstRows(j, t)
<1>1. j.size # 1 => Cube % LoadC0(j) = 0
  <2>1. j.size \in {1, 2, 4}
    BY DEF LoadLegal
  <2>2. /\ LoadC0(j) \in Positive /\ Cube \in Positive
        /\ LoadEdge(j) % LoadC0(j) = 0
        /\ j.size = 2 => LoadC0(j) = Cube
        /\ j.size = 4 => Cube = 2 * LoadC0(j)
    BY LoadUnits
  <2>3. j.size # 1 => ~(Cube < LoadC0(j))
    BY <2>1, <2>2 DEF Positive
  <2>4. j.size # 1 => LoadEdge(j) = Cube
    BY <2>3 DEF LoadEdge
  <2>. QED  BY <2>2, <2>4
<1>2. /\ DstRows(j, t) \in Nat /\ DstRows(j, t) % Cube = 0
      /\ DstCols(j, t) \in Nat /\ DstCols(j, t) % LoadC0(j) = 0
      /\ LoadRow(j, t) \in Nat /\ LoadRow(j, t) % Cube = 0
      /\ LoadCol(j, t) \in Nat /\ LoadCol(j, t) % LoadC0(j) = 0
  BY LoadSizes
<1>3. LoadC0(j) \in Positive /\ Cube \in Positive
  BY LoadUnits
<1>4. j.m \in Nat
  BY DEF LoadLegal, Grid
<1>5. SrcRows(j) \in Nat /\ SrcRows(j) % Cube = 0
  BY <1>3, <1>4, CeilFacts DEF SrcRows
<1>6. j.size # 1 => DstRows(j, t) % LoadC0(j) = 0
  BY <1>1, <1>2, <1>3, MultipleOfMultiple
<1>. QED  BY <1>2, <1>3, <1>5, <1>6, CeilOfMultiple

\* L0A of the 910B, of elements of two bytes or more when turned.
LEMMA LoadA2Box ==
    ASSUME NEW j, j.unit = "load", LoadLegal(j), NEW t \in Tiles(j), j.device = "910B", j.operand = "A"
    PROVE  /\ ~j.trans => LoadsBox(Load(j, t), j, t, DstRows(j, t), DstCols(j, t))
           /\ j.trans /\ j.size # 1 => LoadsBox(Load(j, t), j, t, DstRows(j, t), DstCols(j, t))
<1>0. j.trans \in BOOLEAN
  BY DEF LoadLegal
<1>1. CASE ~j.trans
  <2>1. Load(j, t) = NoneTransposeLoadA2_910B(j, t)
    BY <1>0, <1>1 DEF Load
  <2>2. \A r, c : LoadPlace(j, t, r, c) = ZzAt(DstCols(j, t), LoadC0(j), r, c)
    BY <1>0, <1>1, LoadWhole DEF LoadPlace
  <2>. QED  BY <1>1, <2>1, <2>2, Load3DBox DEF NoneTransposeLoadA2_910B
<1>2. CASE j.trans /\ j.size # 1
  <2>1. Load(j, t) = TransposeLoadA2_910B(j, t)
    BY <1>0, <1>2 DEF Load
  <2>2. \A r, c : LoadPlace(j, t, r, c) = ZzAt(DstRows(j, t), LoadC0(j), c, r)
    BY <1>0, <1>2, LoadWhole DEF LoadPlace
  <2>. QED  BY <1>2, <2>1, <2>2, Load3DBox DEF TransposeLoadA2_910B
<1>. QED  BY <1>0, <1>1, <1>2

\* L0B of the 910B, when the matrix is stored as B is.
LEMMA LoadB2Box ==
    ASSUME NEW j, j.unit = "load", LoadLegal(j), NEW t \in Tiles(j), j.device = "910B", j.operand = "B", ~j.trans
    PROVE  LoadsBox(Load(j, t), j, t, DstRows(j, t), DstCols(j, t))
<1>0. j.trans \in BOOLEAN
  BY DEF LoadLegal
<1>1. Load(j, t) = NoneTransposeLoadB2_910B(j, t)
  BY <1>0 DEF Load
<1>2. \A r, c : LoadPlace(j, t, r, c) = ZnAt(DstCols(j, t), LoadC0(j), r, c)
  BY <1>0 DEF LoadPlace
<1>. QED  BY <1>1, <1>2, Load3DBox DEF NoneTransposeLoadB2_910B

\* The units in which the 910_95 counts are whole fractals.
LEMMA LoadSteps ==
    ASSUME NEW j, j.unit = "load", LoadLegal(j), NEW t \in Tiles(j)
    PROVE  /\ CeilDiv(LoadRow(j, t), Cube) * Cube = LoadRow(j, t)
           /\ CeilDiv(LoadCol(j, t), LoadC0(j)) * LoadC0(j) = LoadCol(j, t)
           /\ CeilDiv(DstRows(j, t), Cube) * Cube = DstRows(j, t)
           /\ CeilDiv(DstCols(j, t), LoadC0(j)) * LoadC0(j) = DstCols(j, t)
           /\ CeilDiv(SrcRows(j), Cube) * Cube = SrcRows(j)
           /\ CeilDiv(DstCols(j, t), Cube) * Cube = CeilAlign(DstCols(j, t), Cube)
BY LoadWhole DEF CeilAlign

\* The 910_95 keeps column blocks.
LEMMA LoadKept95 ==
    ASSUME NEW j, j.unit = "load", LoadLegal(j), NEW t \in Tiles(j), j.device = "910_95", ~Turned(j)
    PROVE  LoadsBox(NoneTransposeLoad_910_95(j, t), j, t, DstRows(j, t), DstCols(j, t))
<1> DEFINE moves == NoneTransposeLoad_910_95(j, t)
           cells == {<<LoadPlace(j, t, r, c), LoadFrom(j, t, r, c)>> :
                       r \in 0 .. DstRows(j, t) - 1, c \in 0 .. DstCols(j, t) - 1}
<1>1. \A r, c : LoadPlace(j, t, r, c) = NzAt(DstRows(j, t), LoadC0(j), r, c)
  BY LoadWhole DEF LoadPlace, Turned
<1>2. moves = {<<NzAt(DstRows(j, t), LoadC0(j), r, c), LoadFrom(j, t, r, c)>> :
                 r \in 0 .. DstRows(j, t) - 1, c \in 0 .. DstCols(j, t) - 1}
  BY LoadSteps DEF NoneTransposeLoad_910_95, Load2DV2, LoadFrom
<1>3. moves = cells
  <2>. HIDE DEF moves
  <2>. QED  BY <1>1, <1>2
<1>4. moves = cells => LoadsBox(moves, j, t, DstRows(j, t), DstCols(j, t))
  BY LoadSizes, BoxOfCells
<1>. QED  BY <1>3, <1>4

\* A pair of units rounds up no further than its halves do.
LEMMA PairsFit ==
    ASSUME NEW c0 \in Positive, NEW s \in Nat, NEW a \in Nat, a = s * c0, NEW d \in Positive, d = 2 * c0
    PROVE  \E C \in Nat : C = CeilAlign(s, 2) * c0 /\ a <= C /\ C <= CeilAlign(a, d)
<1> DEFINE k == CeilAlign(s, 2)  q == CeilDiv(a, d)
<1>1. 2 \in Positive /\ c0 \in Nat /\ 1 <= c0
  BY DEF Positive
<1>2. k \in Nat /\ s <= k
  BY <1>1, CeilFacts
<1>3. q \in Nat /\ a <= CeilAlign(a, d) /\ CeilAlign(a, d) = d * q
  BY CeilFacts
<1>4. s <= 2 * q
  <2>. HIDE DEF q
  <2>1. SUFFICES ASSUME 2 * q + 1 <= s PROVE FALSE
    BY <1>3
  <2>2. (2 * q + 1) * c0 <= s * c0
    BY <1>1, <1>3, <2>1, MulMonotone
  <2>3. (2 * q + 1) * c0 = d * q + c0
    BY <1>1, <1>3
  <2>4. d * q \in Nat
    BY <1>1, <1>3, MulMonotone
  <2>. QED  BY <1>1, <1>3, <2>2, <2>3, <2>4
<1>5. k <= 2 * q
  <2>. HIDE DEF q
  <2>. QED  BY <1>1, <1>3, <1>4, CeilLeast
<1>. HIDE DEF k, q
<1>6. s * c0 <= k * c0 /\ k * c0 <= (2 * q) * c0 /\ k * c0 \in Nat /\ (2 * q) * c0 = d * q
  <2>1. s * c0 <= k * c0 /\ k * c0 \in Nat
    BY <1>1, <1>2, MulMonotone
  <2>2. k * c0 <= (2 * q) * c0
    <3>1. 2 * q \in Nat
      BY <1>3
    <3>. QED  BY <1>1, <1>2, <1>5, <3>1, MulMonotone
  <2>3. (2 * q) * c0 = d * q
    BY <1>1, <1>3
  <2>. QED  BY <2>1, <2>2, <2>3
<1>7. k * c0 \in Nat /\ a <= k * c0 /\ k * c0 <= CeilAlign(a, d)
  BY <1>3, <1>6
<1>. QED  BY <1>7 DEF k

\* Turned floats come in pairs of fractals, which the room has place for.
LEMMA KStepFits ==
    ASSUME NEW j, j.unit = "load", LoadLegal(j), NEW t \in Tiles(j)
    PROVE  \E C \in Nat : /\ C = KStep(j, DstCols(j, t)) * LoadC0(j)
                          /\ DstCols(j, t) <= C /\ C <= CeilAlign(DstCols(j, t), Cube)
<1>1. /\ LoadC0(j) \in Positive /\ Cube \in Positive
      /\ j.size = 4 => Cube = 2 * LoadC0(j)
  BY LoadUnits
<1>2. DstCols(j, t) \in Nat
  BY LoadSizes
<1>3. CeilDiv(DstCols(j, t), LoadC0(j)) \in Nat /\ DstCols(j, t) = CeilDiv(DstCols(j, t), LoadC0(j)) * LoadC0(j)
  BY <1>1, <1>2, LoadSteps, CeilFacts
<1>4. DstCols(j, t) <= CeilAlign(DstCols(j, t), Cube)
  BY <1>1, <1>2, CeilFacts
<1>5. CASE j.size # 4
  <2>1. KStep(j, DstCols(j, t)) = CeilDiv(DstCols(j, t), LoadC0(j))
    BY <1>5 DEF KStep
  <2>. QED  BY <1>2, <1>3, <1>4, <2>1
<1>6. CASE j.size = 4
  <2>1. KStep(j, DstCols(j, t)) = CeilAlign(CeilDiv(DstCols(j, t), LoadC0(j)), 2)
    BY <1>6 DEF KStep
  <2>2. Cube = 2 * LoadC0(j)
    BY <1>1, <1>6
  <2>. QED  BY ONLY <1>1, <1>2, <1>3, <2>1, <2>2, PairsFit
<1>. QED  BY <1>5, <1>6

\* The 910_95 turns column blocks into column blocks.
LEMMA LoadTurned95 ==
    ASSUME NEW j, j.unit = "load", LoadLegal(j), NEW t \in Tiles(j), j.device = "910_95", Turned(j),
           NEW C \in Nat, C = KStep(j, DstCols(j, t)) * LoadC0(j)
    PROVE  LoadsBox(TransposeLoad_910_95(j, t), j, t, DstRows(j, t), C)
<1> DEFINE moves == TransposeLoad_910_95(j, t)
           h == CeilAlign(DstCols(j, t), Cube)
           cells == {<<LoadPlace(j, t, r, c), LoadFrom(j, t, r, c)>> : r \in 0 .. DstRows(j, t) - 1, c \in 0 .. C - 1}
<1>1. \A r, c : LoadPlace(j, t, r, c) = NzAt(h, LoadC0(j), c, r)
  BY DEF LoadPlace, Turned
<1>2. moves = {<<NzAt(h, LoadC0(j), c, r), LoadFrom(j, t, r, c)>> : r \in 0 .. DstRows(j, t) - 1, c \in 0 .. C - 1}
  BY LoadSteps DEF TransposeLoad_910_95, Load2DV2, LoadFrom
<1>3. moves = cells
  <2>. HIDE DEF moves, h
  <2>1. \A x : x \in moves <=> x \in cells
    BY <1>1, <1>2
  <2>. HIDE DEF cells
  <2>. QED  BY <2>1, <1>1, <1>2 DEF cells
<1>4. LoadsBox(cells, j, t, DstRows(j, t), C)
  <2>1. \A x \in cells : \E r \in 0 .. DstRows(j, t) - 1, c \in 0 .. C - 1 : x = LoadMove(j, t, r, c)
    BY DEF LoadMove, LoadFrom
  <2>2. \A r \in 0 .. DstRows(j, t) - 1, c \in 0 .. C - 1 : LoadMove(j, t, r, c) \in cells
    BY DEF LoadMove, LoadFrom
  <2>. HIDE DEF cells
  <2>. QED  BY ONLY <2>1, <2>2 DEF LoadsBox
<1>. QED  BY <1>3, <1>4

\* Either operand on the 910_95.
LEMMA Load95Box ==
    ASSUME NEW j, j.unit = "load", LoadLegal(j), NEW t \in Tiles(j), j.device = "910_95"
    PROVE  /\ ~Turned(j) => LoadsBox(Load(j, t), j, t, DstRows(j, t), DstCols(j, t))
           /\ Turned(j) => \E C \in Nat : /\ LoadsBox(Load(j, t), j, t, DstRows(j, t), C)
                                          /\ DstCols(j, t) <= C /\ C <= CeilAlign(DstCols(j, t), Cube)
<1>1. j.trans \in BOOLEAN /\ j.operand \in {"A", "B"}
  BY DEF LoadLegal
<1>2. ~Turned(j) => Load(j, t) = NoneTransposeLoad_910_95(j, t)
  BY <1>1 DEF Load, Turned, NoneTransposeLoadA2_910_95, TransposeLoadB2_910_95
<1>3. Turned(j) => Load(j, t) = TransposeLoad_910_95(j, t)
  BY <1>1 DEF Load, Turned, TransposeLoadA2_910_95, NoneTransposeLoadB2_910_95
<1>4. ASSUME Turned(j)
      PROVE  \E C \in Nat : /\ LoadsBox(Load(j, t), j, t, DstRows(j, t), C)
                            /\ DstCols(j, t) <= C /\ C <= CeilAlign(DstCols(j, t), Cube)
  <2>1. PICK C \in Nat : /\ C = KStep(j, DstCols(j, t)) * LoadC0(j)
                         /\ DstCols(j, t) <= C /\ C <= CeilAlign(DstCols(j, t), Cube)
    BY KStepFits
  <2>2. LoadsBox(TransposeLoad_910_95(j, t), j, t, DstRows(j, t), C)
    BY <1>4, <2>1, LoadTurned95
  <2>. QED  BY <1>3, <1>4, <2>1, <2>2
<1>. QED  BY <1>2, <1>4, LoadKept95

-----------------------------------------------------------------------------
(* Loads that turn B.                                                      *)
\* An index below n * b is a block below n and a place in it.
Cut(b, n, size) ==
  /\ \A q \in 0 .. n - 1, e \in 0 .. b - 1 : b * q + e \in 0 .. size - 1
  /\ \A r \in 0 .. size - 1 : \E q \in 0 .. n - 1, e \in 0 .. b - 1 : r = b * q + e
LEMMA CutIndex == ASSUME NEW b \in Positive, NEW n \in Nat, NEW size, size = n * b PROVE Cut(b, n, size)
<1>0. b \in Nat /\ n * b \in Nat
  BY MulMonotone DEF Positive
<1>1. ASSUME NEW q \in 0 .. n - 1, NEW e \in 0 .. b - 1 PROVE b * q + e \in 0 .. n * b - 1
  <2>1. q \in Nat /\ q < n
    OBVIOUS
  <2>2. q * b + b <= n * b /\ q * b \in Nat /\ q * b = b * q
    BY <1>0, <2>1, MulMonotone
  <2>. QED  BY <1>0, <2>2
<1>2. ASSUME NEW r \in 0 .. n * b - 1 PROVE \E q \in 0 .. n - 1, e \in 0 .. b - 1 : r = b * q + e
  <2>0. r \in Nat
    BY <1>0
  <2> DEFINE q == r \div b  e == r % b
  <2>1. q \in Nat /\ e \in 0 .. b - 1 /\ r = b * q + e
    BY <2>0, DivMod
  <2>. HIDE DEF q, e
  <2>2. q < n
    <3>1. SUFFICES ASSUME n <= q PROVE FALSE
      BY <2>1
    <3>2. n * b <= q * b /\ q * b = b * q
      BY <1>0, <2>1, <3>1, MulMonotone
    <3>3. b * q \in Nat
      BY <1>0, <2>1, MulMonotone
    <3>. QED  BY <1>0, <2>1, <3>2, <3>3
  <2>. QED  BY <2>1, <2>2
<1>. QED  BY <1>1, <1>2 DEF Cut

(* Element (e, k) of the b-th square of a column of squares, transposed into two columns of fractals. *)
SquareFrom(S, c0, b, e, i, k) == i * S * c0 + b * 1 * c0 * c0 + e * c0 + k
SquareTo(rep, c0, b, e, i, k) ==
  i * rep * c0 * c0 + (b * (1 + 0) + (k \div Cube) * (1 + (rep - 1))) * Cube * c0 + (k % Cube) * c0 + e
SquareTurned(rep, S, c0, b, e, i, k) ==
  /\ ZzAt(rep * c0, c0, c0 * i + k, c0 * b + e) = SquareTo(rep, c0, b, e, i, k)
  /\ NzAt(S, c0, c0 * b + e, c0 * i + k) = SquareFrom(S, c0, b, e, i, k)
  /\ SquareFrom(S, c0, b, e, i, k) \in Int

\* A square of bytes lies in column blocks before, in rows of fractals after.
LEMMA TurnedSquare ==
    ASSUME Cube \in Positive, NEW c0 \in Positive, c0 = 2 * Cube, NEW rep \in Nat, NEW S \in Nat,
           NEW i \in Nat, NEW b \in Nat, NEW e \in 0 .. c0 - 1, NEW k \in 0 .. c0 - 1
    PROVE  SquareTurned(rep, S, c0, b, e, i, k)
<1>0. k \in Nat /\ Cube \in Nat /\ c0 \in Nat /\ e \in Nat
  BY DEF Positive
<1> DEFINE K == k \div Cube  x == k % Cube
<1>1. K \in Nat /\ x \in 0 .. Cube - 1 /\ k = Cube * K + x
  BY <1>0, DivMod
<1>2. (c0 * b + e) \div c0 = b /\ (c0 * b + e) % c0 = e /\ (c0 * i + k) \div c0 = i /\ (c0 * i + k) % c0 = k
  BY DivModUnique
<1>3. (c0 * i + k) \div Cube = 2 * i + K /\ (c0 * i + k) % Cube = x
  <2>. HIDE DEF K, x
  <2>1. 2 * i + K \in Nat
    BY <1>1
  <2>2. (Cube * (2 * i + K) + x) \div Cube = 2 * i + K /\ (Cube * (2 * i + K) + x) % Cube = x
    BY <1>1, <2>1, DivModUnique
  <2>3. Cube * (2 * i + K) + x = c0 * i + k
    BY <1>0, <1>1
  <2>. QED  BY <2>2, <2>3
<1>4. ZzAt(rep * c0, c0, c0 * i + k, c0 * b + e) = (2 * i + K) * Cube * (rep * c0) + b * Cube * c0 + x * c0 + e
  BY <1>2, <1>3 DEF ZzAt
<1>5. SquareTo(rep, c0, b, e, i, k) = i * rep * c0 * c0 + (b * (1 + 0) + K * (1 + (rep - 1))) * Cube * c0 + x * c0 + e
  BY DEF SquareTo
<1>6. (2 * i + K) * Cube * (rep * c0) + b * Cube * c0 = i * rep * c0 * c0 + (b * (1 + 0) + K * (1 + (rep - 1))) * Cube * c0
  <2>. HIDE DEF K, x
  <2>1. 1 + 0 = 1 /\ 1 + (rep - 1) = rep /\ b * 1 = b
    OBVIOUS
  <2>2. i * rep * c0 * c0 = 2 * (i * rep * c0 * Cube)
    BY <1>0
  <2>3. (2 * i + K) * Cube * (rep * c0) = 2 * (i * rep * c0 * Cube) + K * rep * Cube * c0
    BY <1>0, <1>1
  <2>4. (b + K * rep) * Cube * c0 = b * Cube * c0 + K * rep * Cube * c0
    BY <1>0, <1>1
  <2>5. {2 * (i * rep * c0 * Cube), K * rep * Cube * c0, b * Cube * c0} \subseteq Int
    BY <1>0, <1>1
  <2>. QED  BY <2>1, <2>2, <2>3, <2>4, <2>5
<1>7. ZzAt(rep * c0, c0, c0 * i + k, c0 * b + e) = SquareTo(rep, c0, b, e, i, k)
  <2>. HIDE DEF K, x
  <2>. QED  BY <1>4, <1>5, <1>6
<1>8. NzAt(S, c0, c0 * b + e, c0 * i + k) = i * S * c0 + (c0 * b + e) * c0 + k
  BY <1>2 DEF NzAt
<1>9. (c0 * b + e) * c0 = b * 1 * c0 * c0 + e * c0 /\ {i * S * c0, b * 1 * c0 * c0, e * c0} \subseteq Int
  BY <1>0
<1>10. i * S * c0 + (b * 1 * c0 * c0 + e * c0) + k = i * S * c0 + b * 1 * c0 * c0 + e * c0 + k
  BY <1>0, <1>9
<1>11. SquareFrom(S, c0, b, e, i, k) \in Int
  BY <1>0, <1>9 DEF SquareFrom
<1>12. NzAt(S, c0, c0 * b + e, c0 * i + k) = SquareFrom(S, c0, b, e, i, k)
  BY <1>8, <1>9, <1>10 DEF SquareFrom
<1>. QED  BY <1>7, <1>11, <1>12 DEF SquareTurned

\* A part starts at its first cell.
LEMMA LoadFromSum ==
    ASSUME NEW j, j.unit = "load", LoadLegal(j), NEW t \in Tiles(j), NEW r \in Nat, NEW c \in Nat
    PROVE  /\ LoadFrom(j, t, r, c) = (LoadRow(j, t) * LoadC0(j) + LoadCol(j, t) * SrcRows(j))
                                        + NzAt(SrcRows(j), LoadC0(j), r, c)
           /\ LoadRow(j, t) * LoadC0(j) \in Int /\ LoadCol(j, t) * SrcRows(j) \in Int
<1> DEFINE x == LoadRow(j, t)  y == LoadCol(j, t)  S == SrcRows(j)  c0 == LoadC0(j)
<1>1. x \in Nat /\ y \in Nat /\ y % c0 = 0 /\ S \in Int
  BY LoadSizes
<1>2. c0 \in Positive
  BY LoadUnits
<1>3. NzAt(S, c0, x, y) + NzAt(S, c0, r, c) = NzAt(S, c0, x + r, y + c) /\ NzAt(S, c0, x, y) = x * c0 + y * S
  <2>1. r \in Nat /\ c \in Nat
    OBVIOUS
  <2>. HIDE DEF x, y, S, c0
  <2>2. NzAt(S, c0, x, y) + NzAt(S, c0, r, c) = NzAt(S, c0, x + r, y + c)
    BY ONLY <1>1, <1>2, <2>1, NzSum
  <2>3. NzAt(S, c0, x, y) = x * c0 + y * S
    BY ONLY <1>1, <1>2, <2>1, NzSum
  <2>. QED  BY <2>2, <2>3
<1>4. x * c0 \in Int /\ y * S \in Int
  <2>. HIDE DEF x, y, S, c0
  <2>. QED  BY <1>1, <1>2 DEF Positive
<1>. QED  BY <1>3, <1>4 DEF LoadFrom

\* L0A of the 910B, of bytes that are turned: square by square.
LEMMA LoadTurnedBytes ==
    ASSUME NEW j, j.unit = "load", LoadLegal(j), NEW t \in Tiles(j), j.device = "910B", j.operand = "A", j.trans, j.size = 1
    PROVE  LoadsBox(TransposeLoadA2Int8(j, t), j, t, CeilAlign(DstRows(j, t), LoadC0(j)), DstCols(j, t))
<1> DEFINE c0 == LoadC0(j)  S == SrcRows(j)  rep == CeilDiv(DstRows(j, t), c0)  n == DstCols(j, t) \div c0
           src == LoadCol(j, t) * S + LoadRow(j, t) * c0
           moves == TransposeLoadA2Int8(j, t)
           Column(i) == LoadTransposed(i * rep * c0 * c0, src + i * S * c0, rep, 1, 0, rep - 1, c0)
           Square(i, b, e, k) == <<SquareTo(rep, c0, b, e, i, k), src + SquareFrom(S, c0, b, e, i, k)>>
<1>1. c0 \in Positive /\ Cube \in Positive /\ c0 = 2 * Cube /\ c0 \in Nat
  BY LoadUnits DEF Positive
<1>2. /\ DstRows(j, t) \in Nat /\ DstCols(j, t) \in Nat /\ DstCols(j, t) % c0 = 0
      /\ LoadRow(j, t) \in Nat /\ LoadCol(j, t) \in Nat /\ S \in Nat
  BY LoadSizes
<1>3. n \in Nat /\ n * c0 = DstCols(j, t) /\ rep \in Nat /\ rep * c0 = CeilAlign(DstRows(j, t), c0)
  <2>1. rep \in Nat /\ CeilAlign(DstRows(j, t), c0) = c0 * rep
    BY <1>1, <1>2, CeilFacts
  <2>2. DstCols(j, t) = c0 * n /\ n \in Nat
    BY <1>1, <1>2, CeilOfMultiple, DivMod
  <2>. HIDE DEF n, rep, c0
  <2>. QED  BY <1>1, <2>1, <2>2
<1>4. moves = UNION {Column(i) : i \in 0 .. n - 1}
  BY DEF TransposeLoadA2Int8
<1>5. \A r, c : LoadPlace(j, t, r, c) = ZzAt(rep * c0, c0, c, r)
  BY <1>3 DEF LoadPlace
<1>6. ASSUME NEW i \in 0 .. n - 1, NEW b \in 0 .. rep - 1, NEW e \in 0 .. c0 - 1, NEW k \in 0 .. c0 - 1
      PROVE  Square(i, b, e, k) = LoadMove(j, t, c0 * b + e, c0 * i + k)
  <2>0. i \in Nat /\ b \in Nat /\ e \in Nat /\ k \in Nat
    OBVIOUS
  <2>1. /\ ZzAt(rep * c0, c0, c0 * i + k, c0 * b + e) = SquareTo(rep, c0, b, e, i, k)
        /\ NzAt(S, c0, c0 * b + e, c0 * i + k) = SquareFrom(S, c0, b, e, i, k)
        /\ SquareFrom(S, c0, b, e, i, k) \in Int
    <3>1. SquareTurned(rep, S, c0, b, e, i, k)
      <4>1. /\ c0 \in Positive /\ Cube \in Positive /\ c0 = 2 * Cube /\ rep \in Nat /\ S \in Nat
            /\ i \in Nat /\ b \in Nat /\ e \in 0 .. c0 - 1 /\ k \in 0 .. c0 - 1
        BY <1>1, <1>2, <1>3, <2>0
      <4>. HIDE DEF c0, S, rep, n
      <4>. QED  BY ONLY <4>1, TurnedSquare
    <3>. QED  BY <3>1 DEF SquareTurned
  <2>2. c0 * b + e \in Nat /\ c0 * i + k \in Nat
    <3>. HIDE DEF c0
    <3>1. c0 * b \in Nat /\ c0 * i \in Nat
      BY <1>1, <2>0, MulMonotone
    <3>. QED  BY <2>0, <3>1
  <2>3. /\ LoadFrom(j, t, c0 * b + e, c0 * i + k)
             = (LoadRow(j, t) * c0 + LoadCol(j, t) * S) + NzAt(S, c0, c0 * b + e, c0 * i + k)
        /\ LoadRow(j, t) * c0 \in Int /\ LoadCol(j, t) * S \in Int
    BY <2>2, LoadFromSum
  <2>4. LoadFrom(j, t, c0 * b + e, c0 * i + k) = src + SquareFrom(S, c0, b, e, i, k)
    BY <2>1, <2>3
  <2>5. LoadPlace(j, t, c0 * b + e, c0 * i + k) = SquareTo(rep, c0, b, e, i, k)
    BY <1>5, <2>1
  <2>6. LoadMove(j, t, c0 * b + e, c0 * i + k)
          = <<LoadPlace(j, t, c0 * b + e, c0 * i + k), LoadFrom(j, t, c0 * b + e, c0 * i + k)>>
    BY DEF LoadMove, LoadFrom
  <2>. QED  BY <2>4, <2>5, <2>6
<1>7. ASSUME NEW i \in 0 .. n - 1
      PROVE  Column(i) = {Square(i, b, e, k) : b \in 0 .. rep - 1, e \in 0 .. c0 - 1, k \in 0 .. c0 - 1}
  <2>1. ASSUME NEW b \in 0 .. rep - 1, NEW e \in 0 .. c0 - 1, NEW k \in 0 .. c0 - 1
        PROVE  Square(i, b, e, k)
                 = <<i * rep * c0 * c0 + (b * (1 + 0) + (k \div Cube) * (1 + (rep - 1))) * Cube * c0 + (k % Cube) * c0 + e,
                     src + i * S * c0 + b * 1 * c0 * c0 + e * c0 + k>>
    <3>1. src \in Int /\ i * S * c0 \in Int /\ b * 1 * c0 * c0 \in Int /\ e * c0 \in Int
      <4>1. src \in Int
        BY <1>1, <1>2
      <4>. HIDE DEF src, S, c0, rep, n
      <4>. QED  BY <1>1, <1>2, <1>3, <4>1
    <3>2. src + (i * S * c0 + b * 1 * c0 * c0 + e * c0 + k) = src + i * S * c0 + b * 1 * c0 * c0 + e * c0 + k
      <4> DEFINE p == i * S * c0  q == b * 1 * c0 * c0  z == e * c0
      <4>. HIDE DEF src, p, q, z, c0
      <4>. QED  BY <1>1, <3>1 DEF p, q, z
    <3>. QED  BY <3>2 DEF SquareFrom, SquareTo
  <2>. QED  BY <2>1 DEF LoadTransposed
<1>8. Cut(c0, n, DstCols(j, t)) /\ Cut(c0, rep, CeilAlign(DstRows(j, t), c0))
  <2>. HIDE DEF n, rep, c0
  <2>. QED  BY <1>1, <1>3, CutIndex
<1>. HIDE DEF moves, n, rep, src, S, c0, Square, Column
<1>9. ASSUME NEW x \in moves
       PROVE  \E r \in 0 .. CeilAlign(DstRows(j, t), c0) - 1, c \in 0 .. DstCols(j, t) - 1 : x = LoadMove(j, t, r, c)
  <2>1. PICK i \in 0 .. n - 1 : x \in Column(i)
    BY <1>4
  <2>2. PICK b \in 0 .. rep - 1, e \in 0 .. c0 - 1, k \in 0 .. c0 - 1 : x = Square(i, b, e, k)
    BY <1>7, <2>1
  <2>3. x = LoadMove(j, t, c0 * b + e, c0 * i + k)
    BY <1>6, <2>2
  <2>4. c0 * b + e \in 0 .. CeilAlign(DstRows(j, t), c0) - 1 /\ c0 * i + k \in 0 .. DstCols(j, t) - 1
    BY <1>8 DEF Cut
  <2>. QED  BY <2>3, <2>4
<1>10. ASSUME NEW r \in 0 .. CeilAlign(DstRows(j, t), c0) - 1, NEW c \in 0 .. DstCols(j, t) - 1
       PROVE  LoadMove(j, t, r, c) \in moves
  <2>1. PICK b \in 0 .. rep - 1, e \in 0 .. c0 - 1 : r = c0 * b + e
    BY <1>8 DEF Cut
  <2>2. PICK i \in 0 .. n - 1, k \in 0 .. c0 - 1 : c = c0 * i + k
    BY <1>8 DEF Cut
  <2>3. LoadMove(j, t, r, c) = Square(i, b, e, k)
    BY <1>6, <2>1, <2>2
  <2>4. Square(i, b, e, k) \in Column(i)
    BY <1>7
  <2>. QED  BY <1>4, <2>3, <2>4
<1>. QED  BY <1>9, <1>10 DEF LoadsBox, moves, c0

(* A run of n elements.                                                                              *)
Run(dst, src, n) == {<<dst + x, src + x>> : x \in 0 .. n - 1}

\* Fractals or bursts without gaps are a run of elements.
LEMMA BlocksFlat ==
    ASSUME NEW dst \in Int, NEW src \in Int, NEW n \in Nat, NEW b \in Positive, NEW size, size = n * b
    PROVE  {<<dst + q * b + e, src + q * b + e>> : q \in 0 .. n - 1, e \in 0 .. b - 1} = Run(dst, src, size)
<1> DEFINE blocks == {<<dst + q * b + e, src + q * b + e>> : q \in 0 .. n - 1, e \in 0 .. b - 1}
           run == Run(dst, src, size)
<1>0. b \in Nat
  BY DEF Positive
<1>1. Cut(b, n, size)
  BY CutIndex
<1>2. ASSUME NEW q \in 0 .. n - 1, NEW e \in 0 .. b - 1
      PROVE  <<dst + (b * q + e), src + (b * q + e)>> = <<dst + q * b + e, src + q * b + e>>
  <2>1. q * b \in Int /\ b * q = q * b
    BY <1>0
  <2>. QED  BY <1>0, <2>1
<1>3. ASSUME NEW x \in blocks PROVE x \in run
  <2>1. PICK q \in 0 .. n - 1, e \in 0 .. b - 1 : x = <<dst + q * b + e, src + q * b + e>>
    OBVIOUS
  <2>2. x = <<dst + (b * q + e), src + (b * q + e)>>
    BY <1>2, <2>1
  <2>3. b * q + e \in 0 .. size - 1
    BY <1>1 DEF Cut
  <2>. QED  BY <2>2, <2>3 DEF Run
<1>4. ASSUME NEW x \in run PROVE x \in blocks
  <2>1. PICK y \in 0 .. size - 1 : x = <<dst + y, src + y>>
    BY DEF Run
  <2>2. PICK q \in 0 .. n - 1, e \in 0 .. b - 1 : y = b * q + e
    BY <1>1 DEF Cut
  <2>3. x = <<dst + q * b + e, src + q * b + e>>
    BY <1>2, <2>1, <2>2
  <2>. QED  BY <2>3
<1>. HIDE DEF blocks, run
<1>5. blocks = run
  BY <1>3, <1>4
<1>. QED  BY <1>5 DEF blocks, run

LEMMA Load2DFlat ==
    ASSUME NEW dst \in Int, NEW src \in Int, NEW n \in Nat, NEW b \in Positive, NEW size, size = n * b
    PROVE  Load2D(dst, src, n, 1, 0, b) = Run(dst, src, size)
<1>1. ASSUME NEW q \in 0 .. n - 1
      PROVE  q * (0 + 1) * b = q * b /\ q * 1 * b = q * b
  BY DEF Positive
<1>2. Load2D(dst, src, n, 1, 0, b) = {<<dst + q * b + e, src + q * b + e>> : q \in 0 .. n - 1, e \in 0 .. b - 1}
  BY <1>1 DEF Load2D
<1> DEFINE blocks == {<<dst + q * b + e, src + q * b + e>> : q \in 0 .. n - 1, e \in 0 .. b - 1}
<1>3. blocks = Run(dst, src, size)
  BY BlocksFlat
<1>4. Load2D(dst, src, n, 1, 0, b) = blocks
  BY <1>2
<1>. HIDE DEF blocks
<1>. QED  BY <1>3, <1>4

LEMMA BurstsFlat ==
    ASSUME NEW dst \in Int, NEW src \in Int, NEW n \in Nat, NEW len \in Positive, NEW c0 \in Positive,
           NEW size, size = n * (len * c0)
    PROVE  Bursts(dst, src, n, len, 0, 0, c0) = Run(dst, src, size)
<1>1. ASSUME NEW q \in 0 .. n - 1
      PROVE  q * (len + 0) * c0 = q * (len * c0)
  BY DEF Positive
<1>2. Bursts(dst, src, n, len, 0, 0, c0)
        = {<<dst + q * (len * c0) + e, src + q * (len * c0) + e>> : q \in 0 .. n - 1, e \in 0 .. len * c0 - 1}
  BY <1>1 DEF Bursts
<1>3. len * c0 \in Positive
  <2>1. len \in Nat /\ c0 \in Nat /\ 0 < len /\ 0 < c0 /\ 0 \in Nat
    BY DEF Positive
  <2>2. 0 * c0 + c0 <= len * c0 /\ len * c0 \in Nat /\ 0 * c0 = 0
    BY ONLY <2>1, MulMonotone
  <2>. QED  BY <2>1, <2>2 DEF Positive
<1> DEFINE blocks == {<<dst + q * (len * c0) + e, src + q * (len * c0) + e>> : q \in 0 .. n - 1, e \in 0 .. len * c0 - 1}
<1>4. blocks = Run(dst, src, size)
  <2> DEFINE b == len * c0
  <2>1. b \in Positive /\ size = n * b
    BY <1>3
  <2>. HIDE DEF b
  <2>2. {<<dst + q * b + e, src + q * b + e>> : q \in 0 .. n - 1, e \in 0 .. b - 1} = Run(dst, src, size)
    BY <2>1, BlocksFlat
  <2>. QED  BY <2>2 DEF b
<1>5. Bursts(dst, src, n, len, 0, 0, c0) = blocks
  BY <1>2
<1>. HIDE DEF blocks
<1>. QED  BY <1>4, <1>5

\* Bursts move a box of column blocks.
LEMMA BurstsBox ==
    ASSUME NEW src \in Int, NEW count \in Nat, NEW len \in Nat, NEW srcGap \in Int, NEW c0 \in Positive,
           NEW from, from = len + srcGap, NEW moves, moves = Bursts(0, src, count, len, srcGap, 0, c0)
    PROVE  /\ \A x \in moves : \E r \in 0 .. len - 1, c \in 0 .. count * c0 - 1 :
                x = <<NzAt(len, c0, r, c), src + NzAt(from, c0, r, c)>>
           /\ \A r \in 0 .. len - 1, c \in 0 .. count * c0 - 1 :
                <<NzAt(len, c0, r, c), src + NzAt(from, c0, r, c)>> \in moves
<1>1. len + 0 = len /\ 0 \in Nat
  OBVIOUS
<1>2. /\ NzTile(moves, len, c0, len, count * c0)
      /\ \A r \in 0 .. len - 1, c \in 0 .. count * c0 - 1 :
           <<NzAt(len, c0, r, c), src + NzAt(from, c0, r, c)>> \in moves
  BY <1>1, BurstsTile
<1>. HIDE DEF Bursts
<1>3. ASSUME NEW x \in moves
      PROVE  \E r \in 0 .. len - 1, c \in 0 .. count * c0 - 1 : x = <<NzAt(len, c0, r, c), src + NzAt(from, c0, r, c)>>
  <2>1. PICK r \in 0 .. len - 1, c \in 0 .. count * c0 - 1 : x[1] = NzAt(len, c0, r, c)
    BY <1>2 DEF NzTile
  <2>2. <<NzAt(len, c0, r, c), src + NzAt(from, c0, r, c)>> \in moves
    BY <1>2
  <2>3. x = <<NzAt(len, c0, r, c), src + NzAt(from, c0, r, c)>>
    BY <1>2, <2>1, <2>2 DEF NzTile, Clean
  <2>. QED  BY <2>3
<1>. QED  BY <1>2, <1>3

(* What the loads of a transposed B amount to: column blocks, each without a gap.                    *)
BlocksOfB(j, t) ==
  Bursts(0, LoadRow(j, t) * LoadC0(j) + LoadCol(j, t) * SrcRows(j), DstCols(j, t) \div LoadC0(j), DstRows(j, t),
         SrcRows(j) - DstRows(j, t), 0, LoadC0(j))
RunOfB(j, l) == Run(l.dst, l.src, l.repeat * Fractal(j.size))

\* Sizes of a transposed part, in fractals.
LEMMA FractalsOfB ==
    ASSUME NEW j, j.unit = "load", LoadLegal(j), NEW t \in Tiles(j)
    PROVE  \E k \in Nat, f \in Nat :
             /\ k = DstCols(j, t) \div LoadC0(j) /\ DstCols(j, t) = k * LoadC0(j)
             /\ f = DstRows(j, t) \div Cube /\ DstRows(j, t) = f * Cube /\ DstRows(j, t) \in Positive
             /\ SrcRows(j) \in Nat /\ LoadC0(j) \in Positive /\ Cube \in Positive
             /\ Fractal(j.size) = Cube * LoadC0(j) /\ Fractal(j.size) \in Positive
             /\ f * Fractal(j.size) = DstRows(j, t) * LoadC0(j)
             /\ LoadRow(j, t) * LoadC0(j) + LoadCol(j, t) * SrcRows(j) \in Int
<1> DEFINE c0 == LoadC0(j)  rows == DstRows(j, t)  cols == DstCols(j, t)  S == SrcRows(j)
           k == cols \div c0  f == rows \div Cube  frac == Fractal(j.size)
<1>1. c0 \in Positive /\ Cube \in Positive /\ c0 \in Nat /\ Cube \in Nat
  BY LoadUnits DEF Positive
<1>2. /\ rows \in Nat /\ rows % Cube = 0 /\ cols \in Nat /\ cols % c0 = 0 /\ S \in Nat /\ t.height <= rows
      /\ LoadRow(j, t) \in Nat /\ LoadCol(j, t) \in Nat
  BY LoadSizes
<1>3. t.height \in Nat /\ 1 <= t.height
  <2>1. Grid(j) /\ j.unit \in {"in", "out", "load", "attention"}
    BY DEF LoadLegal
  <2>2. t.height \in 1 .. j.baseM
    BY <2>1, TileFacts
  <2>. QED  BY <2>1, <2>2 DEF Grid
<1>4. rows \in Positive
  <2>. HIDE DEF rows
  <2>. QED  BY <1>2, <1>3 DEF Positive
<1>5. cols = c0 * k /\ k \in Nat /\ rows = Cube * f /\ f \in Nat
  BY <1>1, <1>2, CeilOfMultiple, DivMod
<1>6. frac = Cube * c0
  BY DEF Fractal, LoadC0
<1>7. frac \in Positive
  <2>. HIDE DEF frac, c0
  <2>1. Cube \in Nat /\ c0 \in Nat /\ 0 < Cube /\ 0 < c0 /\ 0 \in Nat
    BY <1>1 DEF Positive
  <2>2. 0 * c0 + c0 <= Cube * c0 /\ Cube * c0 \in Nat /\ 0 * c0 = 0
    BY ONLY <2>1, MulMonotone
  <2>. QED  BY <1>6, <2>1, <2>2 DEF Positive
<1>8. LoadRow(j, t) * c0 + LoadCol(j, t) * S \in Int
  BY <1>1, <1>2
<1>9. k * c0 = c0 * k /\ f * Cube = Cube * f /\ f * frac = rows * c0
  <2>. HIDE DEF frac, c0, k, f, rows, cols
  <2>1. f * (Cube * c0) = (Cube * f) * c0
    BY <1>1, <1>5
  <2>. QED  BY <1>1, <1>5, <1>6, <2>1
<1>. QED  BY <1>1, <1>2, <1>4, <1>5, <1>6, <1>7, <1>8, <1>9

\* Each load is a run of fractals.
LEMMA LoadOfBRuns ==
    ASSUME NEW j, j.unit = "load", LoadLegal(j), NEW t \in Tiles(j), j.device = "910B", j.operand = "B", j.trans,
           NEW l \in LoadsOfB(j, t)
    PROVE  /\ l.dst \in Int /\ l.src \in Int
           /\ Load2D(l.dst, l.src, l.repeat, l.stride, l.gap, Fractal(j.size)) = RunOfB(j, l)
<1> DEFINE start == LoadRow(j, t) * LoadC0(j) + LoadCol(j, t) * SrcRows(j)  c0 == LoadC0(j)  frac == Fractal(j.size)
<1>1. PICK k \in Nat, f \in Nat :
             /\ k = DstCols(j, t) \div LoadC0(j) /\ DstCols(j, t) = k * LoadC0(j)
             /\ f = DstRows(j, t) \div Cube /\ DstRows(j, t) = f * Cube /\ DstRows(j, t) \in Positive
             /\ SrcRows(j) \in Nat /\ LoadC0(j) \in Positive /\ Cube \in Positive
             /\ Fractal(j.size) = Cube * LoadC0(j) /\ Fractal(j.size) \in Positive
             /\ f * Fractal(j.size) = DstRows(j, t) * LoadC0(j)
             /\ LoadRow(j, t) * LoadC0(j) + LoadCol(j, t) * SrcRows(j) \in Int
  BY FractalsOfB
<1>2. DstRows(j, t) = SrcRows(j) \/ f >= k
  BY <1>1 DEF LoadLegal
<1>3. l.dst \in Int /\ l.src \in Int /\ l.repeat \in Nat /\ l.stride = 1 /\ l.gap = 0
  <2>1. CASE DstRows(j, t) = SrcRows(j)
    <3>1. l = [dst |-> 0, src |-> start, repeat |-> k * f, stride |-> 1, gap |-> 0]
      BY <1>1, <2>1 DEF LoadsOfB
    <3>2. k * f \in Nat
      BY <1>1, MulMonotone
    <3>3. l.dst = 0 /\ l.src = start /\ l.repeat = k * f /\ l.stride = 1 /\ l.gap = 0
      BY <3>1
    <3>4. start \in Int /\ 0 \in Int
      BY <1>1
    <3>. HIDE DEF start
    <3>. QED  BY ONLY <3>2, <3>3, <3>4
  <2>2. CASE DstRows(j, t) # SrcRows(j)
    <3>0. f >= k
      BY <1>2, <2>2
    <3>1. PICK i \in 0 .. k - 1 : l = [dst |-> i * f * frac, src |-> start + i * SrcRows(j) * c0,
                                       repeat |-> f, stride |-> 1, gap |-> 0]
      BY <1>1, <2>2, <3>0 DEF LoadsOfB
    <3>3. l.dst = i * f * frac /\ l.src = start + i * SrcRows(j) * c0 /\ l.repeat = f /\ l.stride = 1 /\ l.gap = 0
      BY <3>1
    <3>4. i * f * frac \in Int /\ i * SrcRows(j) * c0 \in Int
      <4>. HIDE DEF frac, c0
      <4>. QED  BY <1>1 DEF frac, c0, Positive
    <3>5. start \in Int /\ f \in Nat
      BY <1>1
    <3> DEFINE p == i * f * frac  q == i * SrcRows(j) * c0
    <3>. HIDE DEF start, p, q
    <3>6. start + q \in Int
      BY <3>4, <3>5 DEF q
    <3>. QED  BY ONLY <3>3, <3>4, <3>5, <3>6 DEF p, q
  <2>. QED  BY <2>1, <2>2
<1>4. Load2D(l.dst, l.src, l.repeat, 1, 0, frac) = Run(l.dst, l.src, l.repeat * frac)
  <2> DEFINE size == l.repeat * frac
  <2>1. frac \in Positive
    BY <1>1
  <2>2. size = l.repeat * frac
    OBVIOUS
  <2>. HIDE DEF frac, size
  <2>3. Load2D(l.dst, l.src, l.repeat, 1, 0, frac) = Run(l.dst, l.src, size)
    BY <1>3, <2>1, <2>2, Load2DFlat
  <2>. QED  BY <2>3 DEF size
<1>. QED  BY <1>3, <1>4 DEF RunOfB

\* Together they move the column blocks of the part.
LEMMA RunsOfB ==
    ASSUME NEW j, j.unit = "load", LoadLegal(j), NEW t \in Tiles(j), j.device = "910B", j.operand = "B", j.trans
    PROVE  UNION {RunOfB(j, l) : l \in LoadsOfB(j, t)} = BlocksOfB(j, t)
<1> DEFINE start == LoadRow(j, t) * LoadC0(j) + LoadCol(j, t) * SrcRows(j)  c0 == LoadC0(j)  frac == Fractal(j.size)
           rows == DstRows(j, t)  S == SrcRows(j)
<1>1. PICK k \in Nat, f \in Nat :
             /\ k = DstCols(j, t) \div LoadC0(j) /\ DstCols(j, t) = k * LoadC0(j)
             /\ f = DstRows(j, t) \div Cube /\ DstRows(j, t) = f * Cube /\ DstRows(j, t) \in Positive
             /\ SrcRows(j) \in Nat /\ LoadC0(j) \in Positive /\ Cube \in Positive
             /\ Fractal(j.size) = Cube * LoadC0(j) /\ Fractal(j.size) \in Positive
             /\ f * Fractal(j.size) = DstRows(j, t) * LoadC0(j)
             /\ LoadRow(j, t) * LoadC0(j) + LoadCol(j, t) * SrcRows(j) \in Int
  BY FractalsOfB
<1>2. rows = S \/ f >= k
  BY <1>1 DEF LoadLegal
<1>3. BlocksOfB(j, t) = Bursts(0, start, k, rows, S - rows, 0, c0)
  BY <1>1 DEF BlocksOfB
<1>4. /\ frac \in Positive /\ c0 \in Positive /\ rows \in Positive /\ rows \in Nat /\ S \in Nat /\ start \in Int
      /\ f * frac = rows * c0
  BY <1>1 DEF Positive
<1>5. CASE rows = S
  <2>1. LoadsOfB(j, t) = {[dst |-> 0, src |-> start, repeat |-> k * f, stride |-> 1, gap |-> 0]}
    BY <1>1, <1>5 DEF LoadsOfB
  <2>2. UNION {RunOfB(j, l) : l \in LoadsOfB(j, t)} = Run(0, start, (k * f) * frac)
    BY <2>1 DEF RunOfB
  <2>. HIDE DEF start, c0, frac, rows, S
  <2>3. (k * f) * frac = k * (rows * c0)
    <3>1. (k * f) * frac = k * (f * frac)
      BY <1>4 DEF Positive
    <3>. QED  BY <1>4, <3>1
  <2>4. S - rows = 0 /\ 0 \in Int
    BY <1>4, <1>5
  <2> DEFINE size == k * (rows * c0)
  <2>5. Bursts(0, start, k, rows, 0, 0, c0) = Run(0, start, size)
    <3>1. size = k * (rows * c0)
      OBVIOUS
    <3>. HIDE DEF size
    <3>. QED  BY <1>4, <2>4, <3>1, BurstsFlat
  <2>. QED  BY <1>3, <2>2, <2>3, <2>4, <2>5
<1>6. CASE rows # S
  <2>0. f >= k
    BY <1>2, <1>6
  <2> DEFINE L(i) == [dst |-> i * f * frac, src |-> start + i * S * c0, repeat |-> f, stride |-> 1, gap |-> 0]
             One(i) == Bursts(i * rows * c0, start + i * S * c0, 1, rows, 0, 0, c0)
  <2>1. LoadsOfB(j, t) = {L(i) : i \in 0 .. k - 1}
    BY <1>1, <1>6, <2>0 DEF LoadsOfB
  <2>2. ASSUME NEW i \in 0 .. k - 1 PROVE RunOfB(j, L(i)) = One(i)
    <3>1. RunOfB(j, L(i)) = Run(i * f * frac, start + i * S * c0, f * frac)
      BY DEF RunOfB
    <3>. HIDE DEF start, c0, frac, rows, S
    <3>2. i * f * frac = i * rows * c0 /\ i * rows * c0 \in Int /\ start + i * S * c0 \in Int
      <4>1. i * f * frac = i * (f * frac) /\ i * rows * c0 = i * (rows * c0)
        BY <1>4 DEF Positive
      <4>. QED  BY <1>4, <4>1 DEF Positive
    <3> DEFINE size == f * frac  d == i * rows * c0  s == start + i * S * c0
    <3>3. size = 1 * (rows * c0) /\ 1 \in Nat
      <4>1. rows * c0 \in Int
        BY <1>4 DEF Positive
      <4>. QED  BY <1>4, <4>1
    <3>4. d \in Int /\ s \in Int
      BY <3>2
    <3>5. Bursts(d, s, 1, rows, 0, 0, c0) = Run(d, s, size)
      <4>. HIDE DEF d, s, size
      <4>. QED  BY <1>4, <3>3, <3>4, BurstsFlat
    <3>. QED  BY <3>1, <3>2, <3>5
  <2>3. UNION {One(i) : i \in 0 .. k - 1} = Bursts(0, start, k, rows, S - rows, rows - rows, c0)
    <3>. HIDE DEF start, c0, frac, rows, S
    <3>1. S \in Int /\ rows \in Int
      BY <1>4
    <3>. QED  BY <1>4, <3>1, BurstsOneByOne
  <2>4. rows - rows = 0
    BY <1>4
  <2>. HIDE DEF L, One
  <2>5. {RunOfB(j, l) : l \in LoadsOfB(j, t)} = {One(i) : i \in 0 .. k - 1}
    BY <2>1, <2>2
  <2>. QED  BY <1>3, <2>3, <2>4, <2>5
<1>. QED  BY <1>5, <1>6

\* Read from the index its address asks for, a sparse load is a plain one.
LEMMA SparseWhole ==
    ASSUME NEW dst, NEW src \in Int, src % 4 = 0, NEW repeat, NEW stride, NEW gap, NEW fractal
    PROVE  LoadSparse(dst, src, src \div 4, repeat, stride, gap, fractal) = Load2D(dst, src, repeat, stride, gap, fractal)
<1> DEFINE moves == Load2D(dst, src, repeat, stride, gap, fractal)
<1>1. 4 * (src \div 4) = src
  OBVIOUS
<1>2. LoadSparse(dst, src, src \div 4, repeat, stride, gap, fractal) = {<<mv[1], mv[2]>> : mv \in moves}
  BY <1>1 DEF LoadSparse
<1>3. \A mv \in moves : mv = <<mv[1], mv[2]>>
  BY DEF Load2D
<1>. HIDE DEF moves
<1>4. moves = {<<mv[1], mv[2]>> : mv \in moves}
  BY <1>3
<1>. QED  BY <1>2, <1>4 DEF moves

\* L0B of the 910B, when the matrix is stored turned: it needs no turning.
LEMMA LoadTransposedB ==
    ASSUME NEW j, j.unit = "load", LoadLegal(j), NEW t \in Tiles(j), j.device = "910B", j.operand = "B", j.trans
    PROVE  Load(j, t) = BlocksOfB(j, t)
<1> DEFINE plain(l) == Load2D(l.dst, l.src, l.repeat, l.stride, l.gap, Fractal(j.size))
           sparse(l) == LoadSparse(l.dst, l.src, l.src \div 4, l.repeat, l.stride, l.gap, Fractal(j.size))
<1>1. j.trans \in BOOLEAN /\ j.sparse \in BOOLEAN
  BY DEF LoadLegal
<1>2. \A l \in LoadsOfB(j, t) : plain(l) = RunOfB(j, l) /\ l.src \in Int
  BY LoadOfBRuns
<1>3. ASSUME j.sparse, NEW l \in LoadsOfB(j, t) PROVE sparse(l) = plain(l)
  <2>0. <<j.device, j.operand, j.trans>> = <<"910B", "B", TRUE>>
    BY <1>1
  <2>1. l.src % 4 = 0
    BY <1>3, <2>0 DEF LoadLegal
  <2>2. l.src \in Int
    BY <1>2
  <2>. QED  BY <2>1, <2>2, SparseWhole
<1>4. j.sparse => Load(j, t) = UNION {sparse(l) : l \in LoadsOfB(j, t)}
  BY <1>1 DEF Load, TransposeLoadB2Sparse
<1>5. ~j.sparse => Load(j, t) = UNION {plain(l) : l \in LoadsOfB(j, t)}
  BY <1>1 DEF Load, TransposeLoadB2_910B
<1>. HIDE DEF plain, sparse
<1>6. Load(j, t) = UNION {RunOfB(j, l) : l \in LoadsOfB(j, t)}
  BY <1>2, <1>3, <1>4, <1>5
<1>. QED  BY <1>6, RunsOfB

LEMMA LoadTransposedB2Box ==
    ASSUME NEW j, j.unit = "load", LoadLegal(j), NEW t \in Tiles(j), j.device = "910B", j.operand = "B", j.trans
    PROVE  LoadsBox(Load(j, t), j, t, DstRows(j, t), DstCols(j, t))
<1> DEFINE start == LoadRow(j, t) * LoadC0(j) + LoadCol(j, t) * SrcRows(j)  c0 == LoadC0(j)
           rows == DstRows(j, t)  S == SrcRows(j)  moves == Load(j, t)
<1>1. PICK k \in Nat, f \in Nat :
             /\ k = DstCols(j, t) \div LoadC0(j) /\ DstCols(j, t) = k * LoadC0(j)
             /\ f = DstRows(j, t) \div Cube /\ DstRows(j, t) = f * Cube /\ DstRows(j, t) \in Positive
             /\ SrcRows(j) \in Nat /\ LoadC0(j) \in Positive /\ Cube \in Positive
             /\ Fractal(j.size) = Cube * LoadC0(j) /\ Fractal(j.size) \in Positive
             /\ f * Fractal(j.size) = DstRows(j, t) * LoadC0(j)
             /\ LoadRow(j, t) * LoadC0(j) + LoadCol(j, t) * SrcRows(j) \in Int
  BY FractalsOfB
<1>2. moves = Bursts(0, start, k, rows, S - rows, 0, c0)
  BY <1>1, LoadTransposedB DEF BlocksOfB
<1>3. start \in Int /\ rows \in Nat /\ S - rows \in Int /\ c0 \in Positive /\ S = rows + (S - rows)
      /\ k * c0 = DstCols(j, t) /\ DstCols(j, t) \in Nat
  <2>1. DstCols(j, t) \in Nat
    BY LoadSizes
  <2>. QED  BY <1>1, <2>1 DEF Positive
<1>4. /\ \A x \in moves : \E r \in 0 .. rows - 1, c \in 0 .. k * c0 - 1 :
           x = <<NzAt(rows, c0, r, c), start + NzAt(S, c0, r, c)>>
      /\ \A r \in 0 .. rows - 1, c \in 0 .. k * c0 - 1 :
           <<NzAt(rows, c0, r, c), start + NzAt(S, c0, r, c)>> \in moves
  <2>. HIDE DEF start, rows, S, moves, c0
  <2>. QED  BY <1>2, <1>3, BurstsBox
<1>5. ASSUME NEW r \in 0 .. rows - 1, NEW c \in 0 .. k * c0 - 1
      PROVE  <<NzAt(rows, c0, r, c), start + NzAt(S, c0, r, c)>> = LoadMove(j, t, r, c)
  <2>1. LoadPlace(j, t, r, c) = NzAt(rows, c0, r, c)
    <3>1. LoadPlace(j, t, r, c) = ZnAt(rows, c0, c, r)
      BY DEF LoadPlace
    <3>. QED  BY <3>1, ZnIsNz
  <2>2. r \in Nat /\ c \in Nat
    <3>1. k * c0 \in Nat /\ rows \in Nat
      BY <1>3
    <3>. HIDE DEF rows, c0
    <3>. QED  BY <3>1
  <2>3. LoadFrom(j, t, r, c) = start + NzAt(S, c0, r, c)
    BY <2>2, LoadFromSum
  <2>4. LoadMove(j, t, r, c) = <<LoadPlace(j, t, r, c), LoadFrom(j, t, r, c)>>
    BY DEF LoadMove, LoadFrom
  <2>. QED  BY <2>1, <2>3, <2>4
<1>. HIDE DEF start, S, moves
<1>6. /\ \A x \in moves : \E r \in 0 .. rows - 1, c \in 0 .. k * c0 - 1 : x = LoadMove(j, t, r, c)
      /\ \A r \in 0 .. rows - 1, c \in 0 .. k * c0 - 1 : LoadMove(j, t, r, c) \in moves
  BY <1>4, <1>5
<1>. QED  BY <1>3, <1>6 DEF LoadsBox, moves

\* Whatever the specialisation, a load moves a box that has the part in it, and has places for all of it.
LEMMA LoadBox ==
    ASSUME NEW j, j.unit = "load", LoadLegal(j), NEW t \in Tiles(j)
    PROVE  \E R \in Nat, C \in Nat : /\ LoadsBox(Load(j, t), j, t, R, C) /\ PlaceBox(j, t, R, C)
                                     /\ t.height <= R /\ t.width <= C
<1> DEFINE rows == DstRows(j, t)  cols == DstCols(j, t)  rowsC0 == CeilAlign(rows, LoadC0(j))
           colsCube == CeilAlign(cols, Cube)
           Held(R, C) == LoadsBox(Load(j, t), j, t, R, C) /\ rows <= R /\ cols <= C
                         /\ (Turned(j) => R <= rowsC0 /\ C <= IF j.device = "910_95" THEN colsCube ELSE cols)
                         /\ (~Turned(j) => R <= rows /\ C <= cols)
<1>1. rows \in Nat /\ t.height \in Nat /\ t.height <= rows /\ cols \in Nat /\ t.width \in Nat /\ t.width <= cols
  BY LoadSizes
<1>2. LoadC0(j) \in Positive /\ Cube \in Positive
  BY LoadUnits
<1>3. rowsC0 \in Nat /\ rows <= rowsC0 /\ colsCube \in Nat /\ cols <= colsCube
  BY <1>1, <1>2, CeilFacts
<1>4. ASSUME NEW R \in Nat, NEW C \in Nat, Held(R, C)
      PROVE  \E R1 \in Nat, C1 \in Nat : /\ LoadsBox(Load(j, t), j, t, R1, C1) /\ PlaceBox(j, t, R1, C1)
                                         /\ t.height <= R1 /\ t.width <= C1
  <2>1. PlaceBox(j, t, R, C)
    BY <1>4, LoadPlaces
  <2>2. t.height <= R /\ t.width <= C
    BY <1>1, <1>4
  <2>. QED  BY <1>4, <2>1, <2>2
<1>5. j.device \in {"910B", "910_95"} /\ j.operand \in {"A", "B"} /\ j.trans \in BOOLEAN
  BY DEF LoadLegal
<1>6. rows <= rows /\ cols <= cols
  BY <1>1
<1>7. CASE LoadsBox(Load(j, t), j, t, rows, cols)
  <2>1. Held(rows, cols)
    BY <1>3, <1>6, <1>7
  <2>. HIDE DEF Held, rows, cols
  <2>. QED  BY <1>1, <1>4, <2>1
<1>8. CASE j.device = "910B" /\ j.operand = "A" /\ j.trans /\ j.size = 1
  <2>1. LoadsBox(Load(j, t), j, t, rowsC0, cols)
    <3>1. Load(j, t) = TransposeLoadA2Int8(j, t)
      BY <1>5, <1>8 DEF Load
    <3>. QED  BY <1>8, <3>1, LoadTurnedBytes
  <2>2. Turned(j)
    BY <1>5, <1>8 DEF Turned
  <2>3. rowsC0 <= rowsC0
    BY <1>3
  <2>4. Held(rowsC0, cols)
    BY <1>3, <1>6, <1>8, <2>1, <2>2, <2>3
  <2>. HIDE DEF Held, rows, cols, rowsC0
  <2>. QED  BY <1>1, <1>3, <1>4, <2>4
<1>9. CASE j.device = "910_95" /\ Turned(j)
  <2>1. PICK C \in Nat : LoadsBox(Load(j, t), j, t, rows, C) /\ cols <= C /\ C <= colsCube
    BY <1>9, Load95Box
  <2>2. Held(rows, C)
    BY <1>3, <1>6, <1>9, <2>1
  <2>. HIDE DEF Held, rows, cols
  <2>. QED  BY <1>1, <1>4, <2>2
<1>10. CASE j.device = "910_95" /\ ~Turned(j)
  BY <1>7, <1>10, Load95Box
<1>11. CASE j.device = "910B" /\ j.operand = "A" /\ (~j.trans \/ j.size # 1)
  BY <1>5, <1>7, <1>11, LoadA2Box
<1>12. CASE j.device = "910B" /\ j.operand = "B"
  BY <1>5, <1>7, <1>12, LoadB2Box, LoadTransposedB2Box
<1>. QED  BY <1>5, <1>8, <1>9, <1>10, <1>11, <1>12

\* The load of a part is right for every matrix, part and orientation.
LEMMA LoadSound == ASSUME NEW j, j.unit = "load", LoadLegal(j) PROVE Sound(j)
<1>. SUFFICES ASSUME NEW t \in Tiles(j)
              PROVE  /\ Clean(Moves(j, t))
                     /\ \A rc \in Cells(j, t) :
                          <<PlaceOf(j, t, rc[1], rc[2]), SourceOf(j, t, rc[1], rc[2])>> \in Moves(j, t)
                     /\ \A x \in Moves(j, t) : x[1] \in RoomOf(j, t) /\ x[1][1] = Buffer(t)
  <2>1. Grid(j) /\ j.unit \in {"in", "out", "load", "attention"}
    BY DEF LoadLegal
  <2>. QED  BY <2>1, BufferedSound
<1> DEFINE moves == Load(j, t)
<1>1. PICK R \in Nat, C \in Nat : /\ LoadsBox(moves, j, t, R, C) /\ PlaceBox(j, t, R, C)
                                  /\ t.height <= R /\ t.width <= C
  BY LoadBox
<1>2. Moves(j, t) = {<<<<Buffer(t), mv[1]>>, <<0, mv[2]>>>> : mv \in moves}
  BY DEF Moves
<1>. HIDE DEF moves
<1>3. Clean(moves)
  <2> DEFINE f == [r \in 0 .. R - 1 |-> [c \in 0 .. C - 1 |-> LoadPlace(j, t, r, c)]]
             g == [r \in 0 .. R - 1 |-> [c \in 0 .. C - 1 |-> LoadFrom(j, t, r, c)]]
  <2>1. \A r \in 0 .. R - 1, c \in 0 .. C - 1 : LoadMove(j, t, r, c) = <<f[r][c], g[r][c]>>
    BY DEF LoadMove, LoadFrom
  <2>2. \A r \in 0 .. R - 1, c \in 0 .. C - 1 : f[r][c] = LoadPlace(j, t, r, c)
    OBVIOUS
  <2>. HIDE DEF f, g
  <2>3. Tabled(moves, R, C, f, g)
    <3>1. ASSUME NEW x \in moves PROVE \E r \in 0 .. R - 1, c \in 0 .. C - 1 : x = <<f[r][c], g[r][c]>>
      <4>1. PICK r \in 0 .. R - 1, c \in 0 .. C - 1 : x = LoadMove(j, t, r, c)
        BY <1>1 DEF LoadsBox
      <4>2. x = <<f[r][c], g[r][c]>>
        BY <2>1, <4>1
      <4>. QED  BY <4>2
    <3>. QED  BY <3>1 DEF Tabled
  <2>4. Distinct(f, R, C)
    BY <1>1, <2>2 DEF Distinct, PlaceBox
  <2>. QED  BY <2>3, <2>4, TableClean
<1>4. Clean(Moves(j, t))
  <2>1. Moves(j, t) = IntoBuffer(Buffer(t), moves)
    BY <1>2 DEF IntoBuffer
  <2>. QED  BY <1>3, <2>1, RenamedClean
<1>5. ASSUME NEW rc \in Cells(j, t)
      PROVE  <<PlaceOf(j, t, rc[1], rc[2]), SourceOf(j, t, rc[1], rc[2])>> \in Moves(j, t)
  <2>1. rc[1] \in 0 .. t.height - 1 /\ rc[2] \in 0 .. t.width - 1
    BY DEF Cells
  <2>2. t.height \in Nat /\ t.width \in Nat
    BY LoadSizes
  <2>3. rc[1] \in 0 .. R - 1 /\ rc[2] \in 0 .. C - 1
    BY <1>1, <2>1, <2>2
  <2>4. <<LoadPlace(j, t, rc[1], rc[2]), LoadFrom(j, t, rc[1], rc[2])>> \in moves
    BY <1>1, <2>3 DEF LoadsBox, LoadMove, LoadFrom
  <2>5. PlaceOf(j, t, rc[1], rc[2]) = <<Buffer(t), LoadPlace(j, t, rc[1], rc[2])>>
    BY DEF PlaceOf
  <2>6. SourceOf(j, t, rc[1], rc[2]) = <<0, LoadFrom(j, t, rc[1], rc[2])>>
    BY DEF SourceOf, LoadFrom, LayoutAt, SrcRows, LoadC0
  <2>. QED  BY <1>2, <2>4, <2>5, <2>6
<1>6. ASSUME NEW x \in Moves(j, t) PROVE x[1] \in RoomOf(j, t) /\ x[1][1] = Buffer(t)
  <2>1. PICK mv \in moves : x = <<<<Buffer(t), mv[1]>>, <<0, mv[2]>>>>
    BY <1>2
  <2>2. PICK r \in 0 .. R - 1, c \in 0 .. C - 1 : mv = LoadMove(j, t, r, c)
    BY <1>1 DEF LoadsBox
  <2>3. mv[1] = LoadPlace(j, t, r, c)
    BY <2>2 DEF LoadMove
  <2>4. mv[1] \in 0 .. LoadRoom(j, t) - 1
    BY <1>1, <2>3 DEF PlaceBox
  <2>5. RoomOf(j, t) = {<<Buffer(t), a>> : a \in 0 .. LoadRoom(j, t) - 1}
    BY DEF RoomOf
  <2>6. x[1] = <<Buffer(t), mv[1]>>
    BY ONLY <2>1
  <2>. HIDE DEF Buffer
  <2>7. x[1][1] = Buffer(t)
    BY ONLY <2>6
  <2>. QED  BY <2>4, <2>5, <2>6, <2>7
<1>. QED  BY <1>4, <1>5, <1>6

=============================================================================
