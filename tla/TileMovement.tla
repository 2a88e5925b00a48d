---------------------------- MODULE TileMovement ----------------------------
(***************************************************************************)
(* A matrix moved tile by tile.  A job is one use of a copy: the matrix,   *)
(* its tiling and what selects the specialisation.  The tiles are copied   *)
(* in any order, as cores and iterations do, so that a tile that writes    *)
(* outside its own place destroys another one's cells in some order.  The  *)
(* memory remembers of every element written where it was read.            *)
(***************************************************************************)
EXTENDS TileCopyIn, TileCopyOut, TileLoadL0, KernelIterators, AttentionTiles,
        TileCoordinates, FiniteSets

CONSTANT Jobs   \* the copies to examine

VARIABLES
    job,    \* the copy examined in this behaviour
    todo,   \* its tiles not yet copied
    mem     \* what has been written: <<place, source>>, a place written at most once
vars == <<job, todo, mem>>

-----------------------------------------------------------------------------
(* The tiles, and what a copy means for its unit of the code.              *)
Tiles(j) ==
    IF j.unit = "iterator" THEN {[row |-> 0, col |-> 0, height |-> j.rows, width |-> j.cols]}
    ELSE IF j.unit = "operand" THEN OperandTiles(j)
    ELSE {[row |-> r, col |-> c,
           height |-> Least(j.baseM, j.m - r * j.baseM), width |-> Least(j.baseN, j.n - c * j.baseN)]
            : r \in 0 .. CeilDiv(j.m, j.baseM) - 1, c \in 0 .. CeilDiv(j.n, j.baseN) - 1}
Buffer(t) == <<t.row, t.col>>

\* The moves of a tile as <<place, source>>; inputs go to a buffer each, results come from one.
Moves(j, t) ==
    CASE j.unit = "out" /\ IsSplit(j)  -> {<<mv[1], <<Buffer(t), mv[2]>>>> : mv \in CopyOut(j, t)}
      [] j.unit = "out" /\ ~IsSplit(j) -> {<<<<0, mv[1]>>, <<Buffer(t), mv[2]>>>> : mv \in CopyOut(j, t)}
      [] j.unit = "in"       -> {<<<<Buffer(t), mv[1]>>, <<0, mv[2]>>>> : mv \in CopyIn(j, t)}
      [] j.unit = "load"     -> {<<<<Buffer(t), mv[1]>>, <<0, mv[2]>>>> : mv \in Load(j, t)}
      [] j.unit = "iterator" -> {<<<<0, mv[1]>>, <<0, mv[2]>>>> : mv \in Iterate(j)}
      [] j.unit = "attention" -> {<<<<Buffer(t), mv[1]>>, <<0, mv[2]>>>> : mv \in AttentionMoves(j, t)}
      [] j.unit = "operand" /\ j.operand = "C" -> {<<<<0, cell[3]>>, <<Buffer(t), cell[1], cell[2]>>>> : cell \in OperandMoves(j, t)}
      [] j.unit = "operand" /\ j.operand # "C" -> {<<<<Buffer(t), cell[1], cell[2]>>, <<0, cell[3]>>>> : cell \in OperandMoves(j, t)}

\* Where cell (r, c) of a tile lies before the copy, and where it belongs after it.
SourceOf(j, t, r, c) ==
    CASE j.unit = "out"  -> <<Buffer(t), NzAt(IF OutPolicy(j.policy) \in LayoutPolicies
                                              THEN FullHeight(j) ELSE CeilAlign(t.height, Cube), Cube, r, c)>>
      [] j.unit = "in"   -> <<0, LayoutAt(IF j.format = "VECTOR" THEN "ND" ELSE j.format, j.size, j.m, j.n,
                                          InRow(j, t) + r, InCol(j, t) + c)>>
      [] j.unit = "load" -> <<0, LayoutAt("NZ", j.size, j.m, j.n, LoadRow(j, t) + r, LoadCol(j, t) + c)>>
      [] j.unit = "iterator" -> <<0, IterSource(j, r, c)>>
      [] j.unit = "attention" -> <<0, ScoreGets(j, t, r, c)>>
      [] j.unit = "operand"   -> IF j.operand = "C" THEN <<Buffer(t), r, c>> ELSE <<0, CellAddress(j, t, r, c)>>
PlaceOf(j, t, r, c) ==
    CASE j.unit = "out"      -> OutPlace(j, RowOf(j, t) + r, ColOf(j, t) + c)
      [] j.unit = "in"       -> <<Buffer(t), InPlace(j, t, r, c)>>
      [] j.unit = "load"     -> <<Buffer(t), LoadPlace(j, t, r, c)>>
      [] j.unit = "iterator" -> <<0, IterPlace(j, r, c)>>
      [] j.unit = "attention" -> <<Buffer(t), r * Pitch(j, t) + c>>
      [] j.unit = "operand"   -> IF j.operand = "C" THEN <<0, CellAddress(j, t, r, c)>> ELSE <<Buffer(t), r, c>>

\* The cells of a tile; a score that the causal mask hides needs no encoding.
Cells(j, t) ==
    {rc \in (0 .. t.height - 1) \X (0 .. t.width - 1) :
        j.unit = "attention" => ScoreNeeded(j, t, rc[1], rc[2])}

\* The places that belong to the result: its cells, and the padding its format asks for.
RoomOf(j, t) ==
    CASE j.unit = "out" ->
           {OutPlace(j, r, c) :
              r \in 0 .. (IF j.format = "NZ" \/ IsSplit(j) THEN CeilAlign(j.m, Cube) ELSE j.m) - 1,
              c \in 0 .. (IF j.format = "NZ" THEN CeilAlign(j.n, Cube) ELSE Aligned(j, j.n)) - 1}
      [] j.unit = "in"       -> {<<Buffer(t), a>> : a \in 0 .. InRoom(j, t) - 1}
      [] j.unit = "load"     -> {<<Buffer(t), a>> : a \in 0 .. LoadRoom(j, t) - 1}
      [] j.unit = "iterator" -> {<<0, a>> : a \in IterRoom(j)}
      [] j.unit = "attention" -> {<<Buffer(t), a>> : a \in 0 .. t.height * Pitch(j, t) - 1}
      [] j.unit = "operand"   -> {PlaceOf(j, t, rc[1], rc[2]) : rc \in Cells(j, t)}

-----------------------------------------------------------------------------
(* What the code asks of a job, here of the copies between L1, L0 and the result. *)
\* A matrix cut into tiles of one size, of elements that fit a block.
Grid(j) ==
    /\ {j.m, j.n} \subseteq Nat
    /\ {j.baseM, j.baseN, j.size} \subseteq Nat \ {0}
    /\ j.size <= Block

\* A row beyond the stride's field needs the check; the tiles of column blocks are whole ones.  The
\* gap between blocks of rows that are no whole fractals fits its field, since the copy of block
\* after block does not round them up.
InLegal(j) ==
    /\ Grid(j)
    /\ j.policy \in {"CopyWithParams", "CopyWithLayout"}
    /\ j.format \in {"ND", "NZ", "VECTOR"} \/ (j.policy = "CopyWithLayout" /\ j.format = "ND_ALIGN")
    /\ (j.policy = "CopyWithParams" /\ j.format = "ND") => (j.check \/ j.n <= StrideLimit)
    /\ j.format = "NZ" => j.baseN % C0(j.size) = 0
    /\ (j.policy = "CopyWithParams" /\ j.format = "NZ") =>
         (CeilAlign(j.m, Cube) < StrideLimit + Cube \/ (j.m % Cube = 0 /\ ~KAligned(j)))
    /\ j.format = "VECTOR" => j.m = 1

\* Column blocks are copied out as half; aligned rows and layouts are cut at whole blocks and fractals;
\* the split copies serve one tile, which two vector cores share evenly.
OutLegal(j) ==
    /\ Grid(j)
    /\ j.format \in {"ND", "ND_ALIGN", "NZ"}
    /\ <<j.device, j.pos>> \in {<<"910B", "GM">>, <<"910_95", "GM">>, <<"910_95", "UB">>}
    /\ j.kc \in Nat /\ (j.kc = 0 \/ j.kc >= j.n)
    /\ IsSplit(j) \/ OutPolicy(j.policy) \in LayoutPolicies \cup {"CopyWithParams"}
    /\ OutPolicy(j.policy) = "CopyWithParams" =>
         /\ j.format = "ND_ALIGN" => j.baseN % C0(j.size) = 0
         /\ j.format = "NZ" => j.size = 2 /\ j.baseN % Cube = 0
    /\ OutPolicy(j.policy) \in LayoutPolicies =>
         /\ j.baseM % Cube = 0 /\ j.baseN % Cube = 0
         /\ j.format = "ND_ALIGN" => j.baseN % C0(j.size) = 0 /\ j.n % C0(j.size) = 0
         /\ j.format = "NZ" => j.size = 2
    /\ OutPolicy(j.policy) = "CopyEnUnitFlagWithLayout" => j.pos = "GM" /\ (j.format = "NZ" => j.device = "910B")
    /\ IsSplit(j) =>
         /\ j.device = "910_95" /\ j.pos = "UB" /\ j.kc = 0
         /\ j.m > 0 /\ j.n > 0 /\ j.m <= j.baseM /\ j.n <= j.baseN
         /\ (j.format = "NZ" \/ OutPolicy(j.policy) = "CopyOutSplitNWithParams") => ~IsQuant(j)
    /\ OutPolicy(j.policy) = "CopyOutSplitMWithParams" =>
         (j.m % 2 = 0 \/ (j.format # "NZ" /\ Cube % 2 = 0))
    /\ OutPolicy(j.policy) = "CopyOutSplitNWithParams" => Aligned(j, j.n) % (2 * Cube) = 0

\* Tiles start at whole fractals.  The loads of a transposed B go by column blocks: by rows, the stride
\* counts rows.  Indices of a sparse B are found for every fourth element.
LoadLegal(j) ==
    /\ Grid(j)
    /\ j.size \in {1, 2, 4} /\ (j.size = 4 => Cube % 2 = 0)
    /\ j.device \in {"910B", "910_95"} /\ j.operand \in {"A", "B"} /\ {j.trans, j.sparse} \subseteq BOOLEAN
    /\ j.m <= j.baseM \/ j.baseM % Cube = 0
    /\ j.n <= j.baseN \/ j.baseN % C0(j.size) = 0
    /\ <<j.device, j.operand, j.trans>> = <<"910B", "B", TRUE>> =>
         \A t \in Tiles(j) :
            /\ DstRows(j, t) = SrcRows(j) \/ DstRows(j, t) \div Cube >= DstCols(j, t) \div LoadC0(j)
            /\ j.sparse => \A l \in LoadsOfB(j, t) : l.src % 4 = 0

\* A part that starts with a group of so many elements, or lies in one.
InGroup(p, group) == p.start % group = 0 \/ (p.start % group) + p.length <= group

\* Tiles of one size, but for the load balance of a quantised matmul.  Where B is in NZ its tiles start at
\* whole blocks; where a scale stands for several rows or columns, no tile begins inside such a group
\* unless it ends there too; the tiles of a batch-wise kernel are whole matrices.
OperandLegal(j) ==
    /\ {j.M, j.N, j.K, j.batch, j.normM, j.normN} \subseteq Nat
    /\ {j.l1M, j.l1N, j.l1K, j.tailM, j.tailN, j.c0} \subseteq Nat \ {0}
    /\ {j.transA, j.transB, j.nz, j.shared, j.balanced} \subseteq BOOLEAN
    /\ j.mode \in {"PERGROUP", "PERBLOCK", "MX", "OTHER"}
    /\ \/ j.fn \in {"Layout", "IterBatch"} /\ j.operand \in {"A", "B", "C"}
       \/ j.fn \in {"WithoutLayout", "StreamK", "Coordinate"} /\ j.operand \in {"A", "B", "C", "bias"}
       \/ j.fn \in {"Quant", "QuantIO"} /\ j.operand \in {"A", "B", "C", "bias", "x1Scale", "x2Scale"}
       \/ j.fn = "QuantIO" /\ j.mode = "MX" /\ j.operand = "yScale"
    /\ IF j.balanced THEN j.fn = "Quant" /\ ~(j.transA /\ ~j.transB) ELSE j.tailM = j.l1M /\ j.tailN = j.l1N
    /\ j.fn = "StreamK" => ~j.shared
    /\ j.fn = "IterBatch" => ~j.shared /\ j.M <= j.l1M /\ j.N <= j.l1N
    /\ j.fn \in {"Quant", "QuantIO"} => j.batch = 0
    /\ j.fn = "QuantIO" => j.N % 2 = 0 /\ j.mode # "PERBLOCK"
    /\ j.nz => /\ j.fn = "Coordinate"
               /\ j.transB  => \A p \in KPieces(j) : p.start % j.c0 = 0
               /\ ~j.transB => \A p \in NPieces(j) : p.start % j.c0 = 0
    /\ j.operand = "x1Scale" /\ j.mode = "PERBLOCK" => \A p \in MPieces(j) : InGroup(p, PerBlock)
    /\ j.operand = "x2Scale" /\ ByBlocks(j) =>
         \A p \in NPieces(j) : IF j.fn = "QuantIO" THEN p.start % PerBlock = 0 ELSE InGroup(p, PerBlock)
    /\ j.operand = "yScale" => \A p \in NPieces(j) : p.start % MxfpDivisor = 0

\* Fractals, the given numbers of fractals apart down and across, that do not overlap.
FractalsApart(down, across, mStride, kStride) ==
    \A i, k \in 0 .. down - 1, b, c \in 0 .. across - 1 :
        i * mStride + b * kStride = k * mStride + c * kStride => i = k /\ b = c

\* A tile fits the rows and columns that its strides count, and is made of whole column blocks or fractals
\* where these are copied; fractals transposed are square.  Past the limit of the stride, ND becomes ZN one row
\* at a time.
IterLegal(j) ==
    /\ {j.rows, j.cols, j.ceil, j.val, j.mSrc, j.kSrc, j.mDst, j.kDst} \subseteq Nat
    /\ j.size \in Nat \ {0} /\ j.size <= Block
    /\ j.op \in {"gm_to_l1_ND", "gm_to_l1_NZ", "gm_to_l1_NDtoNZ", "gm_to_l1_NDtoZN", "ub_to_gm_NZ",
                 "l1_to_l0_a_Vector", "l1_to_l0_a", "l1_to_l0_a_Transposed", "l1_to_l0_a_NZ", "l1_to_l0_b",
                 "l1_to_l0_b_Transposed", "l0c_to_gm_ND", "l0c_to_gm_NZ", "l0c_to_l1"}
    /\ j.op \in {"gm_to_l1_NZ", "gm_to_l1_NDtoNZ", "gm_to_l1_NDtoZN", "ub_to_gm_NZ", "l0c_to_l1"} => j.rows <= j.ceil
    /\ j.op \in {"gm_to_l1_NZ", "ub_to_gm_NZ", "l1_to_l0_a", "l1_to_l0_a_NZ", "l1_to_l0_b"} => j.cols % IterC0(j) = 0
    /\ j.op = "gm_to_l1_NDtoZN" => j.val < StrideLimitH \/ j.rows = 1
    /\ j.op = "l1_to_l0_a_Vector" => j.rows = Fractal(j.size)
    /\ j.op \in {"l1_to_l0_a", "l1_to_l0_a_NZ", "l1_to_l0_b"} => j.rows % Cube = 0
    /\ j.op \in {"l1_to_l0_a_Transposed", "l1_to_l0_b_Transposed"} => j.rows % IterC0(j) = 0 /\ j.cols % Cube = 0
    /\ j.op \in {"l1_to_l0_a_Transposed", "l1_to_l0_b"} => j.size = 2
    /\ j.op \in {"l1_to_l0_a", "l1_to_l0_b"} =>
         j.kDst > 0 /\ FractalsApart(j.rows \div Cube, j.cols \div IterC0(j), j.mDst, j.kDst)
    /\ j.op = "l1_to_l0_a_Transposed" =>
         j.kDst > 0 /\ FractalsApart(j.rows \div IterC0(j), j.cols \div Cube, j.mDst, j.kDst)
    /\ j.op = "l0c_to_gm_ND" => j.cols <= j.val
    /\ j.op = "l0c_to_gm_NZ" => j.rows <= j.val

\* The block lies within the scores.  Encodings are of half or of float.  One of distances is applied in rows of whole
\* fractals, so the scores' rows are too, and is cut at whole blocks, of as many rows of scores as columns; of packed
\* sequences, with no more rows than columns, it has room for the rows of a block beside its columns, or beside all
\* columns if there are fewer than rows of it.  The rows of a mask are rounded up to one 32-byte block or two, or are
\* whole bytes where a byte holds the mask of several scores.  What a copy puts in a 16-bit field without asking fits it:
\* the rows and the bytes of a block, and the gap to the next row, which is left to the caller.
AttentionLegal(j) ==
    /\ Grid(j)
    /\ {j.s1, j.s2, j.start, j.boIdx, j.n2oIdx, j.goIdx, j.n2Size, j.gSize} \subseteq Nat
    /\ {j.qStartIdx, j.kvStartIdx} \subseteq Int /\ j.align8 \in BOOLEAN
    /\ j.m <= j.s1 /\ j.start + j.n <= j.s2
    /\ j.op \in {"pse", "alibi", "slope", "dropBool", "dropBit"}
    /\ j.op \in {"pse", "alibi"} => j.size \in {2, 4} /\ Cube % 2 = 0
    /\ j.op = "pse" => j.shape \in {"S1S2", "1S2"} /\ j.blockCount \in 0 .. UInt16Max
    /\ j.op = "alibi" =>
         /\ j.pseS1 \in Nat \ {0} /\ j.pseBSize \in Nat \ {0} /\ (j.pseBSize = 1 \/ j.boIdx < j.pseBSize)
         /\ j.align8 => j.size = 2
         /\ IF j.layout = "TND"
            THEN j.s1 <= j.s2 /\ j.baseM + (IF j.pseS1 <= j.s2 THEN j.baseN ELSE j.s2) <= j.pseS1 + 1
            ELSE /\ j.s1 = j.s2
                 /\ j.pseS1 % j.baseM = 0 /\ j.pseS1 % j.baseN = 0 /\ j.start % j.baseN = 0
    /\ j.op = "slope" => j.size = 2 /\ j.pseAlibiBaseS2 \in Nat /\ j.baseN <= j.pseAlibiBaseS2
    /\ j.op \in {"dropBool", "dropBit"} => j.size = 1
    /\ j.op = "dropBool" => j.alignedSize \in {Block, 2 * Block}
    /\ j.op = "dropBit" => \A n \in {j.s2, j.start, j.n, j.baseN} : n % ByteBits = 0
    /\ \A t \in Tiles(j) :
         /\ t.height <= UInt16Max /\ Pitch(j, t) * j.size <= UInt16Max
         /\ UntestedGap(j, t) <= UInt16Max

ASSUME JobsAssumption ==
    \A j \in Jobs : \/ j.unit = "in" /\ InLegal(j)
                    \/ j.unit = "out" /\ OutLegal(j)
                    \/ j.unit = "load" /\ LoadLegal(j)
                    \/ j.unit = "operand" /\ OperandLegal(j)
                    \/ j.unit = "iterator" /\ IterLegal(j)
                    \/ j.unit = "attention" /\ AttentionLegal(j)

-----------------------------------------------------------------------------
Init ==
    /\ job \in Jobs
    /\ todo = Tiles(job)
    /\ mem = {}

CopyTile(t) ==
    LET moves   == Moves(job, t)
        written == {mv[1] : mv \in moves}
    IN
    /\ t \in todo
    /\ todo' = todo \ {t}
    /\ mem' = {e \in mem : e[1] \notin written} \cup moves
    /\ UNCHANGED job

Next == \E t \in Tiles(job) : CopyTile(t)

Spec == Init /\ [][Next]_vars

-----------------------------------------------------------------------------
Done == Tiles(job) \ todo

\* Whatever the order, every cell of every copied tile is at its place, and nothing has been
\* written over it since: the offsets and strides of one tile never reach into another's place.
EachCellInPlace ==
    /\ \A t \in Done : \A rc \in Cells(job, t) :
          <<PlaceOf(job, t, rc[1], rc[2]), SourceOf(job, t, rc[1], rc[2])>> \in mem
    /\ Cardinality({e[1] : e \in mem}) = Cardinality(mem)

\* A copy writes nothing outside the result or the buffer of its tile: neither past the edge of
\* a matrix that is no multiple of the tile, nor into the gap between its rows.
NothingElseWritten ==
    {e[1] : e \in mem} \subseteq UNION {RoomOf(job, t) : t \in Done}
=============================================================================
