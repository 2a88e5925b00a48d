--------------------------- MODULE MCTileMovement ---------------------------
(* Fractals of 2 x 2 halves (16 x 16 in the device): every shape that has  *)
(* a partial tile, a partial fractal, or neither, on both edges.           *)
EXTENDS TileMovement

Shapes(ms, ns, bms, bns) == [m : ms, n : ns, baseM : bms, baseN : bns]

\* Element types whose copy out converts, or does not: <<input, result, size of the result>>.
Plain == {<<"half", "half", 2>>, <<"float", "float", 4>>}
Quant == {<<"int8", "half", 2>>, <<"half", "int8", 1>>}
Out(shapes, policies, places, formats, types, kcs) ==
    {[unit |-> "out", policy |-> p, device |-> d[1], pos |-> d[2], format |-> f,
      a |-> y[1], c |-> y[2], size |-> y[3], kc |-> kc,
      m |-> s.m, n |-> s.n, baseM |-> s.baseM, baseN |-> s.baseN] :
        s \in shapes, p \in policies, d \in places, f \in formats, y \in types, kc \in kcs}
EveryPlace == {<<"910B", "GM">>, <<"910_95", "GM">>, <<"910_95", "UB">>}

OutJobs ==
    LET all == EveryPlace
        gm  == {<<"910B", "GM">>, <<"910_95", "GM">>}
        ub  == {<<"910_95", "UB">>} IN
    Out(Shapes({3, 4}, {3, 5}, {2}, {2}), {"CopyWithParams", "CopyNoGmIn"}, all, {"ND"},
             Plain \cup Quant, {0, 6})
    \cup Out(Shapes({3}, {3, 6}, {2}, {4}), {"CopyWithParams"}, all, {"ND_ALIGN"},
             Plain \cup Quant, {0})
    \cup Out(Shapes({4}, {3, 5}, {2}, {2}), {"CopyWithParams"}, all, {"NZ"},
             {<<"half", "half", 2>>, <<"int8", "half", 2>>}, {0})
    \cup Out(Shapes({3, 4}, {3, 5}, {2}, {2}), {"CopyWithLayout", "CopySparseWithLayout"}, all, {"ND"},
             Plain, {0})
    \cup Out(Shapes({3}, {4, 8}, {2}, {4}), {"CopyWithLayout"}, all, {"ND_ALIGN"}, Plain, {0})
    \cup Out(Shapes({3, 4}, {3, 5}, {2}, {2}), {"CopyWithLayout"}, all, {"NZ"},
             {<<"half", "half", 2>>}, {0})
    \cup Out(Shapes({3, 4}, {3, 5}, {2}, {2}), {"CopyEnUnitFlagWithLayout"}, gm, {"ND"}, Plain, {0})
    \cup Out(Shapes({3, 4}, {3, 5}, {2}, {2}), {"CopyEnUnitFlagWithLayout"}, {<<"910B", "GM">>}, {"NZ"},
             {<<"half", "half", 2>>}, {0})
    \cup Out(Shapes({3, 4}, {3, 4}, {4}, {4}),
             {"CopyOutSplitMWithParams", "CopyInAndCopyOutSplitMWithParams"}, ub, {"ND", "ND_ALIGN"},
             Plain, {0})
    \cup Out(Shapes({4}, {4}, {4}, {4}), {"CopyOutSplitMWithParams"}, ub, {"ND"}, Quant, {0})
    \cup Out(Shapes({4}, {3, 4}, {4}, {4}), {"CopyOutSplitMWithParams"}, ub, {"NZ"},
             {<<"half", "half", 2>>}, {0})
    \cup Out(Shapes({3, 4}, {4, 8}, {4}, {8}), {"CopyOutSplitNWithParams"}, ub, {"ND", "ND_ALIGN", "NZ"},
             {<<"half", "half", 2>>}, {0})

In(shapes, policies, formats, sizes, kRows, checks) ==
    {[unit |-> "in", policy |-> p, format |-> f, size |-> z, kRow |-> k, check |-> i,
      m |-> s.m, n |-> s.n, baseM |-> s.baseM, baseN |-> s.baseN] :
        s \in shapes, p \in policies, f \in formats, z \in sizes, k \in kRows, i \in checks}

InJobs ==
    \* A row longer than the limit needs the check.
    In(Shapes({3, 4}, {3, 6}, {2}, {4}), {"CopyWithParams"}, {"ND"}, {1, 2, 4}, BOOLEAN, BOOLEAN)
    \cup In(Shapes({3}, {7}, {2}, {4}), {"CopyWithParams"}, {"ND"}, {1, 2}, BOOLEAN, {TRUE})
    \cup In(Shapes({3, 6}, {3, 6}, {2}, {4}), {"CopyWithParams"}, {"NZ"}, {1, 2, 4}, BOOLEAN, {TRUE})
    \* Column blocks one by one, for heights that are whole fractals.
    \cup In(Shapes({10}, {6}, {2}, {8}), {"CopyWithParams"}, {"NZ"}, {2}, {FALSE}, {TRUE})
    \cup In(Shapes({1}, {5}, {1}, {4}), {"CopyWithParams", "CopyWithLayout"}, {"VECTOR"}, {1, 2, 4},
            {FALSE}, {TRUE})
    \cup In(Shapes({3, 4}, {3, 6}, {2}, {4}), {"CopyWithLayout"}, {"ND", "ND_ALIGN"}, {1, 2, 4},
            {FALSE}, {TRUE})
    \cup In(Shapes({4}, {7, 8}, {2}, {4}), {"CopyWithLayout"}, {"NZ"}, {1, 2, 4}, {FALSE}, {TRUE})

Loads(shapes, devices, operands, trans, sizes, sparse) ==
    {[unit |-> "load", device |-> d, operand |-> o, trans |-> x, size |-> z, sparse |-> q,
      m |-> s.m, n |-> s.n, baseM |-> s.baseM, baseN |-> s.baseN] :
        s \in shapes, d \in devices, o \in operands, x \in trans, z \in sizes, q \in sparse}

LoadJobs ==
    Loads(Shapes({4, 8}, {4, 7}, {4}, {4}), {"910B"}, {"A"}, {TRUE}, {1}, {FALSE})
    \cup Loads(Shapes({3, 4}, {4, 6}, {2}, {4}), {"910B"}, {"A", "B"}, {FALSE}, {2}, {FALSE})
    \cup Loads(Shapes({3, 4}, {4, 6}, {2}, {4}), {"910B"}, {"A"}, {TRUE}, {2}, {FALSE})
    \cup Loads(Shapes({3, 4}, {4, 6}, {2}, {4}), {"910B"}, {"A"}, {FALSE}, {1, 4}, {FALSE})
    \* B whole along N, or more fractals of N than of K.
    \cup Loads(Shapes({4}, {4, 8}, {4}, {4}), {"910B"}, {"B"}, {TRUE}, {1, 2}, BOOLEAN)
    \cup Loads(Shapes({8}, {4, 8}, {4}, {4}), {"910B"}, {"B"}, {TRUE}, {1, 2}, BOOLEAN)
    \cup Loads(Shapes({6}, {4}, {4}, {2}), {"910B"}, {"B"}, {TRUE}, {2}, BOOLEAN)
    \cup Loads(Shapes({4, 8}, {4, 7}, {4}, {4}), {"910_95"}, {"A", "B"}, BOOLEAN, {1, 2, 4}, {FALSE})
    \cup Loads(Shapes({3}, {3}, {2}, {3}), {"910_95"}, {"A", "B"}, BOOLEAN, {2, 4}, {FALSE})

Iters(ops, sizes, rows, cols, ceils, vals) ==
    {[unit |-> "iterator", op |-> o, size |-> z, rows |-> r, cols |-> c, ceil |-> h, val |-> v,
      mSrc |-> 0, kSrc |-> 0, mDst |-> 0, kDst |-> 0] :
        o \in ops, z \in sizes, r \in rows, c \in cols, h \in ceils, v \in vals}
\* Fractals in columns in L1 (each rows of fractals high), in rows in L0.
Strided(op, size, rows, cols, mSrc, kSrc, mDst, kDst) ==
    [unit |-> "iterator", op |-> op, size |-> size, rows |-> rows, cols |-> cols, ceil |-> rows,
     val |-> cols, mSrc |-> mSrc, kSrc |-> kSrc, mDst |-> mDst, kDst |-> kDst]

IterJobs ==
    Iters({"gm_to_l1_ND"}, {1, 2, 4}, {1, 3}, {3, 4}, {4}, {4})
    \cup Iters({"gm_to_l1_NZ", "ub_to_gm_NZ"}, {1, 2, 4}, {2, 3}, {4, 8}, {4, 10}, {8})
    \cup Iters({"gm_to_l1_NDtoNZ"}, {1, 2, 4}, {2, 3}, {3, 4}, {4}, {4, 6, 9})
    \cup Iters({"gm_to_l1_NDtoZN"}, {1, 2, 4}, {2, 3}, {3, 4}, {4}, {4, 5})
    \cup Iters({"l1_to_l0_a_NZ"}, {1, 2, 4}, {2, 4}, {4, 8}, {4}, {8})
    \cup Iters({"l1_to_l0_b_Transposed"}, {1, 2, 4}, {4, 8}, {2, 4}, {4}, {8})
    \cup Iters({"l0c_to_gm_ND"}, {2, 4}, {3, 4}, {3, 4}, {4}, {4, 6})
    \cup Iters({"l0c_to_gm_NZ"}, {2}, {3, 4}, {4}, {4}, {4, 6})
    \cup Iters({"l0c_to_l1"}, {2}, {2, 3}, {3, 4}, {4}, {4})
    \cup {Strided("l1_to_l0_a", z, 4, 4, 1, 2, 4 \div C0(z), 1) : z \in {1, 2, 4}}
    \cup {Strided(o, 2, 4, 6, 1, 2, 3, 1) : o \in {"l1_to_l0_a_Transposed", "l1_to_l0_b"}}
    \cup {Strided(o, 2, 4, 6, 3, 1, 1, 2) : o \in {"l1_to_l0_a_Transposed", "l1_to_l0_b"}}
    \cup {Strided("l1_to_l0_a_Vector", 2, 4, 3, s, 0, 0, g) : s \in {1, 2}, g \in {0, 1}}

\* Attention: one head of the second of two batches, 2 x 2 heads; rows m, columns start to s2.
Att(ops, shapes, layouts, batches, sizes, aligns, s1s, s2s, starts, baseMs, baseNs, wide, pseS1s, shifts) ==
    {[unit |-> "attention", op |-> o, shape |-> h, layout |-> l, boIdx |-> 1, n2oIdx |-> 1, goIdx |-> 0,
      n2Size |-> 2, gSize |-> 2, pseBSize |-> b, size |-> z, align8 |-> a, s1 |-> r, s2 |-> c,
      start |-> f, m |-> r, n |-> c - f, baseM |-> bm, baseN |-> bn, alignedSize |-> w, pseS1 |-> p,
      blockCount |-> 0, pseAlibiBaseS2 |-> 4, kvStartIdx |-> x[1], qStartIdx |-> x[2]] :
        o \in ops, h \in shapes, l \in layouts, b \in batches, z \in sizes, a \in aligns, r \in s1s,
        c \in s2s, f \in {s \in starts : \A n \in s2s : s < n}, bm \in baseMs, bn \in baseNs, w \in wide,
        p \in pseS1s, x \in shifts}
Origin == {<<0, 0>>}

AllAttentionJobs ==
    Att({"pse"}, {"S1S2", "1S2"}, {"BSND"}, {1, 2}, {2, 4}, BOOLEAN, {3, 5}, {5, 8}, {0, 2}, {3}, {4}, {4}, {4}, Origin)
    \cup {[j EXCEPT !.blockCount = 2] :
             j \in Att({"pse"}, {"1S2"}, {"BSND"}, {1, 2}, {2, 4}, BOOLEAN, {3}, {5, 8}, {0}, {3}, {4}, {4}, {4}, Origin)}
    \* Causal: rows and columns of one length unless the sequences are packed.
    \cup UNION {Att({"alibi"}, {"S1S2"}, {"BSND"}, {1, 2}, {2}, {FALSE}, {s}, {s}, {0, 2}, {2}, {2}, {4}, {2, 4}, Origin) :
                  s \in {4, 6}}
    \* Rows above the last pseS1.
    \cup Att({"alibi"}, {"S1S2"}, {"BSND"}, {1, 2}, {2}, {FALSE}, {8}, {8}, {0}, {2}, {4}, {4}, {4}, Origin)
    \cup Att({"alibi"}, {"S1S2"}, {"TND"}, {1, 2}, {2}, {FALSE}, {4, 6}, {6, 8}, {0, 2}, {2}, {2}, {4}, {4}, Origin)
    \cup Att({"alibi"}, {"S1S2"}, {"TND"}, {2}, {2}, {FALSE}, {4}, {4}, {0}, {2}, {2}, {4}, {6}, Origin)
    \cup Att({"slope"}, {"SlopeBn", "SlopeN"}, {"BSND"}, {2}, {2}, {FALSE}, {3, 5}, {4, 7}, {0, 2}, {3}, {4}, {4}, {4},
             {<<0, 0>>, <<3, 1>>, <<0, 4>>})
    \* Boolean masks, at last with gaps that do not fit in a burst's parameters.
    \cup Att({"dropBool"}, {"S1S2"}, {"BSND"}, {2}, {1}, BOOLEAN, {3}, {4, 5, 8, 12, 16}, {0, 4}, {2}, {4, 6}, {4, 8}, {4}, Origin)
    \cup Att({"dropBool"}, {"S1S2"}, {"BSND"}, {2}, {1}, BOOLEAN, {3}, {40, 41}, {32}, {2}, {4, 6}, {4, 8}, {4}, Origin)
    \cup Att({"dropBit"}, {"S1S2"}, {"BSND"}, {2}, {1}, {FALSE}, {3}, {4, 6, 8, 16}, {0, 2}, {2}, {4, 8}, {8}, {4}, Origin)

\* The tiles have a buffer each: with more of them there are only more orders.
AttentionJobs == {j \in AllAttentionJobs : Cardinality(Tiles(j)) <= IF j.op = "alibi" THEN 9 ELSE 6}

\* The operands of a kernel: sizes that the tiles divide and that they do not, second batches.
Operand(fn, operands, sizes, l1s, transA, transB, nz, modes, batch, shared) ==
    {[unit |-> "operand", fn |-> fn, operand |-> o, M |-> s[1], N |-> s[2], K |-> s[3],
      l1M |-> l[1], l1N |-> l[2], l1K |-> l[3], transA |-> x, transB |-> y, nz |-> nz, c0 |-> 2, mode |-> w,
      batch |-> batch, shared |-> shared, balanced |-> FALSE,
      normM |-> s[1], tailM |-> l[1], normN |-> s[2], tailN |-> l[2]] :
        o \in operands, s \in sizes, l \in l1s, x \in transA, y \in transB, w \in modes}
\* One tile of l1 and smaller ones after it; a transposed A with B as it is has none.
Balanced(jobs) ==
    {[j EXCEPT !.balanced = TRUE, !.normM = 1, !.tailM = 1, !.normN = 1, !.tailN = IF ByBlocks(j) THEN 4 ELSE 2] :
        j \in {i \in jobs : ~(i.transA /\ ~i.transB)}}
FourOperands == {"A", "B", "C", "bias"}
Modes == {"PERGROUP", "PERBLOCK", "MX", "OTHER"}
OperandJobs ==
    UNION {Operand(fn, FourOperands, {<<3, 5, 4>>, <<4, 4, 3>>}, {<<2, 4, 2>>}, BOOLEAN, BOOLEAN, FALSE, {"OTHER"}, 1, FALSE) :
             fn \in {"WithoutLayout", "StreamK"}}
    \cup Operand("Layout", {"A", "B", "C"}, {<<3, 5, 4>>, <<4, 4, 3>>}, {<<2, 4, 2>>}, BOOLEAN, BOOLEAN, FALSE, {"OTHER"}, 1, FALSE)
    \cup Operand("IterBatch", {"A", "B", "C"}, {<<3, 5, 4>>}, {<<3, 5, 4>>}, BOOLEAN, BOOLEAN, FALSE, {"OTHER"}, 2, FALSE)
    \cup Operand("Coordinate", FourOperands, {<<3, 5, 4>>, <<4, 4, 3>>}, {<<2, 4, 2>>}, BOOLEAN, BOOLEAN, FALSE, {"OTHER"}, 1, FALSE)
    \cup Operand("Coordinate", {"A", "B", "C", "bias"}, {<<2, 5, 4>>}, {<<2, 4, 4>>}, BOOLEAN, BOOLEAN, FALSE, {"OTHER"}, 1, TRUE)
    \cup Operand("Coordinate", {"B"}, {<<3, 5, 4>>, <<3, 4, 5>>, <<3, 6, 3>>}, {<<2, 4, 2>>}, {FALSE}, BOOLEAN, TRUE, {"OTHER"}, 1, FALSE)
    \* Half a tile of NZ is whole column blocks, or rows.
    \cup Operand("Coordinate", {"B"}, {<<3, 8, 5>>}, {<<2, 4, 6>>}, {FALSE}, BOOLEAN, TRUE, {"OTHER"}, 1, TRUE)
    \* The scales of a block are found from tiles that fill a part of one, one, or several.
    \cup LET quant == Operand("Quant", FourOperands \cup {"x1Scale", "x2Scale"}, {<<3, 10, 6>>}, {<<2, 4, 6>>, <<1, 8, 6>>},
                             BOOLEAN, BOOLEAN, FALSE, Modes, 0, FALSE) IN
         quant \cup Balanced(quant)
    \cup Operand("Quant", FourOperands \cup {"x1Scale", "x2Scale"}, {<<3, 7, 6>>}, {<<3, 4, 6>>}, BOOLEAN, BOOLEAN, FALSE,
                 {"MX", "OTHER"}, 0, TRUE)
    \cup Operand("QuantIO", FourOperands \cup {"x1Scale", "x2Scale"}, {<<3, 12, 6>>}, {<<2, 4, 6>>}, BOOLEAN, BOOLEAN, FALSE,
                 {"PERGROUP", "MX", "OTHER"}, 0, FALSE)
    \cup Operand("QuantIO", {"yScale"}, {<<3, 12, 6>>, <<2, 8, 3>>}, {<<2, 4, 6>>}, {FALSE}, {FALSE}, FALSE, {"MX"}, 0, FALSE)

MCJobs == OperandJobs \cup OutJobs \cup InJobs \cup LoadJobs \cup IterJobs \cup AttentionJobs
=============================================================================
