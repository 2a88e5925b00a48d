--------------------------- MODULE LevelTwoShapes ---------------------------
(***************************************************************************)
(* The helpers of level2_base*.h, from which an operator's first function  *)
(* checks its arguments and infers shapes.  A shape is the sequence of its *)
(* dimensions; a dimension given by the caller counts from 0, or from the  *)
(* end if it is negative.  A question is one use of a helper.  What is     *)
(* allocated by the executor, broadcast, promotion and Fill are external.  *)
(***************************************************************************)
EXTENDS Integers, Sequences, FiniteSets, FiniteSetsExt, Functions

CONSTANTS Questions,              \* uses of a helper: its name and its arguments
          MAX_SUPPORT_DIMS_NUMS,
          MAX_MASK_LEN64

VARIABLES question,  \* the use examined, or Unasked
          answer     \* what the helper returned, or Unasked
levelTwoVars == <<question, answer>>

Unasked == [helper |-> "none"]

\* What callers ask: a dimension is a natural number, dims and slices name dimensions there are, a
\* shape to reduce has no more of them than reduceArray, which is indexed without a test, a pooling
\* has a stride per dimension of its kernel, and the chips without BF16 list no such type.
Ranked(n, dims) == \A i \in DOMAIN dims : dims[i] \in IF n = 0 THEN {0} ELSE -n .. n - 1
ASSUME QuestionsAssumption ==
    /\ MAX_SUPPORT_DIMS_NUMS \in Nat \ {0} /\ MAX_MASK_LEN64 \in Nat
    /\ MAX_SUPPORT_DIMS_NUMS <= MAX_MASK_LEN64
    /\ \A q \in Questions :
         /\ q.helper \in {"slice", "reduce", "dim", "unpool", "shapes", "long", "fill"} => q.self \in Seq(Nat)
         /\ q.helper = "slice" => /\ q.self # <<>> /\ Ranked(Len(q.self), <<q.slice.dim>>)
                                  /\ q.slice.start \in Int /\ q.slice.end \in Int
         /\ q.helper = "reduce" => /\ q.dims \in Seq(Int) /\ Ranked(Len(q.self), q.dims)
                                   /\ Len(q.self) <= MAX_SUPPORT_DIMS_NUMS /\ q.keepDim \in BOOLEAN
         /\ q.helper = "dim" => q.dim \in Int
         /\ q.helper = "avgPool" => /\ {q.kernel, q.stride, q.padding} \subseteq Seq(Int)
                                    /\ q.kernel # <<>> /\ Len(q.stride) = Len(q.kernel)
         /\ q.helper = "unpool" => Len(q.self) \in {4, 5} /\ q.outputSize \in Seq(Nat)
         /\ q.helper = "types" => "BF16" \notin q.l2
         /\ q.helper = "shapes" => q.out \in Seq(Nat) /\ q.third \in Seq(Nat)

Elements(shape) ==
    LET product[i \in 0 .. Len(shape)] == IF i = 0 THEN 1 ELSE product[i - 1] * shape[i]
    IN  product[Len(shape)]
DimOf(shape, i) == shape[i + 1]

-----------------------------------------------------------------------------
(* Presence, shapes and types of arguments.                                *)
CheckNotNullTensors(args) == \A i \in DOMAIN args : args[i] # "null"

CheckSameShape1In1Out(self, out)      == self = out /\ Len(self) <= MAX_SUPPORT_DIMS_NUMS
CheckShapeCumMinMax(self, v, i)       == Len(self) <= MAX_SUPPORT_DIMS_NUMS /\ self = v /\ self = i
CheckSameShapeNotlimit1In1Out(self, out) == self = out
CheckShapeNotlimitDim1In1Out(self)    == Len(self) <= MAX_SUPPORT_DIMS_NUMS
CheckSizeLoop(gradOut, full)          == \A i \in DOMAIN gradOut : gradOut[i] = full[i]
CheckUpsampleShape(gradOut, outputSize, inputSize) ==
    Len(gradOut) = 5 /\ Len(outputSize) = 3 /\ Len(inputSize) = 5

\* SocVersion in its order.
Socs == <<"ASCEND910", "ASCEND910B", "ASCEND910_93", "ASCEND910_95", "ASCEND910E", "ASCEND310P">>
From910BTo910E(soc) == soc \in Range(SubSeq(Socs, 2, 5))
GetDtypeSupportListV1(soc, l1, l2) == IF soc \in {"ASCEND910B", "ASCEND910_93"} THEN l1 ELSE l2
GetDtypeSupportListV2(soc, l1, l2) == IF From910BTo910E(soc) THEN l1 ELSE l2
GetDtypeSupportListV3(soc, l1, l2) == IF soc = "ASCEND910" THEN l2 ELSE l1

CheckDtypeValid1In1Out(self, out, list, outList) == self \in list /\ out \in outList
\* One list for every chip.
DTYPE_SUPPORT_LISTS == {"FLOAT", "FLOAT16", "DOUBLE", "BF16"}
CheckDtypeValid1Out1In(gradOut, gradInput) == gradOut \in DTYPE_SUPPORT_LISTS /\ gradInput = gradOut
\* A third argument, a scalar or a tensor, of types of its own.
CheckDtypeValid1In1OutAttr(self, attr, out, list, attrList, outList) ==
    self \in list /\ attr \in attrList /\ out \in outList /\ self = out
CheckDtypeValid1In1OutMatch(self, value, inverse, counts, list) ==
    self \in list /\ inverse = "INT64" /\ counts = "INT64" /\ value = self /\ inverse = counts
CheckDtypeValidActivation(soc, self, out, list) ==
    self \in list /\ out \in list /\ out = self /\ (self = "BF16" => From910BTo910E(soc))

PromoteType(a, b) ==
    IF a = b THEN a ELSE IF a = "BOOL" THEN b ELSE IF b = "BOOL" THEN a
    ELSE IF "STRING" \in {a, b} THEN "UNDEFINED" ELSE "FLOAT"
CheckPromoteTypeGeluBackward(soc, grad, self, list) ==
    LET promote == PromoteType(grad, self) IN
    promote # "UNDEFINED" /\ (promote = "BF16" => From910BTo910E(soc)) /\ promote \in list
CheckDtypeValidMseLoss(soc, self, target, out, l1, l2) ==
    LET list == GetDtypeSupportListV2(soc, l1, l2) IN
    PromoteType(self, target) \in list /\ {self, target, out} \subseteq list
CheckReductionMseLoss(reduction, sum, none) == none <= reduction /\ reduction <= sum

-----------------------------------------------------------------------------
(* Pooling.  An array with one element stands for two equal ones.           *)
CheckArrayDataAvgPoolBackWard(kernel, stride, padding) ==
    /\ \A i \in DOMAIN kernel : kernel[i] > 0
    /\ \A i \in DOMAIN stride : stride[i] > 0
    /\ Len(kernel) = Len(padding)
    /\ \A i \in DOMAIN kernel : padding[i] \in 0 .. kernel[i] \div 2
Second(array) == IF Len(array) = 1 THEN array[1] ELSE array[2]
CheckPaddingValidAvgPool2D(kernel, padding) ==
    /\ padding # <<>>
    /\ kernel[1] >= 2 * padding[1]
    /\ Second(kernel) >= 2 * Second(padding)

CheckInpuNullTensorMaxUnPool3D(self) == \A i \in 2 .. Len(self) : self[i] > 0
CheckIntArrayShapeMaxUnPool3D(self, outputSize, stride, padding) ==
    /\ Len(outputSize) = 3 /\ Len(stride) = 3 /\ Len(padding) = 3
    /\ \A i \in 1 .. 3 : stride[i] > 0 /\ outputSize[i] > 0
    /\ LET dimD == IF Len(self) = 5 THEN 2 ELSE 1 IN
       Elements(outputSize) >= DimOf(self, dimD) * DimOf(self, dimD + 1) * DimOf(self, dimD + 2)

-----------------------------------------------------------------------------
(* Dimensions counted from the end, slices.                                 *)
CheckDimValueWithUnique(self, dim) ==
    LET n == Len(self) IN Min({-n, n - 1}) <= dim /\ dim <= Max({-n, n - 1})

CalculateValuesSliceUpper(self, s) ==
    LET dim == IF s.dim < 0 THEN s.dim + Len(self) ELSE s.dim IN
    [dim   |-> dim,
     start |-> IF s.start < 0 THEN s.start + DimOf(self, dim) ELSE s.start,
     end   |-> IF s.end < 0 THEN s.end + DimOf(self, dim) ELSE s.end]
CalculateValuesSliceLower_EndFirst(self, s) ==
    LET size == DimOf(self, s.dim)
        end  == IF s.end < s.start THEN s.start ELSE IF s.end >= size THEN size ELSE s.end
    IN  [dim |-> s.dim, start |-> IF s.start < 0 THEN 0 ELSE IF s.start >= size THEN size ELSE s.start,
         end |-> end]
CalculateValuesSliceLower(self, s) ==
    LET size  == DimOf(self, s.dim)
        start == IF s.start < 0 THEN 0 ELSE IF s.start >= size THEN size ELSE s.start
    IN  [dim |-> s.dim, start |-> start,
         end |-> IF s.end < start THEN start ELSE IF s.end >= size THEN size ELSE s.end]

-----------------------------------------------------------------------------
(* The shape a reduction leaves, computed twice.                            *)
GetPosDimWithStd(dim, n) == IF dim >= 0 THEN dim ELSE dim + (IF n <= 0 THEN 1 ELSE n)
\* The dimensions in drop become 1, or go.
Dropped(self, drop, keepDim) ==
    IF keepDim THEN [i \in DOMAIN self |-> IF i - 1 \in drop THEN 1 ELSE self[i]]
    ELSE LET left[i \in 0 .. Len(self)] ==
                 IF i = 0 THEN <<>>
                 ELSE IF i - 1 \in drop THEN left[i - 1] ELSE Append(left[i - 1], self[i])
         IN  left[Len(self)]
\* The places marked in an array of flags.
Marked(length, axes) == {i \in 0 .. length - 1 : \E k \in DOMAIN axes : axes[k] = i}
ExpectShapeInferWithDimMask(self, dims, keepDim) ==
    LET axes == [k \in DOMAIN dims |-> GetPosDimWithStd(dims[k], Len(self))]
    IN  Dropped(self, IF dims = <<>> THEN 0 .. MAX_MASK_LEN64 - 1 ELSE Marked(MAX_MASK_LEN64, axes), keepDim)
ReduceShapeGetWithVar(self, dims, keepDim) ==
    LET axes == [k \in DOMAIN dims |-> IF dims[k] < 0 THEN dims[k] + Len(self) ELSE dims[k]]
    IN  IF dims # <<>> THEN Dropped(self, Marked(MAX_SUPPORT_DIMS_NUMS, axes), keepDim)
        ELSE IF keepDim THEN [i \in DOMAIN self |-> 1] ELSE <<>>
CalcShapeProdStdAndVarMean(self, dims) ==
    IF self = <<>> THEN 1
    ELSE Elements(IF dims = <<>> THEN self ELSE [i \in DOMAIN dims |-> DimOf(self, dims[i])])
Outside == -1   \* a negative dimension indexes the shape as it is
CalcDimWithVar(self) == [i \in DOMAIN self |-> i - 1]

\* NumPy's rule, external; the shapes do broadcast.
Broadcasts(a, b) == \A i \in 1 .. Min({Len(a), Len(b)}) :
    LET x == a[Len(a) + 1 - i] y == b[Len(b) + 1 - i] IN x = y \/ x = 1 \/ y = 1
BroadcastInferShape(a, b) ==
    LET at(s, i, n) == IF i > n - Len(s) THEN s[i - (n - Len(s))] ELSE 1
        n == Max({Len(a), Len(b)})
    IN  [i \in 1 .. n |-> IF at(a, i, n) = 1 THEN at(b, i, n) ELSE at(a, i, n)]
CheckBroadcastLogAddExp(self, other, out) ==
    Broadcasts(self, other) /\ out = BroadcastInferShape(self, other)

-----------------------------------------------------------------------------
(* More dimensions than kernels support are made one, and back.             *)
GetTensorShapeActivation(x) == x
ReshapeLongTensorActivation(x, originalDimSize, valuePerm) ==
    IF originalDimSize = Len(x) /\ Len(x) <= MAX_SUPPORT_DIMS_NUMS THEN x ELSE valuePerm
ReshapeSelfValueGetActivation(self) ==
    IF Len(self) > MAX_SUPPORT_DIMS_NUMS
    THEN ReshapeLongTensorActivation(self, Len(self), <<Elements(self)>>) ELSE self

(* Filling an output: the shape that is filled, unless an allocation fails. *)
NotFilled   == <<-1>>
UnknownFill == <<-2>>
FillTensorGetTmpDim(out) == IF out = <<>> THEN <<1>> ELSE out
FillTensorWithFalseValueWithInf(out, fails) ==
    IF fails \cap {"dims", "shape", "value", "fill"} # {} THEN NotFilled ELSE FillTensorGetTmpDim(out)
FillScalarGetShapeValue(out) == out
CheckFillScalarShapeStdAndVar(out, fails) ==
    IF fails # {} THEN NotFilled ELSE FillScalarGetShapeValue(out)
\* It does not see that dims or value are missing; what Fill then does is not known.
CheckFillScalarLoss(out, fails) ==
    IF fails \cap {"shape", "fill", "copy"} # {} THEN NotFilled
    ELSE IF fails # {} THEN UnknownFill ELSE <<1>>

-----------------------------------------------------------------------------
Answer(q) ==
    CASE q.helper = "present"  -> CheckNotNullTensors(q.args)
      [] q.helper = "shapes"   ->
           <<CheckSameShape1In1Out(q.self, q.out), CheckShapeCumMinMax(q.self, q.out, q.third),
             CheckSameShapeNotlimit1In1Out(q.self, q.out), CheckShapeNotlimitDim1In1Out(q.self),
             Len(q.self) = Len(q.out) /\ CheckSizeLoop(q.self, q.out),
             CheckBroadcastLogAddExp(q.self, q.third, q.out)>>
      [] q.helper = "types"    ->
           LET list == GetDtypeSupportListV1(q.soc, q.l1, q.l2) IN
           <<CheckDtypeValid1In1Out(q.self, q.out, list, list),
             CheckDtypeValid1In1OutAttr(q.self, q.third, q.out, list, list, list),
             CheckDtypeValid1In1OutMatch(q.self, q.out, q.third, q.third, list),
             CheckDtypeValidActivation(q.soc, q.self, q.out, GetDtypeSupportListV3(q.soc, q.l1, q.l2)),
             CheckPromoteTypeGeluBackward(q.soc, q.out, q.self, q.l1),
             CheckDtypeValidMseLoss(q.soc, q.self, q.third, q.out, q.l1, q.l2),
             CheckDtypeValid1Out1In(q.out, q.self)>>
      [] q.helper = "reduction" -> CheckReductionMseLoss(q.reduction, 2, 0)
      [] q.helper = "avgPool"  ->
           <<CheckArrayDataAvgPoolBackWard(q.kernel, q.stride, q.padding),
             CheckPaddingValidAvgPool2D(q.kernel, q.padding)>>
      [] q.helper = "unpool"   ->
           CheckInpuNullTensorMaxUnPool3D(q.self)
             /\ CheckIntArrayShapeMaxUnPool3D(q.self, q.outputSize, q.stride, q.padding)
      [] q.helper = "upsample" -> CheckUpsampleShape(q.gradOut, q.outputSize, q.inputSize)
      [] q.helper = "slice"    ->
           CalculateValuesSliceLower(q.self, CalculateValuesSliceUpper(q.self, q.slice))
      [] q.helper = "dim"      ->
           <<CheckDimValueWithUnique(q.self, q.dim), GetPosDimWithStd(q.dim, Len(q.self))>>
      [] q.helper = "reduce"   ->
           <<ExpectShapeInferWithDimMask(q.self, q.dims, q.keepDim),
             ReduceShapeGetWithVar(q.self, q.dims, q.keepDim),
             IF \E i \in DOMAIN q.dims : q.dims[i] < 0 THEN Outside
             ELSE CalcShapeProdStdAndVarMean(q.self, q.dims),
             ReduceShapeGetWithVar(q.self, CalcDimWithVar(q.self), q.keepDim)>>
      [] q.helper = "long"     ->
           LET short == ReshapeSelfValueGetActivation(q.self) IN
           <<short, ReshapeLongTensorActivation(short, Len(q.self), GetTensorShapeActivation(q.self))>>
      [] q.helper = "fill"     ->
           <<FillTensorWithFalseValueWithInf(q.self, q.fails), CheckFillScalarShapeStdAndVar(q.self, q.fails),
             CheckFillScalarLoss(q.self, q.fails)>>

LevelTwoInit == question = Unasked /\ answer = Unasked
AskHelper ==
    /\ question = Unasked
    /\ question' \in Questions
    /\ UNCHANGED answer
HelperAnswers ==
    /\ question # Unasked /\ answer = Unasked
    /\ answer' = [helper |-> question.helper, is |-> Answer(question)]
    /\ UNCHANGED question
LevelTwoNext == AskHelper \/ HelperAnswers
LevelTwoSpec == LevelTwoInit /\ [][LevelTwoNext]_levelTwoVars

-----------------------------------------------------------------------------
\* The indices that start and end mean, counted from the end if negative, whatever they are.
SliceMeans(size, s) ==
    LET from(x) == IF x < 0 THEN x + size ELSE x
    IN  {i \in 0 .. size - 1 : from(s.start) <= i /\ i < from(s.end)}
SliceRight(q, a) ==
    LET size == DimOf(q.self, a.dim) IN
    /\ a.dim = q.slice.dim % Len(q.self)
    /\ 0 <= a.start /\ a.start <= a.end /\ a.end <= size
    /\ a.start .. a.end - 1 = SliceMeans(size, q.slice)
DimRight(q, a) == LET n == Max({Len(q.self), 1}) IN a[1] <=> a[2] \in 0 .. n - 1

\* Both inferences leave the same shape; what they drop and what they keep are all the elements.
ReduceRight(q, a) ==
    /\ a[1] = a[2]
    /\ IsInjective(q.dims) /\ a[3] # Outside => Elements(a[1]) * a[3] = Elements(q.self)
    /\ Elements(a[4]) = 1 /\ (q.keepDim => Len(a[4]) = Len(q.self))

\* Of accepted pooling, every window of every input holds a cell of it.
WindowsSee(k, s, p, size) ==
    \A o \in 0 .. (size + (2 * p) - k) \div s :
        size + (2 * p) >= k => (o * s) - p < size /\ (o * s) - p + k > 0
AvgPoolRight(q, a) ==
    /\ a[1] => \A i \in DOMAIN q.kernel, size \in 1 .. 4 :
                  WindowsSee(q.kernel[i], q.stride[i], q.padding[i], size)
    /\ a[1] => a[2]
\* Every cell of the input can go to a place of its own.
UnpoolRight(q, a) ==
    a => Elements(SubSeq(q.self, Len(q.self) - 2, Len(q.self))) \in 1 .. Elements(q.outputSize)

\* BF16 is taken only where the chip has it; the check whose list is the same for every chip
\* takes it anywhere, and says nothing else of the chip.
TypesRight(q, a) == "BF16" \in {q.self, q.out} /\ ~From910BTo910E(q.soc) =>
                      ~a[1] /\ ~a[2] /\ ~a[3] /\ ~a[4] /\ ~a[6]
ShapesRight(q, a) == (a[1] <=> a[3] /\ a[4]) /\ (a[2] => a[1]) /\ (a[3] <=> a[5])
                       /\ (a[3] /\ q.self = q.third => a[6])
LongRight(q, a) ==
    Len(a[1]) <= MAX_SUPPORT_DIMS_NUMS /\ Elements(a[1]) = Elements(q.self) /\ a[2] = q.self
FillRight(q, a) ==
    /\ \A i \in {1, 2} : a[i] # NotFilled => Elements(a[i]) = Elements(q.self)
    /\ a[3] \notin {NotFilled, UnknownFill} /\ Elements(q.self) = 1 => Elements(a[3]) = Elements(q.self)

\* What a helper answers agrees with an independent account of it: a slice's bounds with the
\* indices its start and end mean, the two inferences of a reduced shape with each other and with
\* the number of elements reduced, accepted pooling with windows that see their input, and so on.
AnswersMatchReference ==
    answer # Unasked =>
        LET q == question a == answer.is IN
        CASE q.helper = "slice"   -> SliceRight(q, a)
          [] q.helper = "dim"     -> DimRight(q, a)
          [] q.helper = "reduce"  -> ReduceRight(q, a)
          [] q.helper = "avgPool" -> AvgPoolRight(q, a)
          [] q.helper = "unpool"  -> UnpoolRight(q, a)
          [] q.helper = "types"   -> TypesRight(q, a)
          [] q.helper = "shapes"  -> ShapesRight(q, a)
          [] q.helper = "long"    -> LongRight(q, a)
          [] q.helper = "fill"    -> FillRight(q, a)
          [] OTHER                -> TRUE
=============================================================================
