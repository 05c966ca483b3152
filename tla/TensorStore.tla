------------------------------ MODULE TensorStore ------------------------------
(***************************************************************************)
(* The tensor modality (verisim-tensor): tensors with a shape and their    *)
(* data in row-major order, element-wise maps and reductions along one     *)
(* axis.  Elements are small integers; a mean keeps the sum and counts the *)
(* divisor apart (div), so that it stays exact.  The arithmetic of ndarray *)
(* is external; the layout it works on is the model's.                     *)
(***************************************************************************)
EXTENDS Integers, Sequences, SequencesExt, FiniteSets, FiniteSetsExt

CONSTANTS TensorIds,
          Shapes,          \* shapes callers submit
          Elements,        \* element values
          MaxLength,       \* longest data callers submit
          MaxTensorOps

VARIABLES tensors,         \* id -> tensor
          tensorOps

tensorVars == <<tensors, tensorOps>>

ReduceOps == {"sum", "mean", "max", "min", "prod"}

Size(shape) == FoldLeft(LAMBDA a, b : a * b, 1, shape)

TensorInit == tensors = [t \in {} |-> <<>>] /\ tensorOps = 0

(* Tensor::new: the tensor, or nothing when the data does not fill it.     *)
NewTensor(shape, data) == IF Len(data) = Size(shape) THEN {[shape |-> shape, data |-> data, div |-> 1]} ELSE {}

PutTensor(t, x) ==
    /\ tensorOps < MaxTensorOps
    /\ tensorOps' = tensorOps + 1
    /\ tensors' = [u \in DOMAIN tensors \cup {t} |-> IF u = t THEN x ELSE tensors[u]]

DeleteTensor(t) ==
    /\ tensorOps < MaxTensorOps
    /\ tensorOps' = tensorOps + 1
    /\ tensors' = [u \in DOMAIN tensors \ {t} |-> tensors[u]]

(* map with negation as its operation; like reduce it returns a new tensor *)
(* and the caller may store it.                                            *)
Negated(x) == [x EXCEPT !.data = [i \in DOMAIN x.data |-> -x.data[i]]]

Inner(shape, axis) == Size(SubSeq(shape, axis + 1, Len(shape)))

Lane_ColumnMajor(x, axis, out) ==
    LET n == x.shape[axis]
        in == Inner(x.shape, axis)
        before == Size(SubSeq(x.shape, 1, axis - 1))
        o == out - 1
    IN  [k \in 1..n |-> x.data[(o \div in) + before * (k - 1) + before * n * (o % in) + 1]]

(* The lane of the out-th element of the result: to_ndarray reads the data *)
(* in row-major order, so neighbours on an axis are Inner elements apart.  *)
Lane(x, axis, out) ==
    LET n == x.shape[axis]
        in == Inner(x.shape, axis)
        o == out - 1
    IN  [k \in 1..n |-> x.data[((o \div in) * n + k - 1) * in + (o % in) + 1]]

Infinity == 1000           \* f64::INFINITY, above every element and product

Fold(op, lane) ==
    CASE op \in {"sum", "mean"} -> FoldLeft(LAMBDA a, b : a + b, 0, lane)
      [] op = "prod" -> FoldLeft(LAMBDA a, b : a * b, 1, lane)
      [] op = "max" -> FoldLeft(LAMBDA a, b : IF a > b THEN a ELSE b, -Infinity, lane)
      [] op = "min" -> FoldLeft(LAMBDA a, b : IF a < b THEN a ELSE b, Infinity, lane)

(* What reduce does for an axis in bounds: to_ndarray panics on data that  *)
(* does not fill the shape; the mean of an empty axis has no value and the *)
(* expect on it panics.                                                    *)
Panics(x, axis, op) == Len(x.data) # Size(x.shape) \/ (op = "mean" /\ x.shape[axis] = 0)

Axes(x) == 1..Len(x.shape)

(* The reduced tensor; defined for an axis in bounds and no panic.         *)
Reduce(x, axis, op) ==
    LET shape == RemoveAt(x.shape, axis)
    IN  [shape |-> shape, data |-> [i \in 1..Size(shape) |-> Fold(op, Lane(x, axis, i))],
         div |-> IF op = "mean" THEN x.div * x.shape[axis] ELSE x.div]

TensorNext ==
    \/ \E t \in TensorIds, shape \in Shapes, n \in 0..MaxLength : \E data \in [1..n -> Elements] :
          \E x \in NewTensor(shape, data) : PutTensor(t, x)
    \/ \E t \in TensorIds : DeleteTensor(t)
    \/ \E t \in DOMAIN tensors : PutTensor(t, Negated(tensors[t]))
    \/ \E t \in DOMAIN tensors, op \in ReduceOps : \E axis \in Axes(tensors[t]) :
          ~Panics(tensors[t], axis, op) /\ PutTensor(t, Reduce(tensors[t], axis, op))

-----------------------------------------------------------------------------

(* Reducing over two axes with one operation gives the same tensor in      *)
(* either order: the row-major layout survives each reduction.             *)
ReductionsCommute ==
    \A t \in DOMAIN tensors, op \in ReduceOps : LET x == tensors[t] IN
        \A a, b \in Axes(x) : a < b /\ ~Panics(x, a, op) /\ ~Panics(x, b, op) =>
            Reduce(Reduce(x, b, op), a, op) = Reduce(Reduce(x, a, op), b - 1, op)

(* The maximum of the negated tensor is the negated minimum, for every     *)
(* axis and sign of the data, empty lanes included.                        *)
MaxMinDual ==
    \A t \in DOMAIN tensors : LET x == tensors[t] IN
        \A a \in Axes(x) : ~Panics(x, a, "max") =>
            Reduce(Negated(x), a, "max") = Negated(Reduce(x, a, "min"))

(* A reduction of a stored tensor panics only for the mean of an empty     *)
(* axis, after any sequence of maps and reductions stored back.            *)
PanicsOnlyOnEmptyMean ==
    \A t \in DOMAIN tensors, op \in ReduceOps : \A a \in Axes(tensors[t]) :
        Panics(tensors[t], a, op) => op = "mean" /\ tensors[t].shape[a] = 0
=============================================================================
