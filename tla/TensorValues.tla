---------------------------- MODULE TensorValues ----------------------------
(***************************************************************************)
(* The mathematical meaning of the tensor operations of rxla-core, as      *)
(* their documentation in ops.rs, indexing.rs, convolution.rs,             *)
(* transposed_convolution.rs, pooling.rs and attention.rs states it.       *)
(*                                                                         *)
(* A tensor is its dimensions and its elements in row-major order.  F32    *)
(* arithmetic is arithmetic of the field of P elements (exact, so that an  *)
(* identity that holds up to rounding holds here as an equality) ordered   *)
(* by the representative nearest to zero; I32 elements are integers.       *)
(* Axes count from 1, positions along an axis from 0.                      *)
(***************************************************************************)
EXTENDS Integers, Sequences, FiniteSets

P == 31
Mod(x) == x % P
Signed(x) == IF x > P \div 2 THEN x - P ELSE x

Tuple(f, n) == SubSeq(f, 1, n)     \* the function f on 1..n as a sequence

Inverses == Tuple([i \in 1..P |-> IF i = 1 THEN 0 ELSE CHOOSE y \in 1..(P - 1) : ((i - 1) * y) % P = 1], P)
Exponentials == Tuple([i \in 1..P |-> <<1, 2, 4, 8, 16>>[(Signed(i - 1) % 5) + 1]], P)

Inv(x) == Inverses[x + 1]
Div(x, y) == Mod(x * Inv(y))
Half == 16                          \* the element with 2 * Half = 1
Exp(x) == Exponentials[x + 1]       \* Exp(-x) = 1 / Exp(x), never 0 or -1
(* Functions whose only property of interest is which derivative the reverse
   rules give them: any injective function does. *)
Log(x) == Mod(7 * x + 3)
Log1p(x) == Mod(9 * x + 4)
Sin(x) == Mod(5 * x * x + x)
Cos(x) == Mod(3 * x * x + 1)
Sqrt(x) == Mod(11 * x + 2)
Rsqrt(x) == Mod(13 * x + 5)
Erf(x) == Mod(6 * x * x * x)
ErfSlope == 5                       \* 2 over the square root of pi
Logistic(x) == Inv(Mod(1 + Exp(Mod(-x))))
Tanh(x) == LET e == Mod(Exp(x) * Exp(x)) IN Div(Mod(e - 1), Mod(e + 1))

Clamp(x, low, high) == IF x < low THEN low ELSE IF x > high THEN high ELSE x
Greatest(x, y) == IF Signed(x) >= Signed(y) THEN x ELSE y
Least(x, y) == IF Signed(x) <= Signed(y) THEN x ELSE y
Mask(b) == IF b THEN 1 ELSE 0

(***************************************************************************)
(* Positions and tabulated tensors.                                        *)
(***************************************************************************)
RECURSIVE ProductFrom(_, _), SumBetween(_, _, _)
ProductFrom(dims, i) == IF i > Len(dims) THEN 1 ELSE dims[i] * ProductFrom(dims, i + 1)
(* Sums and the other long recursions go by halves: TLC's stack is small. *)
SumBetween(f, i, j) ==
    IF i > j THEN 0 ELSE IF i = j THEN f[i] ELSE LET m == (i + j) \div 2 IN SumBetween(f, i, m) + SumBetween(f, m + 1, j)
SumTo(f, n) == SumBetween(f, 1, n)
Cells(dims) == ProductFrom(dims, 1)
Strides(dims) == Tuple([i \in 1..Len(dims) |-> ProductFrom(dims, i + 1)], Len(dims))
PositionOf(dims, strides, k) == Tuple([i \in 1..Len(dims) |-> ((k - 1) \div strides[i]) % dims[i]], Len(dims))
Offset(dims, p) == 1 + (LET s == Strides(dims) IN SumTo([i \in 1..Len(dims) |-> p[i] * s[i]], Len(dims)))

T(dims, val) == [dims |-> dims, val |-> val]
At(t, p) == t.val[Offset(t.dims, p)]
Tabulate(dims, F(_)) ==
    LET s == Strides(dims)
    IN  T(dims, Tuple([k \in 1..Cells(dims) |-> F(PositionOf(dims, s, k))], Cells(dims)))
(* The sum of F over the positions of a box. *)
SumOver(dims, F(_)) ==
    LET s == Strides(dims)
    IN  Mod(SumTo([k \in 1..Cells(dims) |-> F(PositionOf(dims, s, k))], Cells(dims)))
Map(t, F(_)) == T(t.dims, Tuple([k \in 1..Len(t.val) |-> F(t.val[k])], Len(t.val)))
Map2(t, u, F(_, _)) == T(t.dims, Tuple([k \in 1..Len(t.val) |-> F(t.val[k], u.val[k])], Len(t.val)))
Zeros(dims) == T(dims, Tuple([k \in 1..Cells(dims) |-> 0], Cells(dims)))

Drop(s, i) == SubSeq(s, 1, i - 1) \o SubSeq(s, i + 1, Len(s))
Put(s, i, x) == SubSeq(s, 1, i - 1) \o x \o SubSeq(s, i, Len(s))
Within(p, dims) == \A i \in 1..Len(dims) : p[i] >= 0 /\ p[i] < dims[i]
AtOr0(t, p) == IF Within(p, t.dims) THEN At(t, p) ELSE 0
=============================================================================
