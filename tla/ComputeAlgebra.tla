---------------------------- MODULE ComputeAlgebra ----------------------------
(***************************************************************************)
(* The linear-algebra, quaternion and curve routines of                    *)
(* src/src/core/drivers/compute_ops.c, over exact rationals (the first    *)
(* section) in place of float, each next to a reference definition it    *)
(* is checked against for every input of a small set.                      *)
(*                                                                         *)
(* An n x n matrix is a function on (0 .. n-1) \X (0 .. n-1): M[i, j]      *)
(* stands for matrix[i * size + j].  A quaternion is a sequence of four    *)
(* (w, x, y, z), q[k + 1] for quat[k].  core_malloc, declared but not      *)
(* defined in the repository, is taken to succeed, so the early returns   *)
(* on a null temp are left out.                                            *)
(***************************************************************************)
EXTENDS Integers, FiniteSets, TLC

(***************************************************************************)
(* Exact rational arithmetic, the stand-in for the float arithmetic of the *)
(* compute_ops.c routines: a value is a record of a numerator and a        *)
(* positive denominator, always kept in lowest terms, so that two equal    *)
(* rationals are equal records.  Rounding is left out: what is checked is  *)
(* whether a routine computes the right quantity, not its float error.     *)
(***************************************************************************)
AbsInt(n) == IF n < 0 THEN -n ELSE n

\* Euclid's algorithm on natural numbers.
RECURSIVE Gcd(_, _)
Gcd(a, b) == IF b = 0 THEN a ELSE Gcd(b, a % b)

\* The rational n / d in lowest terms, with d > 0 (d # 0).
Frac(n, d) ==
    LET g == Gcd(AbsInt(n), AbsInt(d))
        s == IF d < 0 THEN -1 ELSE 1
    IN [num |-> s * (n \div g), den |-> s * (d \div g)]

QInt(n) == Frac(n, 1)
QZero == QInt(0)
QOne == QInt(1)

QAdd(p, q) == Frac(p.num * q.den + q.num * p.den, p.den * q.den)
QNeg(p) == [num |-> -p.num, den |-> p.den]
QSub(p, q) == QAdd(p, QNeg(q))
QMul(p, q) == Frac(p.num * q.num, p.den * q.den)
\* Defined for q # Zero only.
QDiv(p, q) == Frac(p.num * q.den, p.den * q.num)
QAbs(p) == [num |-> AbsInt(p.num), den |-> p.den]
QLess(p, q) == p.num * q.den < q.num * p.den

\* The square root of a rational in lowest terms is rational exactly when
\* its numerator and denominator are squares.
ISqrt(n) == CHOOSE r \in 0 .. n : r * r = n
IsSquare(p) == p.num >= 0 /\ \E a \in 0 .. p.num, b \in 1 .. p.den :
                                 a * a = p.num /\ b * b = p.den
\* Defined when IsSquare(p).
QSqrt(p) == Frac(ISqrt(p.num), ISqrt(p.den))

-----------------------------------------------------------------------------
Sq(n) == (0 .. n - 1) \X (0 .. n - 1)
QMatrix(A, n) == [p \in Sq(n) |-> QInt(A[p])]
Identity(n) == [p \in Sq(n) |-> IF p[1] = p[2] THEN QOne ELSE QZero]
MatProduct(A, B, n) ==
    [p \in Sq(n) |-> LET RECURSIVE S(_)
                         S(k) == IF k = n THEN QZero
                                 ELSE QAdd(QMul(A[p[1], k], B[k, p[2]]), S(k + 1))
                     IN S(0)]

-----------------------------------------------------------------------------
(* Gaussian elimination with partial pivoting, as the determinant and     *)
(* inverse routines run it.                                                *)

\* The pivot search: max_row starts at i and moves to a later row j only
\* when |T[j, i]| > max_val, so the first of the greatest rows wins.
RECURSIVE PivotFrom(_, _, _, _, _)
PivotFrom(T, n, i, j, best) ==
    IF j >= n THEN best
    ELSE PivotFrom(T, n, i, j + 1,
                   IF QLess(QAbs(T[best, i]), QAbs(T[j, i])) THEN j ELSE best)
PivotRow(T, n, i) == PivotFrom(T, n, i, i + 1, i)

SwapRows(T, a, b) ==
    [p \in DOMAIN T |-> T[IF p[1] = a THEN b ELSE IF p[1] = b THEN a ELSE p[1], p[2]]]

\* Row i divided by the pivot.
NormalizeRow(T, i, pivot) ==
    [p \in DOMAIN T |-> IF p[1] = i THEN QDiv(T[p], pivot) ELSE T[p]]

\* Every row j # i of X less factor times row i of X, where the factor
\* temp[j * size + i] is read from F before the k loop.
Eliminate(X, F, i) ==
    [p \in DOMAIN X |-> IF p[1] = i THEN X[p]
                        ELSE QSub(X[p], QMul(F[p[1], i], X[i, p[2]]))]

\* core_compute_matrix_determinant: det flips sign on a swap, is
\* multiplied by each pivot, and is 0 as soon as a pivot is 0.
RECURSIVE DetLoop(_, _, _, _)
DetLoop(T, n, det, i) ==
    IF i >= n THEN det
    ELSE LET r == PivotRow(T, n, i)
             S == SwapRows(T, i, r)
             pivot == S[i, i]
             d == IF r # i THEN QNeg(det) ELSE det
         IN IF pivot = QZero THEN QZero
            ELSE LET N == NormalizeRow(S, i, pivot)
                 IN DetLoop(Eliminate(N, N, i), n, QMul(d, pivot), i + 1)
MatrixDeterminant(M, n) == DetLoop(M, n, QOne, 0)

\* core_compute_matrix_inverse: the same elimination applied to result,
\* which starts as the identity.  There is no test of the pivot: a zero
\* pivot divides by zero and every value after it is inf or nan.
RECURSIVE InvLoop(_, _, _, _)
InvLoop(T, R, n, i) ==
    IF i >= n THEN R
    ELSE LET r == PivotRow(T, n, i)
             S == SwapRows(T, i, r)
             pivot == S[i, i]
         IN IF pivot = QZero THEN "nonfinite"
            ELSE LET N == NormalizeRow(S, i, pivot)
                     NR == NormalizeRow(SwapRows(R, i, r), i, pivot)
                 IN InvLoop(Eliminate(N, N, i), Eliminate(NR, N, i), n, i + 1)
MatrixInverse(M, n) == InvLoop(M, Identity(n), n, 0)

\* The reference: Leibniz's formula over the permutations of the columns.
Inversions(s, n) == Cardinality({p \in Sq(n) : p[1] < p[2] /\ s[p[1]] > s[p[2]]})
LeibnizDet(A, n) ==
    LET RECURSIVE Prod(_, _)
        Prod(s, i) == IF i = n THEN 1 ELSE A[i, s[i]] * Prod(s, i + 1)
        RECURSIVE SumOver(_)
        SumOver(P) == IF P = {} THEN 0
                      ELSE LET s == CHOOSE x \in P : TRUE
                           IN (-1) ^ Inversions(s, n) * Prod(s, 0) + SumOver(P \ {s})
    IN SumOver(Permutations(0 .. n - 1))

-----------------------------------------------------------------------------
(* Quaternions.                                                            *)

\* core_compute_quaternion_mul: the product written out component by
\* component.
QuaternionMul(a, b) ==
    <<QSub(QSub(QSub(QMul(a[1], b[1]), QMul(a[2], b[2])), QMul(a[3], b[3])), QMul(a[4], b[4])),
      QSub(QAdd(QAdd(QMul(a[1], b[2]), QMul(a[2], b[1])), QMul(a[3], b[4])), QMul(a[4], b[3])),
      QAdd(QAdd(QSub(QMul(a[1], b[3]), QMul(a[2], b[4])), QMul(a[3], b[1])), QMul(a[4], b[2])),
      QAdd(QSub(QAdd(QMul(a[1], b[4]), QMul(a[2], b[3])), QMul(a[3], b[2])), QMul(a[4], b[1]))>>

QuaternionConjugate(q) == <<q[1], QNeg(q[2]), QNeg(q[3]), QNeg(q[4])>>

QNorm2(q) == QAdd(QAdd(QMul(q[1], q[1]), QMul(q[2], q[2])),
                  QAdd(QMul(q[3], q[3]), QMul(q[4], q[4])))

\* core_compute_quaternion_normalize: scaled by 1 / length when the
\* length is positive, else left alone.
QuaternionNormalize(q) ==
    IF QNorm2(q) = QZero THEN q
    ELSE LET inv == QDiv(QOne, QSqrt(QNorm2(q))) IN [k \in 1 .. 4 |-> QMul(q[k], inv)]

\* The reference product: bilinear over the basis 1, i, j, k with
\* i^2 = j^2 = k^2 = ijk = -1.  Unit[a][b] is <<sign, index>> of e_a e_b.
Unit == <<<< <<1, 1>>, <<1, 2>>, <<1, 3>>, <<1, 4>> >>,
          << <<1, 2>>, <<-1, 1>>, <<1, 4>>, <<-1, 3>> >>,
          << <<1, 3>>, <<-1, 4>>, <<-1, 1>>, <<1, 2>> >>,
          << <<1, 4>>, <<1, 3>>, <<-1, 2>>, <<-1, 1>> >>>>
HamiltonProduct(a, b) ==
    [c \in 1 .. 4 |->
        LET terms == {<<x, y>> \in (1 .. 4) \X (1 .. 4) : Unit[x][y][2] = c}
            RECURSIVE S(_)
            S(T) == IF T = {} THEN QZero
                    ELSE LET t == CHOOSE u \in T : TRUE
                         IN QAdd(QMul(QInt(Unit[t[1]][t[2]][1]),
                                      QMul(a[t[1]], b[t[2]])), S(T \ {t}))
        IN S(terms)]

\* core_compute_quaternion_to_matrix: the row-major 4x4 rotation matrix,
\* matrix[r * 4 + c] as M[r, c].
QuaternionToMatrix(q) ==
    LET x2 == QMul(q[2], q[2])  y2 == QMul(q[3], q[3])  z2 == QMul(q[4], q[4])
        xy == QMul(q[2], q[3])  xz == QMul(q[2], q[4])  yz == QMul(q[3], q[4])
        wx == QMul(q[1], q[2])  wy == QMul(q[1], q[3])  wz == QMul(q[1], q[4])
        two(v) == QMul(QInt(2), v)
        rot == <<<<QSub(QOne, two(QAdd(y2, z2))), two(QSub(xy, wz)), two(QAdd(xz, wy))>>,
                 <<two(QAdd(xy, wz)), QSub(QOne, two(QAdd(x2, z2))), two(QSub(yz, wx))>>,
                 <<two(QSub(xz, wy)), two(QAdd(yz, wx)), QSub(QOne, two(QAdd(x2, y2)))>>>>
    IN [p \in Sq(4) |-> IF p[1] < 3 /\ p[2] < 3 THEN rot[p[1] + 1][p[2] + 1]
                        ELSE IF p[1] = p[2] THEN QOne ELSE QZero]

\* core_compute_matrix_to_quaternion: Shepperd's method, reading m[k] as
\* M[k \div 4, k % 4], the branch chosen by the trace and then by the
\* largest diagonal element.
MatrixToQuaternion(M) ==
    LET m(k) == M[k \div 4, k % 4]
        trace == QAdd(QAdd(m(0), m(5)), m(10))
        quarter == Frac(1, 4)
        two(v) == QMul(QInt(2), v)
    IN IF QLess(QZero, trace)
       THEN LET s == QDiv(Frac(1, 2), QSqrt(QAdd(trace, QOne))) IN
            <<QDiv(quarter, s), QMul(QSub(m(6), m(9)), s),
              QMul(QSub(m(8), m(2)), s), QMul(QSub(m(1), m(4)), s)>>
       ELSE IF QLess(m(5), m(0)) /\ QLess(m(10), m(0))
       THEN LET s == two(QSqrt(QSub(QSub(QAdd(QOne, m(0)), m(5)), m(10)))) IN
            <<QDiv(QSub(m(6), m(9)), s), QMul(quarter, s),
              QDiv(QAdd(m(1), m(4)), s), QDiv(QAdd(m(8), m(2)), s)>>
       ELSE IF QLess(m(10), m(5))
       THEN LET s == two(QSqrt(QSub(QSub(QAdd(QOne, m(5)), m(0)), m(10)))) IN
            <<QDiv(QSub(m(8), m(2)), s), QDiv(QAdd(m(1), m(4)), s),
              QMul(quarter, s), QDiv(QAdd(m(6), m(9)), s)>>
       ELSE LET s == two(QSqrt(QSub(QSub(QAdd(QOne, m(10)), m(0)), m(5)))) IN
            <<QDiv(QSub(m(1), m(4)), s), QDiv(QAdd(m(8), m(2)), s),
              QDiv(QAdd(m(6), m(9)), s), QMul(quarter, s)>>

\* The reference rotation: column c of the matrix of a unit quaternion q
\* is the vector part of q e q*, e the c-th axis.
RotateAxis(q, c) ==
    HamiltonProduct(HamiltonProduct(q, [k \in 1 .. 4 |-> IF k = c + 2 THEN QOne ELSE QZero]),
                    QuaternionConjugate(q))

-----------------------------------------------------------------------------
(* Bezier curves of one coordinate; control points are a function on      *)
(* 0 .. degree.                                                            *)

\* One round of the de Casteljau loop `for (j = 0; j <= m; j++) temp[j] =
\* (1 - t) * temp[j] + t * temp[j + 1]`: ascending j reads temp[j + 1]
\* before that round has changed it.
CasteljauRound(temp, m, t) ==
    [j \in DOMAIN temp |-> IF j <= m THEN QAdd(QMul(QSub(QOne, t), temp[j]), QMul(t, temp[j + 1]))
                           ELSE temp[j]]
\* Rounds i = from .. last, round i running j up to top - i.
RECURSIVE Casteljau(_, _, _, _, _)
Casteljau(temp, top, t, i, last) ==
    IF i > last THEN temp ELSE Casteljau(CasteljauRound(temp, top - i, t), top, t, i + 1, last)

\* core_compute_bezier_point: rounds 1 .. degree, then temp[0].
BezierPoint(P, degree, t) == Casteljau(P, degree, t, 1, degree)[0]

\* core_compute_bezier_derivative: temp[i] = degree * (P[i+1] - P[i]) for
\* i < degree, rounds 1 .. degree - 1 with j < degree - i, then temp[0].
BezierDerivative(P, degree, t) ==
    LET D == [i \in 0 .. degree - 1 |-> QMul(QInt(degree), QSub(P[i + 1], P[i]))]
    IN Casteljau(D, degree - 1, t, 1, degree - 1)[0]

\* The reference: the Bernstein form sum_i C(n, i) t^i (1 - t)^(n - i) P[i],
\* and its derivative n * sum_i C(n-1, i) t^i (1-t)^(n-1-i) (P[i+1] - P[i]).
RECURSIVE QPow(_, _)
QPow(q, k) == IF k = 0 THEN QOne ELSE QMul(q, QPow(q, k - 1))
Binomial(n, k) == LET RECURSIVE F(_) F(m) == IF m = 0 THEN 1 ELSE m * F(m - 1)
                  IN F(n) \div (F(k) * F(n - k))
Bernstein(P, n, t) ==
    LET RECURSIVE S(_)
        S(i) == IF i > n THEN QZero
                ELSE QAdd(QMul(QMul(QInt(Binomial(n, i)),
                                    QMul(QPow(t, i), QPow(QSub(QOne, t), n - i))), P[i]),
                          S(i + 1))
    IN S(0)
BernsteinDerivative(P, n, t) ==
    QMul(QInt(n), Bernstein([i \in 0 .. n - 1 |-> QSub(P[i + 1], P[i])], n - 1, t))

-----------------------------------------------------------------------------
(* Ray queries.  A point or vector is <<x, y, z>>, v[k + 1] for v[k].  The *)
(* tests fabsf(x) < 1e-6f are taken on integer vertices and directions,    *)
(* where they are x = 0.  An output the routine does not write is "unset". *)

VSub(a, b) == [k \in 1 .. 3 |-> QSub(a[k], b[k])]
Cross(a, b) == <<QSub(QMul(a[2], b[3]), QMul(a[3], b[2])),
                 QSub(QMul(a[3], b[1]), QMul(a[1], b[3])),
                 QSub(QMul(a[1], b[2]), QMul(a[2], b[1]))>>
Dot(a, b) == QAdd(QAdd(QMul(a[1], b[1]), QMul(a[2], b[2])), QMul(a[3], b[3]))
Miss == QNeg(QOne)

\* core_compute_ray_intersect_triangle (Moller-Trumbore): t, u and v, with
\* t = -1 on each of its three early returns.
RayTriangle(O, D, V0, V1, V2) ==
    LET e1 == VSub(V1, V0)
        e2 == VSub(V2, V0)
        h == Cross(D, e2)
        a == Dot(e1, h)
        f == QDiv(QOne, a)
        s == VSub(O, V0)
        u == QMul(f, Dot(s, h))
        q == Cross(s, e1)
        v == QMul(f, Dot(D, q))
    IN CASE a = QZero -> [t |-> Miss, u |-> "unset", v |-> "unset"]
         [] QLess(u, QZero) \/ QLess(QOne, u) -> [t |-> Miss, u |-> u, v |-> "unset"]
         [] QLess(v, QZero) \/ QLess(QOne, QAdd(u, v)) -> [t |-> Miss, u |-> u, v |-> v]
         [] OTHER -> [t |-> QMul(f, Dot(e2, q)), u |-> u, v |-> v]

\* -INFINITY and INFINITY, as "fractions" -1/0 and 1/0: QLess puts them
\* below and above every rational.
NegInf == [num |-> -1, den |-> 0]
PosInf == [num |-> 1, den |-> 0]
NaN == [num |-> 0, den |-> 0]

\* The body of the slab loop of core_compute_ray_intersect_aabb for axis i;
\* done records that the routine has returned (t_min = -1).
SlabStep(O, D, lo, hi, r, i) ==
    IF r.done THEN r
    ELSE IF D[i] = QZero
         THEN IF QLess(O[i], lo[i]) \/ QLess(hi[i], O[i])
              THEN [r EXCEPT !.tmin = Miss, !.done = TRUE]
              ELSE r
         ELSE LET inv == QDiv(QOne, D[i])
                  a1 == QMul(QSub(lo[i], O[i]), inv)
                  a2 == QMul(QSub(hi[i], O[i]), inv)
                  t1 == IF QLess(a2, a1) THEN a2 ELSE a1
                  t2 == IF QLess(a2, a1) THEN a1 ELSE a2
                  mn == IF QLess(r.tmin, t1) THEN t1 ELSE r.tmin
                  mx == IF QLess(t2, r.tmax) THEN t2 ELSE r.tmax
              IN IF QLess(mx, mn) THEN [tmin |-> Miss, tmax |-> mx, done |-> TRUE]
                 ELSE [tmin |-> mn, tmax |-> mx, done |-> FALSE]

\* for (int i = 0; i < 3; i++), from t_min = -INFINITY, t_max = INFINITY.
RECURSIVE SlabLoop(_, _, _, _, _, _)
SlabLoop(O, D, lo, hi, r, i) ==
    IF i > 3 THEN r ELSE SlabLoop(O, D, lo, hi, SlabStep(O, D, lo, hi, r, i), i + 1)
RayAabb(O, D, lo, hi) ==
    SlabLoop(O, D, lo, hi, [tmin |-> NegInf, tmax |-> PosInf, done |-> FALSE], 1)

\* core_compute_ray_intersect_sphere (done: its early return), for a
\* direction other than 0 (a zero
\* direction makes a = b = 0 and divides 0 by 0) and a discriminant that is
\* negative or the square of a rational, where sqrtf is exact.
SphereDisc(O, D, C, rad) ==
    LET oc == VSub(O, C)
    IN QSub(QMul(QMul(QInt(2), Dot(oc, D)), QMul(QInt(2), Dot(oc, D))),
            QMul(QInt(4), QMul(Dot(D, D), QSub(Dot(oc, oc), QMul(rad, rad)))))
RaySphere(O, D, C, rad) ==
    LET a == Dot(D, D)
        b == QMul(QInt(2), Dot(VSub(O, C), D))
        disc == SphereDisc(O, D, C, rad)
        r1 == QDiv(QSub(QNeg(b), QSqrt(disc)), QMul(QInt(2), a))
        r2 == QDiv(QAdd(QNeg(b), QSqrt(disc)), QMul(QInt(2), a))
    IN IF QLess(disc, QZero) THEN [tmin |-> Miss, tmax |-> "unset", done |-> TRUE]
       ELSE IF QLess(r2, r1) THEN [tmin |-> r2, tmax |-> r1, done |-> FALSE]
       ELSE [tmin |-> r1, tmax |-> r2, done |-> FALSE]

-----------------------------------------------------------------------------
(* The B-spline routines of one coordinate over knots K and control        *)
(* points P, both functions on 0 .. 2 * degree (every index the routines   *)
(* can read), and the fractal noise.                                       *)

\* The span search `while (i < degree && t >= knots[i + 1]) i++`.
KnotSpan(K, degree, t) ==
    LET RECURSIVE From(_)
        From(i) == IF i < degree /\ ~QLess(t, K[i + 1]) THEN From(i + 1) ELSE i
    IN From(0)

\* One round k of `for (j = top; j >= k; j--) temp[j] = (1 - alpha) *
\* temp[j - 1] + alpha * temp[j]` with alpha = (t - knots[i + j - k]) /
\* (knots[i + j] - knots[i + j - k]): descending j reads temp[j - 1] before
\* the round has changed it.
DeBoorRound(temp, K, i, k, top, t) ==
    [j \in DOMAIN temp |->
        IF k <= j /\ j <= top
        THEN LET alpha == QDiv(QSub(t, K[i + j - k]), QSub(K[i + j], K[i + j - k]))
             IN QAdd(QMul(QSub(QOne, alpha), temp[j - 1]), QMul(alpha, temp[j]))
        ELSE temp[j]]
RECURSIVE DeBoor(_, _, _, _, _, _, _)
DeBoor(temp, K, i, top, t, k, last) ==
    IF k > last THEN temp ELSE DeBoor(DeBoorRound(temp, K, i, k, top, t), K, i, top, t, k + 1, last)

\* core_compute_bspline_point: temp = control_points[i .. i + degree],
\* rounds 1 .. degree, then temp[degree].
BsplinePoint(P, K, degree, t) ==
    LET i == KnotSpan(K, degree, t)
    IN DeBoor([j \in 0 .. degree |-> P[i + j]], K, i, degree, t, 1, degree)[degree]

\* core_compute_bspline_derivative: temp[j] = degree * (P[i+j+1] - P[i+j]) /
\* (K[i+j+1] - K[i+j]) when that knot gap is above 1e-6 (else 0), rounds
\* 1 .. degree - 1 with j from degree - 1 down, then temp[degree - 1].
BsplineDerivative(P, K, degree, t) ==
    LET i == KnotSpan(K, degree, t)
        gap(j) == QSub(K[i + j + 1], K[i + j])
        D == [j \in 0 .. degree - 1 |->
                IF QLess(QZero, gap(j))
                THEN QDiv(QMul(QInt(degree), QSub(P[i + j + 1], P[i + j])), gap(j))
                ELSE QZero]
    IN DeBoor(D, K, i, degree - 1, t, 1, degree - 1)[degree - 1]

\* core_compute_perlin_noise: a stub that returns 0.
PerlinNoise(x, y, z) == QZero

\* core_compute_fractal_noise: octaves of Perlin noise at doubling
\* frequency and amplitude scaled by persistence, total / max_value, which
\* is 0 / 0, a NaN, when the amplitudes sum to 0.
FractalNoise(x, y, z, octaves, persistence) ==
    LET RECURSIVE Oct(_, _, _, _, _)
        Oct(i, total, freq, amp, maxv) ==
            IF i >= octaves THEN <<total, maxv>>
            ELSE Oct(i + 1,
                     QAdd(total, QMul(PerlinNoise(QMul(x, freq), QMul(y, freq), QMul(z, freq)), amp)),
                     QMul(freq, QInt(2)), QMul(amp, persistence), QAdd(maxv, amp))
        r == Oct(0, QZero, QOne, QOne, QZero)
    IN IF r[2] = QZero THEN NaN ELSE QDiv(r[1], r[2])

-----------------------------------------------------------------------------
(* The checks, each over a small set of inputs: integer matrices, the      *)
(* quaternions of 0/1 components, the 24 Hurwitz unit quaternions, and     *)
(* control points of small integers at a few parameters.                   *)

AlgebraOps == {"mdet", "minv", "qmul", "qnormalize", "q2m", "m2q", "bezier", "bezierd",
               "raytri", "rayaabb", "raysphere", "bspline",
               "raybehind", "bsplinehull", "bsplined", "noisenan"}

Mats(n, E) == [Sq(n) -> E]
MatrixCases == {<<2, -1 .. 1>>, <<3, 0 .. 1>>}
Quats(S) == [1 .. 4 -> S]
Halves == {QZero, QOne, QNeg(QOne), Frac(1, 2), Frac(-1, 2)}
UnitQuats == {q \in Quats(Halves) : QNorm2(q) = QOne}
QNegate(q) == [k \in 1 .. 4 |-> QNeg(q[k])]
CurveParams == {QZero, Frac(1, 3), Frac(1, 2), QOne}
Controls(n) == [0 .. n -> {QZero, QOne, QInt(3)}]

\* Ray inputs built from their answer: a point V0 + u e1 + v e2 of the
\* triangle's plane, reached at parameter t from O = point - t D.
QLeq(p, q) == ~QLess(q, p)
Vec(x, y, z) == <<QInt(x), QInt(y), QInt(z)>>
RayAt(O, D, t) == [k \in 1 .. 3 |-> QAdd(O[k], QMul(t, D[k]))]
Dirs == {Vec(x, y, z) : x, y, z \in -1 .. 1}
Triangles == {<<Vec(0, 0, 0), Vec(2, 0, 0), Vec(0, 2, 0)>>, <<Vec(1, 0, 1), Vec(1, 2, 0), Vec(0, 0, 2)>>}
Bary == {Frac(-1, 2), QZero, Frac(1, 2), QOne}
RayParams == {Miss, Frac(-1, 2), QZero, QOne, QInt(2)}
InTriangle(u, v) == QLeq(QZero, u) /\ QLeq(QZero, v) /\ QLeq(QAdd(u, v), QOne)
TriangleCase(T, D, u, v, t) ==
    LET P == [k \in 1 .. 3 |-> QAdd(QAdd(T[1][k], QMul(u, QSub(T[2][k], T[1][k]))),
                                   QMul(v, QSub(T[3][k], T[1][k])))]
    IN [O |-> RayAt(P, D, QNeg(t)), r |-> RayTriangle(RayAt(P, D, QNeg(t)), D, T[1], T[2], T[3])]
Boxes == {<<Vec(0, 0, 0), Vec(1, 1, 1)>>, <<Vec(0, 0, 0), Vec(2, 1, 1)>>}
Origins == {Vec(x, y, z) : x, y, z \in -1 .. 2}
AabbDirs == {Vec(x, y, z) : x, y, z \in {-1, 0, 2}}
\* Every entry or exit parameter of these boxes is a multiple of 1/2.
Halfs == {Frac(k, 2) : k \in -8 .. 8}
InBox(p, B) == \A k \in 1 .. 3 : QLeq(B[1][k], p[k]) /\ QLeq(p[k], B[2][k])
\* The squared distance from C to the line, times |D|^2.
LineDist2(O, D, C) == QSub(QMul(Dot(VSub(O, C), VSub(O, C)), Dot(D, D)),
                          QMul(Dot(VSub(O, C), D), Dot(VSub(O, C), D)))
OnSphere(p, C, rad) == Dot(VSub(p, C), VSub(p, C)) = QMul(rad, rad)
SphereCases == {c \in {<<Vec(x, y, z), D, rad>> : x, y, z \in -2 .. 2, D \in Dirs \ {Vec(0, 0, 0)},
                                                  rad \in {QOne, QInt(2)}} :
                    LET d == SphereDisc(c[1], c[2], Vec(0, 0, 0), c[3])
                    IN QLess(d, QZero) \/ IsSquare(d)}

\* The reference of the B-spline point: the Lagrange polynomial through the
\* points (X[m], Y[m]), m = 0 .. n.
LagrangeBasis(X, n, m, t) ==
    LET RECURSIVE Pr(_)
        Pr(l) == IF l > n THEN QOne
                 ELSE IF l = m THEN Pr(l + 1)
                 ELSE QMul(QDiv(QSub(t, X[l]), QSub(X[m], X[l])), Pr(l + 1))
    IN Pr(0)
Lagrange(X, Y, n, t) ==
    LET RECURSIVE Sm(_)
        Sm(m) == IF m > n THEN QZero ELSE QAdd(QMul(Y[m], LagrangeBasis(X, n, m, t)), Sm(m + 1))
    IN Sm(0)
\* Uniform knots and knots at the squares.
KnotVectors(d) == {[m \in 0 .. 2 * d |-> QInt(m)], [m \in 0 .. 2 * d |-> QInt(m * m)]}
SplineControls(d) == [0 .. 2 * d -> {QZero, QOne}]
\* The knots and the midpoints between them.
SplineParams(K, d) == {K[m] : m \in 0 .. 2 * d}
                        \cup {QDiv(QAdd(K[m], K[m + 1]), QInt(2)) : m \in 0 .. 2 * d - 1}
\* The smallest and largest control point.
QMinOf(S) == CHOOSE x \in S : \A y \in S : QLeq(x, y)
QMaxOf(S) == CHOOSE x \in S : \A y \in S : QLeq(y, x)

\* Whether op computes what its reference says on every input of its set:
\* the determinant Leibniz's value; the inverse, when the determinant is
\* not 0, a matrix whose product with the input is the identity; the
\* product the Hamilton product; a normalized quaternion of norm 1; the
\* rotation matrix of a unit quaternion the map v |-> q v q*; the
\* quaternion of that matrix q or -q; the curve point and derivative
\* their Bernstein forms.
AlgebraOk(op) ==
    CASE op = "mdet" -> \A c \in MatrixCases : \A A \in Mats(c[1], c[2]) :
                            MatrixDeterminant(QMatrix(A, c[1]), c[1]) = QInt(LeibnizDet(A, c[1]))
      [] op = "minv" -> \A c \in MatrixCases : \A A \in Mats(c[1], c[2]) :
                            LeibnizDet(A, c[1]) # 0 =>
                                MatProduct(QMatrix(A, c[1]), MatrixInverse(QMatrix(A, c[1]), c[1]), c[1])
                                    = Identity(c[1])
      [] op = "qmul" -> \A a, b \in Quats({QZero, QOne, QNeg(QOne)}) :
                            QuaternionMul(a, b) = HamiltonProduct(a, b)
      [] op = "qnormalize" -> \A q \in Quats({QZero, QOne, QInt(2)}) :
                                  IsSquare(QNorm2(q)) /\ QNorm2(q) # QZero =>
                                      QNorm2(QuaternionNormalize(q)) = QOne
      [] op = "q2m" -> \A q \in UnitQuats : \A r, c \in 0 .. 2 :
                           QuaternionToMatrix(q)[r, c] = RotateAxis(q, c)[r + 2]
      [] op = "m2q" -> \A q \in UnitQuats :
                           MatrixToQuaternion(QuaternionToMatrix(q)) \in {q, QNegate(q)}
      [] op = "bezier" -> \A n \in 0 .. 3 : \A P \in Controls(n), t \in CurveParams :
                              BezierPoint(P, n, t) = Bernstein(P, n, t)
      [] op = "bezierd" -> \A n \in 1 .. 3 : \A P \in Controls(n), t \in CurveParams :
                               BezierDerivative(P, n, t) = BernsteinDerivative(P, n, t)
      [] op = "raytri" -> \A T \in Triangles, D \in Dirs, u, v \in Bary, t \in RayParams :
                              LET r == TriangleCase(T, D, u, v, t).r
                              IN IF Dot(D, Cross(VSub(T[2], T[1]), VSub(T[3], T[1]))) = QZero
                                    \/ ~InTriangle(u, v)
                                 THEN r.t = Miss
                                 ELSE r.t = t /\ (r.t # Miss => r.u = u /\ r.v = v)
      [] op = "rayaabb" -> \A B \in Boxes, O \in Origins, D \in AabbDirs :
                               LET r == RayAabb(O, D, B[1], B[2])
                               IN \A t \in Halfs :
                                      InBox(RayAt(O, D, t), B)
                                          <=> ~r.done /\ QLeq(r.tmin, t) /\ QLeq(t, r.tmax)
      [] op = "raysphere" -> \A c \in SphereCases :
                                 LET r == RaySphere(c[1], c[2], Vec(0, 0, 0), c[3])
                                     far == QLess(QMul(QMul(c[3], c[3]), Dot(c[2], c[2])),
                                                  LineDist2(c[1], c[2], Vec(0, 0, 0)))
                                 IN IF r.done THEN far
                                    ELSE /\ ~far
                                         /\ OnSphere(RayAt(c[1], c[2], r.tmin), Vec(0, 0, 0), c[3])
                                         /\ OnSphere(RayAt(c[1], c[2], r.tmax), Vec(0, 0, 0), c[3])
                                         /\ QLeq(r.tmin, r.tmax)
      [] op = "bspline" -> \A d \in 1 .. 3 : \A K \in KnotVectors(d), P \in SplineControls(d) :
                               \A t \in SplineParams(K, d) :
                                   LET i == KnotSpan(K, d, t)
                                   IN BsplinePoint(P, K, d, t)
                                          = Lagrange([m \in 0 .. d |-> K[i + m]],
                                                     [m \in 0 .. d |-> P[i + m]], d, t)
      [] op = "raybehind" -> /\ \A T \in Triangles, D \in Dirs, u, v \in Bary, t \in RayParams :
                                    LET r == TriangleCase(T, D, u, v, t).r
                                    IN r.t # Miss => QLeq(QZero, r.t)
                             /\ \A B \in Boxes, O \in Origins, D \in AabbDirs :
                                    LET r == RayAabb(O, D, B[1], B[2])
                                    IN ~r.done => QLeq(QZero, r.tmax)
      [] op = "bsplinehull" -> \A d \in 1 .. 2 : \A K \in KnotVectors(d), P \in SplineControls(d) :
                                   \A t \in SplineParams(K, d) :
                                       LET ps == {P[m] : m \in 0 .. 2 * d}
                                       IN QLeq(QMinOf(ps), BsplinePoint(P, K, d, t))
                                          /\ QLeq(BsplinePoint(P, K, d, t), QMaxOf(ps))
      [] op = "bsplined" -> \A d \in 1 .. 2 : \A K \in KnotVectors(d), P \in SplineControls(d) :
                                \A t \in SplineParams(K, d) :
                                    LET h == Frac(1, 4)
                                        i == KnotSpan(K, d, t)
                                    IN KnotSpan(K, d, QSub(t, h)) = i /\ KnotSpan(K, d, QAdd(t, h)) = i
                                       /\ QLess(K[i], QSub(t, h))
                                       => BsplineDerivative(P, K, d, t)
                                              = QDiv(QSub(BsplinePoint(P, K, d, QAdd(t, h)),
                                                          BsplinePoint(P, K, d, QSub(t, h))),
                                                     QMul(QInt(2), h))
      [] op = "noisenan" -> \A oct \in 0 .. 2, pers \in {QZero, Frac(1, 2), QOne} :
                                FractalNoise(QOne, QOne, QOne, oct, pers).den # 0

=============================================================================
