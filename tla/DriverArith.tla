----------------------------- MODULE DriverArith -----------------------------
(***************************************************************************)
(* The value-level routines of math_ops.c (core_fast_div, core_fast_mod,  *)
(* core_matrix_multiply_4x4, core_matrix_transpose_4x4) and the pointer    *)
(* alignment of memory_ops.c (core_align_ptr, core_get_alignment_offset), *)
(* each next to a reference it is checked against.                         *)
(***************************************************************************)
EXTENDS ComputeAlgebra, Bitwise

\* C's / on int truncates toward zero; % takes the sign of the dividend.
CDiv(a, b) == IF (a < 0) = (b < 0) THEN AbsInt(a) \div AbsInt(b)
              ELSE -(AbsInt(a) \div AbsInt(b))
CMod(a, b) == a - b * CDiv(a, b)
\* a >> k on a negative int32 is an arithmetic shift under gcc and clang:
\* the quotient rounded toward minus infinity.
ShiftRight(a, k) == a \div (2 ^ k)
\* a & (2^k - 1) in two's complement: the residue modulo 2^k, never
\* negative.
MaskLow(a, k) == a % (2 ^ k)

\* core_fast_div: 0 for b = 0, a shift for b a power of two up to 16,
\* else a / b.
FastDiv(a, b) ==
    CASE b = 0 -> 0
      [] b = 1 -> a
      [] b \in {2, 4, 8, 16} -> ShiftRight(a, CHOOSE k \in 1 .. 4 : 2 ^ k = b)
      [] OTHER -> CDiv(a, b)

\* core_fast_mod: 0 for b = 0 or 1, a mask for b a power of two up to 16,
\* else a % b.
FastMod(a, b) ==
    CASE b \in {0, 1} -> 0
      [] b \in {2, 4, 8, 16} -> MaskLow(a, CHOOSE k \in 1 .. 4 : 2 ^ k = b)
      [] OTHER -> CMod(a, b)

-----------------------------------------------------------------------------
\* core_matrix_multiply_4x4.  The fallback sums a[i*4+k] * b[k*4+j].  The
\* AVX2 and NEON builds load row i of a and, as "col", the four floats
\* from b[j*4], which are row j of b, multiply them lane by lane and add
\* lanes 0 .. 3: a[i*4+k] * b[j*4+k].
MatrixMultiply4x4(arch, A, B) ==
    [p \in Sq(4) |->
        LET RECURSIVE S(_)
            S(k) == IF k = 4 THEN QZero
                    ELSE QAdd(QMul(A[p[1], k], IF arch = "none" THEN B[k, p[2]] ELSE B[p[2], k]),
                              S(k + 1))
        IN S(0)]

\* vld4q_f32 de-interleaves sixteen floats into four vectors: lane l of
\* vector m is src[4 * l + m].
Deinterleave4(S) == [m \in 0 .. 3 |-> [l \in 0 .. 3 |-> S[l, m]]]

\* core_matrix_transpose_4x4: the NEON build stores vector m of the
\* de-interleaved source as row m; the fallback writes src[j*4+i] to
\* dst[i*4+j].  The AVX2 build calls _mm256_movelh_ps and
\* _mm256_movehl_ps, which do not exist, and is left out.
MatrixTranspose4x4(arch, S) ==
    IF arch = "arm" THEN [p \in Sq(4) |-> Deinterleave4(S)[p[1]][p[2]]]
    ELSE [p \in Sq(4) |-> S[p[2], p[1]]]

-----------------------------------------------------------------------------
\* Pointers are uintptr_t values of PtrBits bits in the model.
PtrBits == 8
PtrMod == 2 ^ PtrBits
\* ~x in uintptr_t.
Complement(x) == (PtrMod - 1) - x

\* core_align_ptr: (addr + alignment - 1) & ~(alignment - 1).
AlignPtr(addr, alignment) ==
    ((addr + alignment - 1) % PtrMod) & Complement(alignment - 1)
\* core_get_alignment_offset: (alignment - (addr & (alignment - 1))) &
\* (alignment - 1).
AlignmentOffset(addr, alignment) ==
    ((alignment - (addr & (alignment - 1))) % PtrMod) & (alignment - 1)
-----------------------------------------------------------------------------
ArithOps == {"fastdivmod", "fastdiv_c", "mat4mul", "mat4transpose", "align"}
Dividends == -40 .. 40
Divisors == (-20 .. 20) \ {0}
Alignments == {1, 2, 4, 8, 16}
\* The sixteen matrices with a single 1: the product is bilinear, so it is
\* right on all matrices when it is right on every pair of these.
Basis4 == {[p \in Sq(4) |-> IF p = e THEN QOne ELSE QZero] : e \in Sq(4)}
\* A matrix with sixteen distinct entries: a transpose moves entries
\* without changing them, so it is right when it is right on this one.
Distinct4 == [p \in Sq(4) |-> QInt(p[1] * 4 + p[2])]

\* Whether each routine, in build arch, computes what it stands for:
\* the fast quotient and remainder recombine to the dividend, and are C's
\* a / b and a % b; the product is the matrix product; the transpose swaps
\* rows and columns; the aligned pointer is the first multiple of the
\* alignment at or after addr, addr plus the alignment offset.
ArithOk(op, arch) ==
    CASE op = "fastdivmod" -> \A a \in Dividends, b \in Divisors :
                                  a = b * FastDiv(a, b) + FastMod(a, b)
      [] op = "fastdiv_c" -> \A a \in Dividends, b \in Divisors :
                                 FastDiv(a, b) = CDiv(a, b) /\ FastMod(a, b) = CMod(a, b)
      [] op = "mat4mul" -> \A A, B \in Basis4 :
                               MatrixMultiply4x4(arch, A, B) = MatProduct(A, B, 4)
      [] op = "mat4transpose" -> \A p \in Sq(4) :
                                     MatrixTranspose4x4(arch, Distinct4)[p] = Distinct4[p[2], p[1]]
      [] op = "align" -> \A al \in Alignments : \A addr \in 0 .. PtrMod - al :
                             LET r == AlignPtr(addr, al) IN
                             /\ r % al = 0 /\ addr <= r /\ r < addr + al
                             /\ r = addr + AlignmentOffset(addr, al)

=============================================================================
