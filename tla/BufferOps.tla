------------------------------ MODULE BufferOps ------------------------------
(***************************************************************************)
(* The buffer of src/src/core/drivers/buffer_ops.c, a byte array with a    *)
(* capacity, a size and a read/write position, used by one caller at a   *)
(* time.  Each routine is an operator from the buffer (and its arguments) *)
(* to the set of outcomes the code can give: core_malloc may return NULL, *)
(* and an outcome is [ret, buf, out].  A buffer is [data, size, position] *)
(* with data the capacity bytes of the allocation; bytes nothing wrote    *)
(* are Undef.  core_buffer_create is the only constructor and sets        *)
(* is_owner to 1, and clone copies it, so every buffer owns its data and  *)
(* the !is_owner early returns are never taken.                           *)
(*                                                                         *)
(* Each routine is checked against a byte stream (content, position): the *)
(* first size bytes and the position.                                      *)
(***************************************************************************)
EXTENDS Integers, Sequences, Bitwise

Undef == "undef"

Capacity(b) == Len(b.data)

MinOf(x, y) == IF x < y THEN x ELSE y

\* An outcome of a call; out is what a read or peek copied to the caller,
\* freed whether the caller's buffer pointer now points to freed memory.
\* A call that never returns has no outcome.
Outcome(ret, buf, out) == [ret |-> ret, buf |-> buf, out |-> out, freed |-> FALSE]
Fails(b) == Outcome(-1, b, <<>>)

\* core_malloc(n): NULL, or n bytes nobody has written.
Fresh(n) == [i \in 1 .. n |-> Undef]

\* memcpy of d to data[at + 1 .. at + Len(d)].
Overwrite(data, at, d) ==
    [i \in DOMAIN data |-> IF at < i /\ i <= at + Len(d) THEN d[i - at] ELSE data[i]]

\* core_buffer_create(initial_capacity).
BufferCreate(c) ==
    {Fails("null"), Outcome(0, [data |-> Fresh(c), size |-> 0, position |-> 0], <<>>)}

\* core_buffer_resize: a new allocation holding the first
\* min(size, new_capacity) bytes; size and position are cut to it.
BufferResize(b, nc) ==
    {Fails(b),
     Outcome(0, [data |-> Overwrite(Fresh(nc), 0, SubSeq(b.data, 1, MinOf(b.size, nc))),
                 size |-> MinOf(b.size, nc),
                 position |-> MinOf(b.position, nc)], <<>>)}

\* core_buffer_clear.
BufferClear(b) == {Outcome(0, [b EXCEPT !.size = 0, !.position = 0], <<>>)}

\* The capacity-doubling loop of core_buffer_write: new_capacity starts at
\* twice the capacity and doubles while below need.  From 0 it stays 0 and
\* the loop never ends: Grow is then 0, which write tests for.
RECURSIVE Grow(_, _)
Grow(nc, need) ==
    IF nc >= need \/ nc = 0 THEN nc ELSE Grow(2 * nc, need)

\* The copy and the position and size update at the end of write.
WriteAt(b, d) ==
    LET p == b.position + Len(d) IN
    [data |-> Overwrite(b.data, b.position, d), position |-> p,
     size |-> IF p > b.size THEN p ELSE b.size]

\* core_buffer_write(buffer, data, size): -1 for size 0; grows the buffer
\* when position + size exceeds the capacity, -1 when that resize fails.
BufferWrite(b, d) ==
    LET need == b.position + Len(d)  nc == Grow(2 * Capacity(b), need) IN
    IF Len(d) = 0 THEN {Fails(b)}
    ELSE IF need <= Capacity(b) THEN {Outcome(0, WriteAt(b, d), <<>>)}
    ELSE IF nc < need THEN {}
    ELSE {IF r.ret = 0 THEN Outcome(0, WriteAt(r.buf, d), <<>>) ELSE r
          : r \in BufferResize(b, nc)}

\* The test shared by read, peek and skip: -1 for size 0 or fewer than
\* size bytes after the position.
Short(b, n) == n = 0 \/ b.position + n > b.size
Bytes(b, n) == SubSeq(b.data, b.position + 1, b.position + n)

\* core_buffer_read, core_buffer_peek, core_buffer_skip.
BufferRead(b, n) ==
    IF Short(b, n) THEN {Fails(b)}
    ELSE {Outcome(0, [b EXCEPT !.position = @ + n], Bytes(b, n))}
BufferPeek(b, n) ==
    IF Short(b, n) THEN {Fails(b)} ELSE {Outcome(0, b, Bytes(b, n))}
BufferSkip(b, n) ==
    IF Short(b, n) THEN {Fails(b)}
    ELSE {Outcome(0, [b EXCEPT !.position = @ + n], <<>>)}

\* core_buffer_seek and core_buffer_rewind.
BufferSeek(b, p) ==
    IF p > b.size THEN {Fails(b)} ELSE {Outcome(0, [b EXCEPT !.position = p], <<>>)}
BufferRewind(b) == {Outcome(0, [b EXCEPT !.position = 0], <<>>)}

\* The end of core_buffer_copy: src's size bytes copied to the front of
\* dest, dest's size set to it and its position to 0.
CopyInto(d, s) ==
    [data |-> Overwrite(d.data, 0, SubSeq(s.data, 1, s.size)),
     size |-> s.size, position |-> 0]

\* core_buffer_copy(dest, src): dest is resized to src's size first when
\* that exceeds its capacity.
BufferCopy(d, s) ==
    IF s.size <= Capacity(d) THEN {Outcome(0, CopyInto(d, s), <<>>)}
    ELSE {IF r.ret = 0 THEN Outcome(0, CopyInto(r.buf, s), <<>>) ELSE r
          : r \in BufferResize(d, s.size)}

\* core_buffer_clone(dest, src): a new buffer of src's size holding src's
\* bytes; then core_buffer_destroy(dest) frees dest itself, and
\* `*dest = *new_buffer` writes the new buffer through the freed pointer.
\* The caller is left holding freed memory.
BufferClone(d, s) ==
    {IF r.ret = 0 THEN [Outcome(0, CopyInto(r.buf, s), <<>>) EXCEPT !.freed = TRUE]
     ELSE Fails(d) : r \in BufferCreate(s.size)}

\* core_buffer_align: size rounded up with (size + a - 1) & ~(a - 1), which
\* clears the bits of a - 1; the buffer is resized to it first when it
\* exceeds the capacity.
AlignedSize(n, a) == LET x == n + a - 1 IN x - (x & (a - 1))
BufferAlign(b, a) ==
    LET s == AlignedSize(b.size, a) IN
    IF a = 0 THEN {Fails(b)}
    ELSE IF s <= Capacity(b) THEN {Outcome(0, [b EXCEPT !.size = s], <<>>)}
    ELSE {IF r.ret = 0 THEN Outcome(0, [r.buf EXCEPT !.size = s], <<>>) ELSE r
          : r \in BufferResize(b, s)}
-----------------------------------------------------------------------------
\* The byte stream a buffer stands for.
Wf(b) == b.position <= b.size /\ b.size <= Capacity(b)
Content(b) == SubSeq(b.data, 1, b.size)
\* Reference: writing d at position p of content c.
StreamWrite(c, p, d) == SubSeq(c, 1, p) \o d \o SubSeq(c, p + Len(d) + 1, Len(c))

BufferOpNames == {"bufcreate", "bufresize", "bufclear", "bufwrite", "bufwrite0",
                  "bufread", "bufpeek", "bufskip", "bufseek", "bufrewind",
                  "bufcopy", "bufclone", "bufalign"}
BufMaxCap == 3
BufBytes == {"a", "b"}
BufferSet(caps) ==
    {b \in UNION {[data : [1 .. c -> BufBytes \cup {Undef}], size : 0 .. c,
                   position : 0 .. c] : c \in caps} : Wf(b)}
Buffers == BufferSet(0 .. BufMaxCap)
Chunks == UNION {[1 .. k -> BufBytes] : k \in 0 .. 2}
Counts == 0 .. BufMaxCap + 1

\* A call on buffer b returns, and every outcome is a success (0) that
\* leaves a live, well-formed buffer doing what ok says, or a failure (-1)
\* that leaves b as it was.
Keeps(b, R, ok(_)) ==
    /\ R # {}
    /\ \A r \in R : \/ r.ret = -1 /\ r.buf = b
                    \/ r.ret = 0 /\ ~r.freed /\ Wf(r.buf) /\ ok(r)

\* Whether each routine does to the byte stream what it is named for:
\* create and clear give an empty stream; resize keeps the bytes that fit;
\* write overwrites at the position and moves past the bytes, growing
\* the buffer as needed (bufwrite from a nonzero capacity, bufwrite0 from
\* capacity 0); read, peek and skip succeed exactly when enough bytes
\* follow the position, and read and peek return them; seek and rewind
\* move within the stream; copy and clone give dest the stream of src
\* from position 0; align pads the stream to the next multiple.
BufferOk(op) ==
    CASE op = "bufcreate" ->
            \A c \in 0 .. BufMaxCap :
                \A r \in BufferCreate(c) : r.ret = -1 \/ (Content(r.buf) = <<>> /\ Capacity(r.buf) = c)
      [] op = "bufresize" ->
            \A b \in Buffers, nc \in Counts :
                LET ok(r) == /\ Content(r.buf) = SubSeq(Content(b), 1, MinOf(b.size, nc))
                            /\ Capacity(r.buf) = nc
                IN Keeps(b, BufferResize(b, nc), ok)
      [] op = "bufclear" ->
            \A b \in Buffers :
                LET ok(r) == Content(r.buf) = <<>> /\ r.buf.position = 0
                IN Keeps(b, BufferClear(b), ok)
      [] op \in {"bufwrite", "bufwrite0"} ->
            \A b \in BufferSet(IF op = "bufwrite0" THEN {0} ELSE 1 .. BufMaxCap),
              d \in Chunks :
                LET ok(r) == /\ Len(d) > 0
                            /\ Content(r.buf) = StreamWrite(Content(b), b.position, d)
                            /\ r.buf.position = b.position + Len(d)
                IN Keeps(b, BufferWrite(b, d), ok)
      [] op \in {"bufread", "bufpeek", "bufskip"} ->
            \A b \in Buffers, n \in Counts :
                LET R == CASE op = "bufread" -> BufferRead(b, n)
                           [] op = "bufpeek" -> BufferPeek(b, n)
                           [] op = "bufskip" -> BufferSkip(b, n)
                    ok(r) == /\ n > 0 /\ b.position + n <= Len(Content(b))
                            /\ Content(r.buf) = Content(b)
                            /\ r.buf.position = b.position + (IF op = "bufpeek" THEN 0 ELSE n)
                            /\ op # "bufskip" => r.out = SubSeq(Content(b), b.position + 1, b.position + n)
                IN Keeps(b, R, ok) /\ (n > 0 /\ b.position + n <= b.size => \E r \in R : r.ret = 0)
      [] op \in {"bufseek", "bufrewind"} ->
            \A b \in Buffers, p \in Counts :
                LET q == IF op = "bufrewind" THEN 0 ELSE p
                    ok(r) == Content(r.buf) = Content(b) /\ r.buf.position = q
                IN /\ Keeps(b, IF op = "bufrewind" THEN BufferRewind(b) ELSE BufferSeek(b, p), ok)
                   /\ q <= b.size => \E r \in BufferSeek(b, q) : r.ret = 0
      [] op \in {"bufcopy", "bufclone"} ->
            \A d, s \in Buffers :
                LET ok(r) == Content(r.buf) = Content(s) /\ r.buf.position = 0
                IN Keeps(d, IF op = "bufcopy" THEN BufferCopy(d, s) ELSE BufferClone(d, s), ok)
      [] op = "bufalign" ->
            \A b \in Buffers, a \in {0, 1, 2, 4} :
                LET ok(r) == /\ a > 0
                            /\ SubSeq(Content(r.buf), 1, b.size) = Content(b)
                            /\ Len(Content(r.buf)) % a = 0
                            /\ Len(Content(r.buf)) < b.size + a
                            /\ r.buf.position = b.position
                IN Keeps(b, BufferAlign(b, a), ok)
=============================================================================
