---------------------------- MODULE BlockchainOps ----------------------------
(***************************************************************************)
(* The routines of src/src/core/drivers/blockchain_ops.c that decide      *)
(* something about hashes, Merkle trees, blocks and chains, each next to  *)
(* a reference definition.  SHA-256 is an ideal hash: HashTwice(x) is a   *)
(* term of its own, equal only to HashTwice(x), and the concatenation of  *)
(* two hashes into `combined` is the pair of them, the serialised bytes of *)
(* a transaction the one-element sequence of it.  The signatures        *)
(* (OpenSSL ECDSA) are abstracted to the result ECDSA_do_verify returns.  *)
(* Hashes that are compared bit by bit (core_blockchain_verify_hash) are   *)
(* sequences of bytes.  The last section models cloud::DistributedLedger *)
(* (src/src/ledger/distributed_ledger.cpp), whose block and transaction   *)
(* handlers sit on top of these routines.                                 *)
(***************************************************************************)
EXTENDS Integers, Sequences, Bitwise

\* core_blockchain_hash_twice: SHA-256 of SHA-256, as an ideal hash.
HashTwice(x) == <<"sha256d", x>>

\* The leading-zero count of one nonzero byte: while ((byte & 0x80) == 0)
\* { zero_bits++; byte <<= 1; } on a uint8_t.
RECURSIVE ZeroBitsOfByte(_)
ZeroBitsOfByte(b) ==
    IF (b & 128) # 0 THEN 0 ELSE 1 + ZeroBitsOfByte((2 * b) % 256)

\* The loop over the bytes of the hash: 8 for each zero byte, then the
\* count of the first nonzero byte, then break.
RECURSIVE ZeroBits(_, _)
ZeroBits(hash, i) ==
    IF i > Len(hash) THEN 0
    ELSE IF hash[i] = 0 THEN 8 + ZeroBits(hash, i + 1)
    ELSE ZeroBitsOfByte(hash[i])

\* core_blockchain_verify_hash(hash, difficulty).
VerifyHash(hash, difficulty) == ZeroBits(hash, 1) >= difficulty

\* Reference: the hash read as a big-endian number has difficulty leading
\* zero bits when it is below 2^(bits - difficulty).
HashValue(hash) ==
    LET RECURSIVE V(_) V(i) == IF i = 0 THEN 0 ELSE V(i - 1) * 256 + hash[i]
    IN V(Len(hash))
HasLeadingZeros(hash, difficulty) ==
    difficulty <= 8 * Len(hash) /\ HashValue(hash) < 2 ^ (8 * Len(hash) - difficulty)

-----------------------------------------------------------------------------
\* core_blockchain_build_merkle_tree: one pass of the while loop, from a
\* level of level_size hashes to the next: pairs are hashed together, an
\* odd last hash is copied up unchanged.
NextLevel(l) ==
    [i \in 1 .. (Len(l) + 1) \div 2 |->
        IF 2 * i <= Len(l) THEN HashTwice(<<l[2 * i - 1], l[2 * i]>>)
        ELSE l[2 * i - 1]]

RECURSIVE RootOf(_)
RootOf(l) == IF Len(l) = 1 THEN l[1] ELSE RootOf(NextLevel(l))

\* The leaves are the double hashes of the transactions; the root is
\* stored in header.merkle_root.  A block without transactions keeps the
\* root it had (NoRoot here).
Leaves(txs) == [i \in DOMAIN txs |-> HashTwice(<<txs[i]>>)]
BuildMerkleTree(txs) == IF Len(txs) = 0 THEN "NoRoot" ELSE RootOf(Leaves(txs))

\* core_blockchain_verify_merkle_proof: step i puts the current hash on
\* the left when i is even and on the right when i is odd; -1 for an
\* empty proof, else whether the result equals the root (1 or 0).
RECURSIVE ProofLoop(_, _, _)
ProofLoop(cur, proof, i) ==
    IF i = Len(proof) THEN cur
    ELSE ProofLoop(IF i % 2 = 0 THEN HashTwice(<<cur, proof[i + 1]>>)
                   ELSE HashTwice(<<proof[i + 1], cur>>),
                   proof, i + 1)
VerifyMerkleProof(leaf, root, proof) ==
    IF Len(proof) = 0 THEN -1
    ELSE IF ProofLoop(leaf, proof, 0) = root THEN 1 ELSE 0

\* Reference: the siblings on the path from leaf k (counted from 0) of the
\* tree build_merkle_tree builds, with the side each is on; a level where
\* the node is copied up contributes none.
RECURSIVE PathOf(_, _)
PathOf(l, k) ==
    IF Len(l) = 1 THEN <<>>
    ELSE (IF k % 2 = 1 THEN <<[hash |-> l[k], left |-> TRUE]>>
          ELSE IF k + 2 <= Len(l) THEN <<[hash |-> l[k + 2], left |-> FALSE]>>
          ELSE <<>>)
         \o PathOf(NextLevel(l), k \div 2)

-----------------------------------------------------------------------------
\* ECDSA_do_verify returns 1 for a valid signature, 0 for an invalid one
\* and -1 on error; core_blockchain_verify passes it through.
SigResult(sig) == CASE sig = "valid" -> 1 [] sig = "invalid" -> 0 [] sig = "error" -> -1

\* core_transaction_verify: -1 when the recomputed hash differs from the
\* stored one, else the signature check.
TransactionVerify(t) == IF ~t.hashOk THEN -1 ELSE SigResult(t.sig)

\* core_block_verify, as the set of results it can return.  `pow` is
\* core_blockchain_verify_hash on the header.  build_merkle_tree then
\* overwrites header.merkle_root and memcmp compares it with
\* calculated_root, which nothing wrote: the outcome of reading the
\* uninitialised array is either.  A transaction fails the block only when
\* `!core_transaction_verify(...)`, i.e. when it returned 0.
BlockVerify(b) ==
    IF ~b.pow THEN {-1}
    ELSE {-1} \cup (IF \E i \in DOMAIN b.txs : TransactionVerify(b.txs[i]) = 0
                    THEN {-1} ELSE {0})

\* core_blockchain_verify_chain, as the set of results it can return: -1
\* for no blocks; the first block and every later one rejects the chain
\* when `!core_block_verify(...)`; a later block also when its
\* previous_hash is not the hash of the block before.
RECURSIVE ChainLoop(_, _)
ChainLoop(bs, i) ==
    IF i > Len(bs) THEN {0}
    ELSE IF bs[i].prev # bs[i - 1].hash THEN {-1}
    ELSE UNION {IF r = 0 THEN {-1} ELSE ChainLoop(bs, i + 1) : r \in BlockVerify(bs[i])}
VerifyChain(bs) ==
    IF Len(bs) = 0 THEN {-1}
    ELSE UNION {IF r = 0 THEN {-1} ELSE ChainLoop(bs, 2) : r \in BlockVerify(bs[1])}

\* Reference: a transaction, a block and a chain that are valid.
TxValid(t) == t.hashOk /\ t.sig = "valid"
BlockValid(b) == b.pow /\ b.rootOk /\ \A i \in DOMAIN b.txs : TxValid(b.txs[i])
ChainValid(bs) ==
    /\ Len(bs) > 0
    /\ \A i \in DOMAIN bs : BlockValid(bs[i])
    /\ \A i \in 2 .. Len(bs) : bs[i].prev = bs[i - 1].hash

\* core_blockchain_find_fork on the block hashes of two chains: the first
\* height below both lengths at which the hashes are equal, or -1.
FindFork(h1, h2) ==
    LET common == {i \in 1 .. Len(h1) : i <= Len(h2) /\ h1[i] = h2[i]}
    IN IF common = {} THEN -1 ELSE (CHOOSE i \in common : \A j \in common : i <= j) - 1

\* Reference: the height of the last block of the longest common prefix,
\* the block after which the chains fork; -1 when even the first differs.
ForkHeight(h1, h2) ==
    LET n == CHOOSE n \in 0 .. Len(h1) :
                 /\ n <= Len(h2)
                 /\ \A i \in 1 .. n : h1[i] = h2[i]
                 /\ (n = Len(h1) \/ n = Len(h2) \/ h1[n + 1] # h2[n + 1])
    IN n - 1
-----------------------------------------------------------------------------
(* Keys and signatures.  A routine is the sequence of its OpenSSL calls    *)
(* that can fail: each allocates the objects objs (none for a call that    *)
(* only returns 0 on failure), and its failure branch frees the objects   *)
(* frees and returns -1.  `if (r) BN_free(r)` and the other *_free        *)
(* routines ignore NULL, so a branch may free an object of the failing    *)
(* call itself.  ok is FALSE for a call that fails whatever OpenSSL does.  *)
(* After the last call the routine frees final and returns one of rets.   *)
OsslCall(objs, frees, ok) == [objs |-> objs, frees |-> frees, ok |-> ok]
Routine(cs, final, rets) == [calls |-> cs, final |-> final, rets |-> rets]

\* An outcome: the value returned, the objects still allocated, and the
\* objects freed without being held.
KeyOut(ret, live, bad) == [ret |-> ret, live |-> live, bad |-> bad]

\* What a failing call got allocated: a proper subset of its objects (a
\* call with none fails having allocated nothing).
Partial(objs) == IF objs = {} THEN {{}} ELSE SUBSET objs \ {objs}

\* The outcomes of the calls cs with the objects held allocated: a
\* failure of the first call, or its success and the rest.
RECURSIVE KeyOutcomes(_, _, _, _)
KeyOutcomes(cs, held, final, rets) ==
    IF cs = <<>> THEN {KeyOut(r, held \ final, final \ held) : r \in rets}
    ELSE LET c == Head(cs) IN
         {KeyOut(-1, (held \cup got) \ c.frees, c.frees \ (held \cup c.objs))
            : got \in Partial(c.objs)}
         \cup (IF c.ok THEN KeyOutcomes(Tail(cs), held \cup c.objs, final, rets) ELSE {})
Outcomes(rt) == KeyOutcomes(rt.calls, {}, rt.final, rt.rets)

\* The sizes of blockchain_ops.h, and the encodings of a secp256k1 point:
\* EC_POINT_point2oct with POINT_CONVERSION_COMPRESSED writes 1 + 32
\* bytes and returns 0 when the buffer is shorter; EC_POINT_oct2point
\* accepts only the length of a compressed or an uncompressed point.
HASH_SIZE == 32
PUBLIC_KEY_SIZE == 32
FieldBytes == 32
CompressedLen == 1 + FieldBytes
PointToOct(buflen) == IF buflen >= CompressedLen THEN CompressedLen ELSE 0
OctToPointOk(len) == len \in {CompressedLen, 1 + 2 * FieldBytes}

\* core_blockchain_sign: key, bn, set_private_key, pub, EC_POINT_mul,
\* set_public_key, ECDSA_do_sign, then everything is freed.
Sign ==
    Routine(<<OsslCall({"key"}, {}, TRUE),
              OsslCall({"bn"}, {"key"}, TRUE),
              OsslCall({}, {"bn", "key"}, TRUE),
              OsslCall({"pub"}, {"bn", "key"}, TRUE),
              OsslCall({}, {"pub", "bn", "key"}, TRUE),
              OsslCall({}, {"pub", "bn", "key"}, TRUE),
              OsslCall({"sig"}, {"pub", "bn", "key"}, TRUE)>>,
            {"sig", "pub", "bn", "key"}, {0})

\* core_blockchain_verify: key, pub, oct2point of the 32-byte key,
\* set_public_key, ECDSA_SIG_new, the two BN_bin2bn, whose branch frees
\* whichever succeeded; ECDSA_SIG_set0 hands r and s to sig, so
\* ECDSA_SIG_free frees them; ECDSA_do_verify's result is returned.
Verify ==
    Routine(<<OsslCall({"key"}, {}, TRUE),
              OsslCall({"pub"}, {"key"}, TRUE),
              OsslCall({}, {"pub", "key"}, OctToPointOk(PUBLIC_KEY_SIZE)),
              OsslCall({}, {"pub", "key"}, TRUE),
              OsslCall({"sig"}, {"pub", "key"}, TRUE),
              OsslCall({"r", "s"}, {"r", "s", "sig", "pub", "key"}, TRUE)>>,
            {"sig", "r", "s", "pub", "key"}, {1, 0, -1})

\* core_blockchain_generate_keypair: key, EC_KEY_generate_key, the two
\* get0 accessors (NULL is a failure), then point2oct into the 32-byte
\* public_key, which fails unless it returns PUBLIC_KEY_SIZE.
GenerateKeypair ==
    Routine(<<OsslCall({"key"}, {}, TRUE),
              OsslCall({}, {"key"}, TRUE),
              OsslCall({}, {"key"}, TRUE),
              OsslCall({}, {"key"}, TRUE),
              OsslCall({}, {"key"}, PointToOct(PUBLIC_KEY_SIZE) = PUBLIC_KEY_SIZE)>>,
            {"key"}, {0})

\* core_blockchain_public_key_from_private: key, bn, set_private_key,
\* pub, EC_POINT_mul, then point2oct as in generate_keypair.
PublicKeyFromPrivate ==
    Routine(<<OsslCall({"key"}, {}, TRUE),
              OsslCall({"bn"}, {"key"}, TRUE),
              OsslCall({}, {"bn", "key"}, TRUE),
              OsslCall({"pub"}, {"bn", "key"}, TRUE),
              OsslCall({}, {"pub", "bn", "key"}, TRUE),
              OsslCall({}, {"pub", "bn", "key"}, PointToOct(PUBLIC_KEY_SIZE) = PUBLIC_KEY_SIZE)>>,
            {"pub", "bn", "key"}, {0})

\* core_transaction_sign: the hash of the transaction, then
\* core_blockchain_sign of it into transaction->signature.
TransactionSign == Sign

KeyRoutines == {Sign, Verify, GenerateKeypair, PublicKeyFromPrivate}

\* Signatures: BN_bn2bin writes BN_num_bytes(n) big-endian bytes, no
\* padding, so sign puts r at signature[0 ..] and s at
\* signature[HASH_SIZE ..], each as short as its value, over what the
\* buffer held; verify reads HASH_SIZE bytes for each with BN_bin2bn.
\* Checked with slots of w bytes in place of HASH_SIZE.
RECURSIVE NumBytes(_)
NumBytes(n) == IF n = 0 THEN 0 ELSE 1 + NumBytes(n \div 256)
BnToBin(n) == [i \in 1 .. NumBytes(n) |-> (n \div 256 ^ (NumBytes(n) - i)) % 256]
RECURSIVE BinToBn(_)
BinToBn(b) == IF b = <<>> THEN 0 ELSE BinToBn(SubSeq(b, 1, Len(b) - 1)) * 256 + b[Len(b)]
Store(buf, at, d) == [i \in DOMAIN buf |-> IF at < i /\ i <= at + Len(d) THEN d[i - at] ELSE buf[i]]
SignatureBytes(r, s, w, old) == Store(Store(old, 0, BnToBin(r)), w, BnToBin(s))
SignatureValues(sig, w) == <<BinToBn(SubSeq(sig, 1, w)), BinToBn(SubSeq(sig, w + 1, 2 * w))>>
-----------------------------------------------------------------------------
(* Blocks and transactions in memory.  A heap is the set of live          *)
(* allocations and the set of pointers freed while not live (a double     *)
(* free, or a free of what was never allocated); core_malloc may return   *)
(* NULL.  A pointer is a pair <<kind, n>>.  A transaction is [ptr, data],  *)
(* data a buffer of the caller or NULL; a block is [ptr, arr, txs], its   *)
(* transactions array and the transactions memcpy'd into it, which share *)
(* their data pointer with the caller's.                                   *)
CNull == <<"null", 0>>
BlockPtr == <<"block", 0>>
TxPtr == <<"tx", 0>>
Heap(live) == [live |-> live, bad |-> {}]
CMalloc(h, p) == [h EXCEPT !.live = @ \cup {p}]
CFree(h, p) == IF p \in h.live THEN [h EXCEPT !.live = @ \ {p}] ELSE [h EXCEPT !.bad = @ \cup {p}]

\* core_block_create and core_transaction_create: NULL, or a fresh struct
\* with no transactions, or no data.
BlockCreate(h) ==
    {[h |-> h, b |-> [ptr |-> CNull, arr |-> CNull, txs |-> <<>>]],
     [h |-> CMalloc(h, BlockPtr), b |-> [ptr |-> BlockPtr, arr |-> CNull, txs |-> <<>>]]}
TransactionCreate(h) ==
    {[h |-> h, t |-> [ptr |-> CNull, data |-> CNull]],
     [h |-> CMalloc(h, TxPtr), t |-> [ptr |-> TxPtr, data |-> CNull]]}

\* core_block_add_transaction: a new array of count + 1 transactions, -1
\* when that malloc fails; the old array, if any, is copied and freed and
\* the transaction copied in after it.
BlockAddTransaction(h, b, t) ==
    LET a == <<"arr", Len(b.txs) + 1>>
        h1 == IF b.arr # CNull THEN CFree(CMalloc(h, a), b.arr) ELSE CMalloc(h, a)
    IN {[ret |-> -1, h |-> h, b |-> b],
        [ret |-> 0, h |-> h1, b |-> [b EXCEPT !.arr = a, !.txs = Append(@, t)]]}

\* core_transaction_destroy frees the data and not the struct.
TransactionDestroy(h, t) ==
    IF t.ptr = CNull \/ t.data = CNull THEN h ELSE CFree(h, t.data)

\* core_block_destroy: each transaction of the array destroyed, the array
\* freed, then the block.
RECURSIVE DestroyAll(_, _)
DestroyAll(h, txs) ==
    IF txs = <<>> THEN h ELSE DestroyAll(TransactionDestroy(h, Head(txs)), Tail(txs))
BlockDestroy(h, b) ==
    IF b.ptr = CNull THEN h
    ELSE CFree(IF b.arr # CNull THEN CFree(DestroyAll(h, b.txs), b.arr) ELSE h, b.ptr)

\* A caller adding the transactions ts one after the other to a block:
\* every result, with the transactions whose add returned 0.
RECURSIVE AddAll(_, _, _)
AddAll(h, b, ts) ==
    IF ts = <<>> THEN {[h |-> h, b |-> b]}
    ELSE UNION {AddAll(o.h, o.b, Tail(ts)) : o \in BlockAddTransaction(h, b, Head(ts))}

\* core_block_mine: the nonce runs from 0 while below UINT64_MAX (max);
\* each try hashes the header and returns 0 at the first hash that
\* verify_hash accepts, else -1.  hashes[n + 1] is the hash try n gives.
RECURSIVE MineLoop(_, _, _, _)
MineLoop(hashes, d, nonce, max) ==
    IF nonce >= max THEN [ret |-> -1, nonce |-> nonce]
    ELSE IF VerifyHash(hashes[nonce + 1], d) THEN [ret |-> 0, nonce |-> nonce]
    ELSE MineLoop(hashes, d, nonce + 1, max)
BlockMine(hashes, d, max) == MineLoop(hashes, d, 0, max)
-----------------------------------------------------------------------------
ChainOps == {"verifyhash", "merkleroot", "merkleproof", "verifychain", "findfork",
             "keyfrees", "keyuse", "sigpad", "blockmem", "txlife", "mine"}
NonEmptySeqs(S, n) == UNION {[1 .. k -> S] : k \in 1 .. n}
HashBytes == {0, 1, 2, 64, 127, 128, 255}
TxLists == NonEmptySeqs({1, 2}, 4)
Tx == [hashOk : BOOLEAN, sig : {"valid", "invalid", "error"}]
Block == [hash : {1, 2}, prev : {1, 2}, pow : BOOLEAN, rootOk : BOOLEAN,
          txs : {<<>>} \cup {<<t>> : t \in Tx}]

\* Signature values of two-byte slots, and buffers the signature is written
\* over; caller transactions, each with its own data buffer or none, added
\* at most once; hashes of two bytes for the mining tries.
SigValues == {1, 255, 256, 4660, 65535}
Fill(x) == [i \in 1 .. 4 |-> x]
CallerData == {<<"data", k>> : k \in 1 .. 3}
CallerTx(p) == [ptr |-> <<"caller", p[1]>>, data |-> IF p[2] THEN <<"data", p[1]>> ELSE CNull]
BlockTxLists ==
    {ts \in UNION {[1 .. n -> (1 .. 3) \X BOOLEAN] : n \in 0 .. 3} :
        \A i, j \in DOMAIN ts : i # j => ts[i][1] # ts[j][1]}
MineHashes == {<<0, 0>>, <<0, 1>>, <<1, 0>>, <<128, 0>>}

\* Reference verifier of a path: the sibling's side decides the order.
RECURSIVE FollowPath(_, _)
FollowPath(cur, path) ==
    IF path = <<>> THEN cur
    ELSE FollowPath(IF Head(path).left THEN HashTwice(<<Head(path).hash, cur>>)
                    ELSE HashTwice(<<cur, Head(path).hash>>), Tail(path))

\* Whether each routine decides what it stands for: the difficulty test
\* counts the leading zero bits; distinct transaction lists get distinct
\* Merkle roots; the proof of every leaf of every tree is accepted; a
\* chain is accepted exactly when it is valid; the fork height is the
\* last height at which the chains agree; every path of the key and
\* signature routines, failing at any OpenSSL call, frees what it
\* allocated and nothing else; a key pair can be made and a signature
\* accepted; verify reads back the r and s that sign wrote; destroying a
\* block frees everything create and add allocated, the data of the
\* transactions added, and nothing twice, and only the current array is
\* live before; destroying a created transaction frees it; mining
\* returns 0 at the first nonce whose hash has d leading zero bits.
ChainOk(op) ==
    CASE op = "verifyhash" -> \A a, b \in HashBytes, d \in 0 .. 17 :
                                  VerifyHash(<<a, b>>, d) = HasLeadingZeros(<<a, b>>, d)
      [] op = "merkleroot" -> \A l1, l2 \in TxLists :
                                  l1 # l2 => BuildMerkleTree(l1) # BuildMerkleTree(l2)
      [] op = "merkleproof" ->
            \A l \in TxLists : \A k \in 0 .. Len(l) - 1 :
                LET path == PathOf(Leaves(l), k) IN
                /\ FollowPath(Leaves(l)[k + 1], path) = BuildMerkleTree(l)
                /\ VerifyMerkleProof(Leaves(l)[k + 1], BuildMerkleTree(l),
                                     [i \in DOMAIN path |-> path[i].hash]) = 1
      [] op = "verifychain" -> \A bs \in NonEmptySeqs(Block, 2) :
                                   VerifyChain(bs) = {IF ChainValid(bs) THEN 0 ELSE -1}
      [] op = "findfork" -> \A h1, h2 \in NonEmptySeqs({1, 2}, 3) :
                                h1[1] = h2[1] => FindFork(h1, h2) = ForkHeight(h1, h2)
      [] op = "keyfrees" -> \A rt \in KeyRoutines : \A o \in Outcomes(rt) :
                                o.live = {} /\ o.bad = {}
      [] op = "keyuse" -> /\ \E o \in Outcomes(GenerateKeypair) : o.ret = 0
                          /\ \E o \in Outcomes(PublicKeyFromPrivate) : o.ret = 0
                          /\ \E o \in Outcomes(Verify) : o.ret = 1
      [] op = "sigpad" -> \A r, v \in SigValues, old \in {Fill(0), Fill(255)} :
                              SignatureValues(SignatureBytes(r, v, 2, old), 2) = <<r, v>>
      [] op = "blockmem" ->
            \A ts \in BlockTxLists, c \in BlockCreate(Heap(CallerData)) :
                LET txs == [i \in DOMAIN ts |-> CallerTx(ts[i])] IN
                c.b.ptr # CNull =>
                    \A o \in AddAll(c.h, c.b, txs) :
                        LET e == BlockDestroy(o.h, o.b) IN
                        /\ o.h.live = CallerData \cup ({BlockPtr, o.b.arr} \ {CNull})
                        /\ e.bad = {}
                        /\ e.live = CallerData \ {o.b.txs[i].data : i \in DOMAIN o.b.txs}
      [] op = "txlife" -> \A c \in TransactionCreate(Heap({})) :
                              TransactionDestroy(c.h, c.t).live = {}
      [] op = "mine" ->
            \A d \in 0 .. 17, hs \in [1 .. 2 -> MineHashes] :
                LET m == BlockMine(hs, d, 2) IN
                /\ m.ret = 0 <=> \E n \in 0 .. 1 : HasLeadingZeros(hs[n + 1], d)
                /\ m.ret = 0 => /\ HasLeadingZeros(hs[m.nonce + 1], d)
                                /\ \A n \in 0 .. m.nonce - 1 : ~HasLeadingZeros(hs[n + 1], d)

-----------------------------------------------------------------------------
(***************************************************************************)
(* cloud::DistributedLedger (src/src/ledger/distributed_ledger.cpp): it   *)
(* owns a consensus engine, a crypto engine, a network stack and a        *)
(* transaction processor, and keeps a chain, a state and a pool of        *)
(* transactions that the network's handlers change.  Every call into a    *)
(* collaborator (OpenSSL, the engines, m_chain, m_state, m_tx_pool, the   *)
(* metrics) may throw; where the code catches and goes on, the model      *)
(* goes on, and where it rethrows, the model stops there.                 *)
(*                                                                         *)
(* The lifecycle is a record of the owned objects: none, made, running or *)
(* stopped.  A trace is the sequence of records a call passes through;   *)
(* the call may throw at each of them.                                    *)
(***************************************************************************)
LOCAL INSTANCE SequencesExt

LedgerIdle == [cons |-> "none", net |-> "none", txp |-> "none", crypto |-> FALSE]

\* initialize_crypto: m_crypto is set before generate_keys, which may throw.
InitializeCrypto(l) == <<l, [l EXCEPT !.crypto = TRUE]>>

\* initialize_consensus: an unsupported consensus type throws before any
\* engine is made; then the crypto engine.
InitializeConsensus(l) == <<l>> \o InitializeCrypto([l EXCEPT !.cons = "made"])

\* setup_network: make the stack, then register the three handlers.
SetupNetwork(l) == <<l, [l EXCEPT !.net = "made"]>>

\* start_transaction_processor: m_tx_processor is set before its start().
StartTransactionProcessor(l) ==
    <<l, [l EXCEPT !.txp = "made"], [l EXCEPT !.txp = "running"]>>

\* start_consensus: the engine, then the network, then the processor.
StartConsensus(l) ==
    LET c == [l EXCEPT !.cons = "running"] IN
    <<l, c>> \o StartTransactionProcessor([c EXCEPT !.net = "running"])

\* The constructor: load_configuration (which may throw with nothing made),
\* initialize_consensus, setup_network, start_consensus.
DistributedLedger ==
    LET a == InitializeConsensus(LedgerIdle)
        b == SetupNetwork(Last(a))
    IN  a \o b \o StartConsensus(Last(b))

\* stop_transaction_processor: stop() and reset(); a throwing stop() is
\* caught before the reset.  f holds the stop() calls that throw.
StopTransactionProcessor(l, f) ==
    IF l.txp = "none" \/ "txp" \in f THEN l ELSE [l EXCEPT !.txp = "none"]

\* stop_consensus: the processor, then the network, then the engine; a
\* throwing stop() of the network is caught by the one try, which skips
\* the engine's stop().
StopConsensus(l, f) ==
    LET t == StopTransactionProcessor(l, f)
        n == IF t.net = "none" THEN t ELSE [t EXCEPT !.net = "stopped"]
        c == IF n.cons = "none" \/ "cons" \in f THEN n ELSE [n EXCEPT !.cons = "stopped"]
    IN  IF t.net # "none" /\ "net" \in f THEN <<t>> ELSE <<t, n, c>>

\* cleanup_resources: reset m_consensus, m_network, m_crypto in turn.
CleanupResources(l) ==
    LET c == [l EXCEPT !.cons = "none"]
        n == [c EXCEPT !.net = "none"]
    IN  <<c, n, [n EXCEPT !.crypto = FALSE]>>

\* ~DistributedLedger: stop_consensus, then cleanup_resources.
DestroyLedger(l, f) ==
    LET s == StopConsensus(l, f) IN s \o CleanupResources(Last(s))

\* The records a ledger passes through: construction, which may throw at
\* any of them, and the destruction of a constructed ledger.
LifeStates(f) == ToSet(DistributedLedger) \cup ToSet(DestroyLedger(Last(DistributedLedger), f))


\* The chain, state and pool the handlers change.  A block is the sequence
\* of its transactions; pooled records every transaction the pool took.
LedgerData == [chain |-> {}, state |-> {}, pool |-> {}, pooled |-> {}]

\* add_transaction: m_tx_pool.add_transaction may throw.
AddTransaction(d, t) == {d, [d EXCEPT !.pool = @ \cup {t}, !.pooled = @ \cup {t}]}

\* verify_block_signature and verify_transaction_signature: FALSE without
\* m_crypto, else what m_crypto->verify_signature returns (FALSE when it
\* throws).
VerifyBlockSignature(crypto) == IF crypto THEN BOOLEAN ELSE {FALSE}
VerifyTransactionSignature(crypto) == IF crypto THEN BOOLEAN ELSE {FALSE}

\* handle_transaction_message: a transaction that does not deserialize or
\* whose signature is rejected is logged and dropped.  The handlers run
\* while the network runs, when m_crypto exists (NetworkOverEngine).
HandleTransactionMessage(d, t) ==
    {d} \cup IF TRUE \in VerifyTransactionSignature(TRUE) THEN AddTransaction(d, t) ELSE {}

\* update_state: apply_transaction on each transaction in order; m_state
\* or the metrics may throw after the first k - 1, which are kept.  The
\* record of a complete update has done = TRUE.
UpdateState(d, b) ==
    {[d EXCEPT !.state = @ \cup ToSet(SubSeq(b, 1, k - 1))] @@ [done |-> FALSE] : k \in 1 .. Len(b)}
        \cup {[d EXCEPT !.state = @ \cup ToSet(b)] @@ [done |-> TRUE]}

\* remove_processed_transactions: remove_transaction on each transaction
\* in order; a throw after the first k - 1 keeps those removals.
RemoveProcessedTransactions(d, b) ==
    {[d EXCEPT !.pool = @ \ ToSet(SubSeq(b, 1, k - 1))] : k \in 1 .. Len(b) + 1}

\* add_block: m_chain.add_block (which may throw), update_state, then
\* remove_processed_transactions; a throw ends add_block where it is.
AddBlock(d, b) ==
    LET c == [d EXCEPT !.chain = @ \cup {b}]
        Strip(u) == [chain |-> u.chain, state |-> u.state, pool |-> u.pool, pooled |-> u.pooled]
    IN  {d} \cup {Strip(u) : u \in UpdateState(c, b)}
            \cup UNION {RemoveProcessedTransactions(Strip(u), b) : u \in {x \in UpdateState(c, b) : x.done}}

\* handle_block_message: a block that does not deserialize or whose
\* signature is rejected is dropped; what add_block rethrows is caught
\* and logged.
HandleBlockMessage(d, b) ==
    {d} \cup IF TRUE \in VerifyBlockSignature(TRUE) THEN AddBlock(d, b) ELSE {}

\* Two transactions, and the blocks of one or both of them.
LedgerTxs == {"t1", "t2"}
LedgerBlocks == {<<"t1">>, <<"t2">>, <<"t1", "t2">>, <<"t2", "t1">>}

\* The records k or fewer messages reach, delivered in any order, lost or
\* repeated.
RECURSIVE Histories(_)
Histories(k) ==
    IF k = 0 THEN {LedgerData}
    ELSE LET H == Histories(k - 1) IN
         H \cup UNION {HandleTransactionMessage(d, t) : d \in H, t \in LedgerTxs}
           \cup UNION {HandleBlockMessage(d, b) : d \in H, b \in LedgerBlocks}

ChainTxs(d) == UNION {ToSet(b) : b \in d.chain}

\* Every transaction applied to m_state belongs to a block of m_chain: the
\* chain takes a block before update_state applies any of it.
StateFollowsChain(d) == d.state \subseteq ChainTxs(d)

\* No transaction the pool took is lost: one in a block of the chain is
\* applied or still pooled, since remove_processed_transactions runs only
\* after update_state has applied the whole block.
NoLostTransaction(d) == \A t \in d.pooled \cap ChainTxs(d) : t \in d.state \cup d.pool

\* Every block of the chain is applied whole.
BlockAppliedWhole(d) == \A b \in d.chain : ToSet(b) \subseteq d.state

\* The pool holds no transaction already applied.
PoolOnlyPending(d) == d.pool \cap d.state = {}

\* While the network runs, and can call the handlers, the consensus engine
\* runs and the crypto engine exists.
NetworkOverEngine(l) == l.net = "running" => l.cons = "running" /\ l.crypto

\* The checks KernelsCorrect dispatches to: the order of add_block's steps
\* over four messages (ledorder); whole blocks and the pool against the
\* state (ledwhole, ledpool); the lifecycle when every stop() returns
\* (ledlife) and when any throws (ledstop).
LedgerOps == {"ledorder", "ledwhole", "ledpool", "ledlife", "ledstop"}

LedgerOk(op) ==
    CASE op = "ledorder" -> \A d \in Histories(4) : StateFollowsChain(d) /\ NoLostTransaction(d)
      [] op = "ledwhole" -> \A d \in Histories(2) : BlockAppliedWhole(d)
      [] op = "ledpool" -> \A d \in Histories(3) : PoolOnlyPending(d)
      [] op = "ledlife" -> \A l \in LifeStates({}) : NetworkOverEngine(l)
      [] op = "ledstop" -> \A f \in SUBSET {"txp", "net", "cons"} :
                               \A l \in LifeStates(f) : NetworkOverEngine(l)

=============================================================================
