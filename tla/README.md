# A verification project for online/offline Falcon-style signatures

This directory models `src/falcon-lazy`, the C code of a signature scheme in the
Falcon family whose signing is split into an *offline* phase (sample a blinding
vector, compute its lattice target; no message is needed) and an *online* phase
(hash the message, add it to the target, find a short preimage, check its norm).
The modules are TLA+ specifications of that code; TLC checks them on small
instances and TLAPS proves the most important results for every value of the
constants.

Every definition that models code is listed in `PROJECT.json` under `map` with
the file and lines it was translated from. Paths below are relative to `src/`.

## 1. The system

### Components, their state and their operations

| Component | Code | State | Operations | Modelled by |
|---|---|---|---|---|
| Split lazy signing API | `falcon-lazy/sign.c` 238-335, 1379-1450, 1950-2020 | a *token* = the caller's `sample1`, `sample2`, `sample_target` | `sign_dyn_lazy_offline`, `sign_dyn_lazy_online` | `LazyOps`, `LazySign`, `OneTimeSign` |
| Combined lazy signer | `sign.c` 1900-1945 | local token, attempt counter, the caller's `hm[]` and `sig[]` | `sign_dyn_lazy` | `SignDynLazy`, `Signer` |
| Norm tests | `common.c` 236-311, `sign.c` norm sums | running sum `sqn`/`s`, sticky word `ng` | `is_short`, `is_short_half` | `NormBound` |
| Buffered PRNG | `rng.c`, `inner.h` 820-880 | 512-byte buffer, `ptr`, ChaCha20 state | `prng_init`, `prng_refill`, `prng_get_u64`, `prng_get_u8`, `prng_get_bytes` | `Prng` |
| Offline Gaussian sampler | `sign.c` 40-235 | the PRNG, two output arrays | `sample_gaussian_poly_bern` | `GaussSampler` |
| Hash to point | `common.c` 34-253 | scratch array of words, stride, indices | `hash_to_point_vartime`, `hash_to_point_ct` | `HashToPoint` |
| SHAKE256 context | `shake.c` | 200-byte state, `dptr` | init, inject, flip, extract | `Shake`, `Sponge` |
| Public signing/verification API | `falcon.c`, `falcon.h` | the caller's SHAKE context, `sig[]`, `*sig_len`, `tmp[]` | `falcon_sign_start`, `..._finish` (dyn, tree, lazy), `falcon_verify_start`, `..._finish` | `FalconApi` |
| Key API | `falcon.c` 66-260 | none between calls | `shake256_init_prng_from_system`, `falcon_keygen_make`, `falcon_make_public`, the decoding of a private key; `falcon_get_logn`, `falcon_expand_privkey` | partly, `KeyGen`, `Verify` |
| Verifier arithmetic | `vrfy.c` | the arrays of a call | `mq_*`, both transforms, `compute_public`, `complete_private`, `verify_raw`, `verify_recover`, `is_invertible` | `Mq`, `Verify`; `mq_poly_addto` in `LazyOps` |
| Codec | `codec.c` | an accumulator of bits | modq, trim_i8, trim_i16, comp: encode and decode | `Codec` |
| Key generator | `keygen.c` | `f`, `g`, `F`, `G`, scratch area | `keygen`, `solve_NTRU`, `zint_bezout`; the zint, modp and FFT layers | partly, `KeyGen`, `Bezout` |
| Classical Falcon signer | `sign.c` | LDL tree, sampler context | `sign_tree`, `sign_dyn`, `ffSampling` | not modelled |
| FFT, emulated doubles | `fft.c`, `fpr.c` | none | polynomial arithmetic | partly, `LazyOps` (as exact ring operations) |
| System randomness | `rng.c` 33-110 | pointer and length of what is left of the seed | `get_seed` | `Seed` |
| Tests, harnesses, vendored trees | `falcon-lazy2`, `falcon-c`, `dilithium-pqm4`, `mbed`, ... | | | not modelled |

### How they interact

```
  caller --- falcon_sign_start/finish, falcon_verify_* (FalconApi)
    |            |  inject / flip / extract (Shake)      | hash_to_point (HashToPoint)
    |            v                                       v
    |        Zf(sign_dyn_lazy) (SignDynLazy) ---- loop of at most 128 attempts
    |            |                       |
    +--- Zf(sign_dyn_lazy_offline)   Zf(sign_dyn_lazy_online)      (LazySign)
                 |                       |
   sample_gaussian_poly_bern        target += H(m); short preimage (LazyOps)
       (GaussSampler)                    |
                 |                  is_short_half (NormBound)
             Prng <- SHAKE256

  caller --- get_seed (Seed) -> falcon_keygen_make (KeyGen): keygen, solve_NTRU,
                 zint_bezout (Bezout); encode private and public key (Codec)
  caller --- falcon_verify_finish (Verify): decode (Codec), transforms (Mq), norm
```

Everything runs on the caller's thread: there are no locks, callbacks, messages
or persistent state. The split API is called directly (by
`falcon-lazy2/tests/unittest.cpp` and the m4/m7 harnesses), with tokens the
caller keeps for as long as it wishes.

### What is hard

- **Protocol sequences.** The online phase adds the message into the token's
  target *in place*, so a token that is used twice carries both messages. Tokens
  can be prepared, used, used again and prepared again in any order.
- **Retries.** The combined signer retries with a new token, the padded format
  retries with a new hash; each reuses buffers the previous attempt wrote.
- **Overlapping buffers.** Hashed point and signature share storage in
  `falcon.c`; the classical signers are written for that.
- **Restarts.** `keygen` starts over for many reasons, some of them deep inside
  `solve_NTRU`, in one scratch area where everything of the attempt before is
  still lying; its callers turn each error that "cannot happen" into a code.
- **Partial reads.** `get_seed` may read the seed from `/dev/urandom` in pieces of
  any size, with interruptions and errors in between.
- **Limits and wraparound.** The 512-byte buffer and its readers, the
  saturating norm, 16-bit residues, an 8-bit store of a wider sample, block
  boundaries of the sponge.
- **Constant-time algorithms.** The in-place compaction of `hash_to_point_ct`,
  the GCD of the key generator, which decides on two words of its integers and
  corrects the result, and residues kept in Montgomery form and in bit-reversed
  order are right for reasons their comments only sketch.
- **Bit-exact formats.** An accepted signature must have one encoding: unused
  bits, a minus sign on zero, trailing bytes and the last byte of the room all
  have to be looked at.

The full list, each item at its line with the properties that cover it, is under
`hazards` in `PROJECT.json`.

### What makes each component correct

- *Split API*: a token's target is always its blinding target plus the sum of
  what it absorbed; what is accepted on first use verifies; the pool implements
  one-time tokens.
- *Combined signer*: what it returns within the bound verifies for its own
  message, and it gives up only after its last attempt.
- *Norm tests*: the verdict is the one of the exact sum.
- *PRNG, sampler*: no byte is used twice, no reader meets an empty buffer, the
  exponential's arguments stay in its domain, both arrays are filled.
- *Hash to point*: both functions compute the same point from the same stream.
- *Extended GCD*: its fixed count of turns ends with the right answer and with
  coefficients that satisfy the equation the NTRU solver goes on from.
- *Sponge*: what is read depends on the message and the place in the stream, not
  on how either was cut into pieces.
- *Verifier*: its verdict, reached through two transforms in Montgomery form, is
  that of the signature equation over the ring.
- *Codec*: what is encoded is decoded to the same value, and what is decoded has
  no other encoding.
- *Key pair*: what `keygen` returns can be encoded, decoded and completed to a
  basis that solves the NTRU equation, and its public key is the quotient.
- *Seed*: a generator is never made from a seed that is not written throughout.
- *Public API*: success means a signature over the call's own message, of the
  documented length, that the verifier's checks accept; explicit types accept
  only what a signer of that type emits; every call returns.

## 2. Modules

### `LazyOps`, `OneTimeSign`, `LazySign`: the split API

`LazyOps` holds the arithmetic as operators over the ring Z[x]/(x^2+1), the
degree of `logn = 1`: products are exact (the code computes them with the FFT
and rounds, or with the NTT modulo q), the rounding of `short_preimage` is round
half up of an exact quotient. `IsKey` states the equations a key satisfies
(`fG - gF = q`, `h = g/f mod q`).

`LazySign` is the state machine: `tok[t]` are a token's three buffers,
`Offline(t)` and `Online(t, hm)` the two functions in full, `out[t]` what the
last online call wrote and returned. `uses` and `owed` are history variables.
`OneTimeSign` is the abstract contract: a fresh token signs once and what it
delivers verifies; a spent one promises nothing. `ImplementsOneTimeSign` is the
refinement, with `life` computed from `tok` and `uses`, and `good` from `out`.

### `Signer`, `SignDynLazy`: the combined signer

The loop of `Zf(sign_dyn_lazy)`, one action per phase (`DynOffline`, `DynOnline`),
with its counter. `Overlap` chooses whether `sig[]` and `hm[]` are one buffer;
then an attempt's `s2` is read back as the next attempt's hash (`AsHash`).
`Signer` is the abstract signer (a call returns, and answers with a value that
verifies or with nothing).

### `NormBound`

Both norm tests, a coefficient at a time, in words of `2 * Half` values. `exact`
is the sum without overflow.

### `Prng`, `GaussSampler`

`Prng` keeps `ptr`; `block`, `lo` and `hi` are history: which bytes of the
keystream the last read returned. `GaussSampler` EXTENDS it and adds the
sampler's loop: three words, the byte `y`, the byte `c`, then the decision and
the write. The table lookup of `sample_berncdt` and the comparison with
`exp_scaled` are choices; the arguments given to the latter are computed.

### `Sponge`, `Shake`, `HashToPoint`

`Shake` has the loops of inject and extract, one action per turn, over a rate of
`Rate` cells that hold the *set* of values XORed into them since the last
permutation; a permuted block goes to `chain`. `Sponge` is the abstract promise.

`HashToPoint` EXTENDS `Shake`: a caller uses the context as it likes, then hashes
(`Hash`), and the words are read from it two bytes at a time. `hash_to_point_ct`
goes step by step: read and mark, then one `Squeeze` per cell and one `NextPass`
per stride. `hash_to_point_vartime` runs beside it on the same stream (`point`,
a `VartimeTurn` for each word) until it has its n residues. One model thus speaks
for the context alone, the context under a caller that mixes its pieces with those
of the library, and both functions.

### `Mq`, `Codec`, `Verify`

`Mq` is `vrfy.c`: residues with their masked corrections (`mq_add`, `mq_sub`,
`mq_rshift1`, `mq_montymul`, with words cut at 32 bits), the addition chain of
`mq_div_12289`, one operator per layer of `mq_NTT` and `mq_iNTT` with the code's own
tables for degrees up to 16, and the functions on keys made of them. Everything is
in arithmetic modulo the real q = 12289. `Codec` has the four pairs of encoders
and decoders; an encoder produces its bits through an accumulator that is emptied a
byte at a time, as the code's does, and refuses what does not fit.

`Verify` composes both into one call from a private key and a signature value to
a verdict: `MakePublic`, `Encode`, then bits may be flipped on the way,
`DecodeKey`, `DecodeValue`, one step per layer of a transform, `Product`,
`Judge`. It states the reference separately: the schoolbook product of
Z_q[X]/(X^n+1) and the residue of least absolute value.

### `Seed`, `Bezout`, `KeyGen`

`Seed` is `get_seed`: `Getentropy`, `OpenUrandom`, `ReadUrandom` (a read gives as
many bytes as the system likes), `ReadError`; an interrupted read changes nothing.

`Bezout` is `zint_bezout`, one turn of its outer loop per action. Integers are
values, and words where the code cuts them: `Top` extracts two words, `Step` is one
step on extracted words, `Factors` the W of them, `CoReduce` and `CoReduceMod` one
of the two results of `zint_co_reduce` and `zint_co_reduce_mod`, where a value
wraps at the size of its array. Carries inside the two are not modelled;
`FactorsBounded` is what makes them fit.

`KeyGen` EXTENDS both, and `Codec`: from the seed through `keygen` (`Draw`, `Check`,
`Deepest`, the turns of `Bezout`, `Multiply`, `Intermediate`, `BigToSmall`,
`Equation`, each of which may end in `Restart`) to `EncodePrivate`, `EncodePublic`
and `Load`, the decoding and completion that begin a signing call. What an attempt
leaves in the scratch area is `Stale` to the next one: a use of it would be an
evaluation error of the run.

### `FalconApi`

One caller drives the streamed API: `SignStart`, `Inject`, `SignFinish` (the
checks in order, then flip and save the context), `HashPoint` and `SignEncode`
(the loop), `SignLazy` (the lazy function, which returns before it encodes),
`VerifyStart`, `VerifyFinish`; `Transcode` is whoever carries a signature to the
verifier. A hashed point is the data and how much had been squeezed before; a
value is the point it is a preimage of, the size of its compressed form, and
whether the CT format can hold it. The one-call wrappers are the same sequences.

### Support

`MC*` modules give the constants their values; `*_proofs` modules hold the
theorems: `LazyOps_proofs` (lemmas on the ring), `LazySign_proofs` (the split API
and the combined signer), `SignerLoops_proofs` (norm tests, generator and
sampler), `HashToPoint_proofs` (SHAKE256 context, reduction of hashed words,
compaction), `Codec_proofs` (what encoders and decoders yield), `Verify_proofs`
(residues, transforms, verifier), `KeyGen_proofs` (seed, extended GCD, key
generator), `FalconApi_proofs`. Two specifications are proved about in one
module where they share their lemmas, which is why `SignDynLazy`'s Init, Next,
Spec, and the definitions that would clash with `LazySign`'s, are called
`DynInit`, `DynNext`, `DynSpec`, ..., and their common constants (`Hashes`,
`Samples`, `Key`) are declared in `LazyOps`.

Definitions named `X_Something` above a definition `X` are faults: what a
plausible mistake in that place of the code would look like. `PROJECT.json`
(`mutants`) pairs each with the property that must, and does, fail under it.

## 3. Runs

| Run | What it asks | Bounds, and why they are enough |
|---|---|---|
| `LazySign` | accounting of targets, soundness of fresh and of reused tokens, refinement of `OneTimeSign` | a real key at `logn = 1`, real q and bound; two tokens, so that calls interleave; two uses per preparation, so that a target moves, moves again and is renewed; hashes and samples at the ends of their ranges. Norms on both sides of the bound are reached |
| `LazySign_bound` | does the signer reject only what the verifier rejects? (no) | same |
| `SignDynLazy` | the loop's limit, soundness, refinement of `Signer` with liveness | all 128 attempts; three messages; blinding vectors that succeed and fail |
| `SignDynLazy_overlap` | the same with one buffer (no) | same |
| `NormBound` | exactness of both verdicts | 3-bit coefficients in 6-bit words, the proportions of the code; vectors of four reach the top bit and wrap |
| `GaussSampler` | the generator under its reader: freshness, emptiness; the sampler: filling, arguments of the exponential | a 42-byte buffer so that refills fall at every place of the 26-byte pattern; extreme steps and bytes |
| `GaussSampler_int8` | is the stored sample the drawn one? (no) | same |
| `HashToPoint` | equality with the variable-time function; order, free destinations; refinement of `Sponge` | degree 2 with 6 extra words: strides 1, 2, 4, every pattern of rejections; kept words with different residues at the edges of the reduction. Blocks of 3; pieces 0 to 4: empty, partial, whole and more than a block, so that messages and outputs cross block boundaries at every place; re-initialisation at any time |
| `KeyGen` | the seed written throughout; ranges and equations of the GCD's coefficients, size of its factors, length removed by a turn, its answer; the NTRU equation; no refusal of a key that was generated; the key pair | degree 2; q = 277, so that the two norm tests leave coefficients up to 17 and every one of the reasons to start over occurs; four words of four bits. With two words the top words *are* the integers and no decision of the GCD is ever wrong; with more they are. Five-bit fields, narrow enough for coefficients that do not fit; a seed of 3 bytes: every way of cutting the reads |
| `Verify` | verdict against the equation; one encoding; what is sent arrives; the inversions agree | degree 4 (two layers in each transform) with the real q and tables; three keys, one with an f that is not invertible; values at the ends of every format in rooms one byte short, exact and larger; norms on both sides of the bound; every one and two bits flipped in what is sent |
| `FalconApi` | signatures over the right message, lengths, round trip, canonical encodings, termination | degree 512; sizes of values just inside, at and beyond the padded room; buffers below, at and above each format's size; signatures changed in header, length and tail |
| `FalconApi_lazy` | does success of the lazy function mean a signature? (no) | same |

Deadlock is checked wherever the system can always go on. `NormBound`,
`GaussSampler*`, `HashToPoint`, `KeyGen` and `Verify` model functions that end (the
sampler's runs also stop at `MaxRefill`), so their configurations turn it off.

Counters that are bounded for model checking only: `MaxUse` (uses of a token
between preparations), `MaxRefill`, `MaxChunks` (chunks injected), `MaxIn` and
`MaxOut` (bytes through a context). `MaxTry` is the code's 128.

### Runs that end in a violation

Four runs check what the repository says of itself and find that the code does
otherwise (details and quotations in `PROJECT.json`, `findings`):

1. `LazySign_bound`: "we must use the same bound as the verifier"
   (`sign.c:1811-1814`), but `is_short` accepts three times the bound of
   `is_short_half`. A consequence at `logn = 1`: signatures the signer rejects
   (their norm can reach 149298, the bound is 101498) all verify, as the
   verifier's limit is 304494.
2. `SignDynLazy_overlap`: `do_sign_dyn_lazy` writes `s2[]` on a failed attempt,
   which the comments of its two siblings forbid because `s2[]` may overlap
   `hm[]`, and `falcon_sign_dyn_lazy_finish` does overlap them.
3. `FalconApi_lazy`: `falcon_sign_dyn_lazy_finish` returns 0 without having
   written a signature or `*sig_len`.
4. `GaussSampler_int8`: samples beyond one byte are stored modulo 256. By the
   constant of `div16404853` a sample z has a weight of 2^(-z*z/64081), a
   deviation of about 215, so this befalls more than half of the draws.

Two smaller disagreements are stated by a passing run, which says what is true
instead. In `zint_bezout`: the invariant `b = x*u1 - y*v1` (`keygen.c:1591`)
holds modulo x*y only, because `u1 = y` is reduced to 0 (`Congruences`,
`Coefficients`); and when the second operand is 1 the equation of `keygen.c:1576`
does not hold (`Identity`). `SolverExact` shows why the second does no harm at
degree 2: such coefficients lead to an F or G that is too large, and `keygen`
starts over.

## 4. Fairness

- `SignDynLazy`: weak fairness of `DynOffline \/ DynOnline`. One thread runs a call
  to its end and every iteration is finite; calls themselves are not fair.
- `FalconApi`: weak fairness of the loop's steps for the same reason. The
  padded loop has no limit, so its end needs one more assumption: strong
  fairness of an attempt whose value fits, which is the sampler's probability
  of producing one stated as fairness.
- No other run states liveness. The rejection loops of the sampler and of the
  hash functions, and `keygen`'s restarts, end with probability one; nothing in the
  code bounds them and no fairness of the code's scheduling makes a good draw
  happen, so nothing is claimed. That each *turn* of `zint_bezout` gets nearer its
  end is the action property `Shrinks`.

## 5. Proofs

All theorems are for every value of the constants that the modules' `ASSUME`s
allow; the few that need more state it as a hypothesis. Each safety theorem goes
through an inductive invariant, named below, that holds initially, is kept by
every action (one lemma or step per action) and implies the property.

- **`LazySign_proofs`, the split API**. Inductive invariant `IInv`: types,
  `TargetAccounting`, `Bookkeeping` (a history variable's value is what the output
  buffer says it is) and `AcceptedVerifiesForSum`. The last one is needed because
  it holds on *every* use, while `FreshAcceptedVerifies` is its case of one use and
  is not inductive. The argument: the updated target is congruent to the blinding
  target plus the sum; the preimage is congruent to it under `h` because the
  key's equations hold; its coefficients are small enough, when the norm test
  accepts, for recentring modulo q to give them back; so the verifier computes
  the same vector, and its bound is not below the signer's. `Refinement` then
  maps each action to `Prepare`, `Sign` or `Reuse`. From: `IsKey(Key)`, q odd
  below 2^16, samples and hashes in range, and the assumptions on the bound
  named in `LazyOps`.
- **`LazySign_proofs`, the combined signer**. `DynIInv` adds `Attempting` (the
  message is intact during a call, `short` is reset, the counter is below its
  limit when an attempt starts). `ReturnedSound`, `GivesUpLastHolds` and
  `SafetyRefinement` assume `~Overlap`: with one buffer they are false (run
  `SignDynLazy_overlap`).
- **`SignerLoops_proofs`, the norm tests**. The invariant is `SumOrSaturated` with
  the range of the loop counter: until the top bit has been seen nothing has
  wrapped, and after that the exact sum is beyond any bound. It needs squares to
  be at most `Half`, and both bounds below it.
- **`SignerLoops_proofs`, generator and sampler**. For the generator: what has been
  read lies below `ptr` in the current block, and `ptr` stays in the buffer between
  calls, for any buffer of more than 9 bytes and any mix of its three readers (TLC
  runs the generator under the sampler only, which does not call
  `prng_get_bytes`). For the sampler: the same, with the prefix of the arrays that
  is written. `DivExact` shows that the multiply-and-shift of `div16404853` is a
  division for every 32-bit operand, which TLC's integers cannot evaluate;
  `ExpInRange` uses the division.
- **`HashToPoint_proofs`, the context**. `SpongeImplemented`: the context implements
  `Sponge` for every size of block and of piece, under every caller. The invariant
  has two halves. `Injected(q, d)`: q blocks of the message are full and in
  `chain`, the d bytes after them are in `block`. `Reading(e, g)`: since the flip
  the state has been permuted e times, and the g bytes the call in progress has
  written are those of the stream. The flip takes one to the other because the
  padding bytes fall in cells where the message has none; a turn of extract
  preserves the second because place `e*Rate + r` of the stream is cell r after e
  more permutations (`Place`). `ReducedIsResidue` is the arithmetic of
  `hash_to_point_ct`, for every word: three masked subtractions are the remainder.
- **`HashToPoint_proofs`, the compaction**. `CompactionAgrees`: whatever the degree,
  the oversampling and the pattern of rejected words, `hash_to_point_ct` leaves
  the point of `hash_to_point_vartime` whenever the words read are enough for it.
  A kept word with r kept and g rejected words before it must go from cell r + g
  down to cell r, and the pass of stride p moves it if bit p of g is set. So
  before the pass of stride p it is in cell `Spot` = r + g - (g % p), and the
  invariant `HInv` says just this: in a pass, the values that u has gone by are at
  their `Spot` for 2p and the others at theirs for p, no other cell is valid, and
  v counts the former (`Placed`). As Spots are in the order of the words
  (`SpotOrder`), no two values meet: the destination of a move is always a rejected
  word (`CompactionFree`, the comment's claim at `common.c:154-157`), and the order is
  kept (`CompactionOrder`). After the last pass p is beyond g, and Spot is r.
- **`Codec_proofs`**. For arrays, strings, rooms and field widths of every size.
  - Types: whatever bytes they are given, `modq_decode`, `trim_decode` and
    `comp_decode` refuse or yield values in their ranges, and the fixed-width ones
    consume as many bytes as the fields have; `comp_encode` fits in its room. Behind
    it is what the accumulator does: between two pushes fewer than eight bits are
    left, and what is written are bytes.
  - Round trips (`TrimRoundTrip`, `ModqRoundTrip`, `CompRoundTrip`): what an encoder
    writes is decoded to the same array, and exactly it is consumed, whatever follows
    in the buffer. And conversely (`TrimOneEncoding`, `ModqOneEncoding`,
    `CompOneEncoding`): bytes that a decoder accepts begin with the encoding of what
    it returns. Both directions go through the bits: an encoder's bytes are the bits
    of its fields in order, filled up with zeros, and a decoder's fields are the bits
    of its bytes. For `comp` the pieces differ in length: the place where a
    coefficient begins is the sum of the lengths before it, and a piece (sign,
    seven low bits, zeros, one) is determined by its value because minus zero and
    quotients from 16 on are refused.
- **`Verify_proofs`**. For every degree that the tables here allow (2 to 16) and
  every set of calls: keys, values, points, rooms and flipped bits.
  - Ranges. For all residues, `mq_add`, `mq_sub` and `mq_rshift1` are the operations of
    Z_q, and `mq_montymul(x, y)` is the residue z with z*2^16 = x*y modulo q. The last
    is Montgomery's argument: the word added makes the low 16 bits vanish, the sum
    stays below 2^32 and its upper half below 2q, so one correction is enough. The
    ranges then go through the layers of both transforms, the chain of
    `mq_div_12289` and `compute_public`. `VInv` says which arrays are filled at each
    stage of a call, and in which range; `TypeCorrect` follows: nothing ever wraps in
    a `uint16_t` or an `int16_t`.
  - `SentArrives`, `EncodingIsUnique`. `Delivery` says what is in the bytes at each
    stage: the published key and the emitted value with the bits of the call flipped,
    and, once they are accepted, that `h[]` and `s2[]` are what a decoder reads in
    them. With the theorems of `Codec_proofs`, unflipped bytes are read back, and
    accepted bytes are an encoder's.
  - `NttProduct`, `NttUndone`, `InttUndone`. The invariant of the layers is not the value
    of a sum over all coefficients, but one operation: after j layers an array is 2^j
    blocks, each taken modulo X^l - z for its own root z, and the layer takes the
    multiplication by X in a block (`XMul`) to the multiplication by X in its two
    halves, as the squares of the next roots are z. It is linear besides. So the whole
    transform takes the multiplication by X in Z_q[X]/(X^n+1) to a multiplication
    cell by cell; a product of the ring is a sum of multiples of one factor by
    powers of X, and the transform of the unit is 1 everywhere, which gives
    `NttProduct`. A layer of `mq_iNTT` undoes the layer of `mq_NTT` up to a factor of
    2, and the rescaling takes the factors away.
  - `VerdictIsEquation`. `Transforms` says what each stage holds: so many layers of the
    key's transform, the Montgomery form of it, so many layers of the value's, then so
    many layers back to s2*h times a power of 2, s2*h, s2*h - c0. The centred residues
    are the `Least` ones up to sign, and the verdict is that of the equation.
  - `Fermat`, `DivUndone`. The exponents of the addition chain of `mq_div_12289` add up
    to q - 2, so it divides if the power q - 1 of a residue is 1. That q is a prime is
    not assumed: residues with this property are closed under products, opposites
    and factors (`UnityFactor`); nine small primes have it by computation (twelve
    squarings of a cube, q - 1 being 3*2^12); the other primes up to 109 are products
    of smaller residues modulo q up to sign (`Relations`); for y beyond 110, q = k*y + r
    with k and r below y makes y a factor of the opposite of r. So there is no least
    residue without the property.
  - `PublicIsQuotient`, `PrivateIsCompleted`, `KeyIsRecovered`, and with them
    `InversionsAgree`: division cell by cell, between two transforms, is division in
    the ring; G and the key are determined because the transforms are injective.

  From `DegreeAssumption`, `CasesAssumption` (the arrays' types) and `NtruAssumption`: the
  private keys satisfy f*G = g*F modulo q, as all that `keygen` returns do; only
  `InversionsAgree` needs the last.
- **`KeyGen_proofs`**. For degree 2, as the module; for every prime q, every width of
  the fields, words of 2 to 31 bits in any number, and every set of polynomials
  that the generator may yield as long as their resultants fit.
  - `SeedIsWritten`: while `/dev/urandom` is read, the bytes written are exactly
    those below `at`.
  - `FactorsWithinWord`: a step on extracted words replaces a factor by a difference
    and doubles the others, so that after i steps either row's factors sum to at
    most 2^i in absolute value; the same induction shows that the low W bits of the
    two combinations vanish (`FactorsExact`), so `zint_co_reduce` divides exactly,
    whatever has been decided on the top words.
  - `CoefficientsFollow`: `Ninv` is -1/m modulo a word (Newton's iteration doubles
    the number of correct bits, `NewtonStep`), so the Montgomery quotient of
    `zint_co_reduce_mod` divides exactly and lies where one correction brings it below
    m. A turn therefore multiplies all of x*u0 - y*v0 - a and x*u1 - y*v1 - b by
    factors and divides by a word; as x*y is odd, divisibility by it survives the
    division (`WordCancels`). In the end a is 1, and by the ranges of u0 and v0 the
    only multiples of x*y that x*u0 - y*v0 - 1 can be are 0 and, when y is 1, -x. This needs
    no assumption on the number of turns or on the decisions.
  - `ResultOnceReduced`: `Result`, if b is 0 whenever 0 is returned. A common factor of x
    and y divides x*u0 - y*v0, so 1 is returned for coprime operands only. Conversely
    the factors of a turn have determinant 2^W (a step doubles it), so the integers
    before a turn are combinations of those after it, and common divisors of a and b
    divide x and y (`CommonDivide`): once b is 0, a itself does.
  - `SolverIsExact`: `Held` says what each stage has in its arrays. The difference
    f*G - g*F is q times what `zint_bezout` returned, and Babai's reduction does not
    change it whatever integers it subtracts with (`DetKept`). That is q, unless g
    has norm 1 and the coefficients are wrong; then it is q*(1 - |f|^2), which a
    basis of coefficients within 127 cannot give when q >= 140 and the
    orthogonalized norm has been tested (`TooLarge`). So the last test of
    `solve_NTRU` always passes at this degree.
  - `TypeCorrect`: the same invariant, with the ranges from `Codec_proofs`.
  - `KeysAccepted`, `KeysMatch`, for q from 256 to 12289: `Carried` adds what the
    encoded keys are encodings of. By the round trips the signer decodes the same f,
    g and F. The G it completes is congruent to g*F/f, as the generated one is, f
    being invertible when the public key was computed; both are within 127, and
    residues of such values are distinct when q >= 256. So G fits its byte, the key is
    not refused, and the basis is the generated one.

  `KeyAssumption` has residues other than 0 invertible (q is a prime);
  `RoomAssumption` has resultants, and 1, below 2^(W*Words).
- **`FalconApi_proofs`**. `HashedAnew`: during a call the saved context is the
  one the call was given, flipped and unread, and when the signer runs the
  buffer holds its first point. The loop preserves it because a misfit goes
  back to `HashPoint`. `RoomGranted` is what the checks leave known of type and
  buffer size; with it `LengthsDocumented` follows, and `EmittedAccepted`: for each
  format, what the decoder consumes is what the encoder wrote, and none of the
  fourteen checks fires. `AcceptedIsEmitted` is the converse: the checks that
  pass determine header and length, and by `SigShape` bytes that are not zero can
  only follow the decoded value, where the tail check looks. `TypeCorrect` bounds
  every length, context and output.

Type correctness is proved for every module that has a type invariant.

Only model-checked, and why:

- liveness (`Signer`'s termination in `ImplementsSigner`, `EveryCallReturns`) and
  anything with ENABLED, which the prover does not handle;
- `Bezout.Shrinks`, and of `Bezout.Result` that b is 0 when 0 is returned: that the
  fixed count of turns suffices. It rests on how far a quotient of top words can be
  from that of the integers, turn by turn; all other theorems hold without it;
- `Quotient`'s size before `zint_finish_mod` is proved as part of
  `CoefficientsFollow`, the 64-bit carries inside the loops are not modelled.

Inductions: the library's induction theorems take an operator as a parameter and
cannot be used, so a fact about all of a sequence or of a recursive function is
proved by taking the least index at which it fails (`WFMin` of well-founded
induction on a set, or an interval's own minimum), where the one before it holds.

## 6. Abstractions to keep in mind

- Ring operations of the signer are exact and of degree 2. Rounding errors of the FFT are
  not modelled; casts of `s1`, `s2` to 16 bits do not wrap in the range the
  assumptions give.
- Random words are choices. Distributions and probabilities are not modelled.
- The Keccak permutation and ChaCha20 are opaque: each distinct input gives its
  own output.
- `prng_get_bytes` has no caller; `Prng` models what it would do to the readers.
- `set_fpu_cw` is left out: only x87 builds define it.
- In `FalconApi` a caller uses a new buffer for each signing and gives the
  finishing function the nonce it hashed, as the wrappers do; a caller that
  mixes them up is outside the contract. Calls respect the sponge's contract
  (inject, flip once, extract). `unittest.cpp:66-68` does not: it seeds key
  generation from a context it has never flipped.
- Key faults are what a check can tell apart, not bytes.
- `KeyGen` is of degree 2, where a resultant is a squared norm and the recursion of
  `solve_NTRU` has its deepest level and one more. q, the field widths and the words
  are smaller than the code's, so that the same tests bite on small numbers. The
  scaled rounds of Babai's reduction are one, the last, which is not scaled; where
  a quotient is half-way either neighbour may be chosen. The test of the NTRU
  equation at the end is then redundant (`SolverExact`); at larger degrees it is
  what catches rounding errors.
- `Verify` has degree 4 and fixed keys: the tables of the transforms are the
  code's for degrees up to 16, the bounds of the norm those of degrees 2 to 16.
- `Seed` is the Unix build: the WIN32 branch of `get_seed` is not modelled.

## 7. Not modelled, and why

- **Classical signer** (`do_sign_tree`, `do_sign_dyn`, `ffSampling`, the LDL tree,
  `falcon_expand_privkey`): inherited code that the online/offline scheme does not
  run; nearly all of it is floating-point arithmetic. Its norm tests are those
  of `NormBound`, its API that of `FalconApi`.
- **Rounding** of `fft.c` and `fpr.c`: real-number error bounds are out of reach of
  both tools.
- **The zint and modp layers** of `keygen.c` below `zint_bezout`, depths of
  `solve_NTRU` beyond the first, `poly_small_mkgauss`'s table.
- **Header bytes and lengths of keys**, `falcon_get_logn`: single comparisons.
- **Harness code**: tests, benchmarks, fuzzers, board programs. It is used as the
  reference for how the split API is called.
- **Vendored trees and earlier copies** (`mbed`, `falcon-c`, `falcon-20201020`,
  `dilithium-pqm4`, ...). They are nearly all of the repository's lines: `mbed` alone
  holds most of them, and the Falcon copies repeat the files modelled here. The
  share of the whole repository that the map covers is small for that reason; of
  `falcon-lazy` outside `fft.c`, `fpr.c` and the test programs it is about a third.
- **Hazards without a property** are listed in `PROJECT.json` with the reason.

## 8. What could come next

1. The LDL tree: its size function against the walk that fills it.
2. The rest of the zint layer (CRT rebuilding, additions with shifts) against
   integers, then a second depth of `solve_NTRU`.
3. The layout of `tmp[]` in `falcon.c`, where several arrays share storage.
4. Proofs: `Shrinks`, from a bound on the error that the top words make in a
   comparison, and with it the rest of `Result` (`ResultOnceReduced`).
