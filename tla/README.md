# A verification project for figleaf

figleaf encrypts and decrypts JPEG images so that the thumbnail of the image,
roughly, survives: it cuts the quantized DCT coefficients of an image into
*units* (one frequency of one thumbnail block) and applies a cipher that keeps
the sum, the range or the varying bits of a unit. This directory holds TLA+
modules for it and for the libjpeg 6b it is built with, the TLC configurations
that check them, and TLAPS proofs.

`src/figleaf/*.c` is the program. `src/figleaf/jpeg-6b` is libjpeg, built from
the repository; it holds nearly all the state that an image passes through.
`src/figleaf-torch-nn` is a face classifier used to evaluate the ciphers.

## 1. Inventory

| component | state it keeps | operations | what makes it correct |
|---|---|---|---|
| `figleaf.c` | the context (mode, method, block size, argument, salt source, function pointers); two open files per image | `main`: options, batch over a directory or one file; `figleaf_process_image` | a run that exits with 0 has written all outputs; a failed run damages at most one; a run that decrypts with the options of the run that encrypted uses the same key and parameters, unless a salted file was renamed |
| `tpe.c` | loop variables, `je->blocks` | `tpe_process_image`, `tpe_process_block` | every coefficient is in exactly one unit, in bounds; one tweak per unit; both runs make the same units |
| `minmax.c` | - | the range functions | the range holds the block; the range found later lies within the one used before |
| `fisheryates.c` (via `shuffle.c`, `gibbs.c`) | block, swap partners | `shuffle`, `unshuffle` | one inverts the other; a permutation of the block |
| `gibbs.c`, `util.c` | block, running budget, sum | `encrypt_block`, `decrypt_block` | sum and range are kept; the asserts and the "range is empty" exit are never reached; inverse |
| `fpe.c`, `drpe.c`, `mosaic.c`, `noop.c` | block, keystream | element-wise ciphers | inverse for the same range; the result can be entropy-coded |
| `lsb.c`, `drpe_lsb.c` | block, `delta`, keyed list of elements | encrypt with fix-up, decrypt | delta stays exact; it ends as close as the bits allow; only low bits are lost |
| `jutil.c` | `struct jeasy`: copies of all coefficients | prepare, return, free | what was read is what is written |
| `kdf.c`, `random.c`, libsodium | - | key, keystream, nonce hash | functions of their inputs, so both runs agree |
| libjpeg: reader (`jdapimin`, `jdtrans`, `jdmarker`, `jdinput`, `jdatasrc`, restarts of `jdhuff`) | byte source, marker reader, input controller, `global_state` | header, coefficients, finish | ends on every file; damage spreads from the restart interval it hit only where a false marker or the end of the file hides what follows; accepts figleaf's order of calls |
| libjpeg: writer (`jcapimin`, `jctrans`, `jcparam`, `jcmarker`, `jcmaster`, `jdatadst`, restarts of `jchuff`) | destination, passes, which tables were sent | copy parameters, write coefficients, finish | a reader that starts from nothing finds all the writer assumed |
| libjpeg: Huffman coding (`jchuff`, `jcphuff`, `jdhuff`, `jdphuff`, scripts of `jcmaster`, `jcparam`) | bit buffers, predictions, restart counters, EOB run, correction bits, tables | gather, encode, decode a scan | decoding gives back the coefficients bit by bit; made tables are prefix codes; no buffer overflows |
| libjpeg: coefficient controllers (`jccoefct`, `jdcoefct`, the one of `jctrans`) | whole-image arrays, position in the scan | MCUs to arrays and back, in one or several scans, shown meanwhile | no access outside an array; dummy blocks where the standard wants them; each block shown once, never ahead of its data |
| libjpeg: transformations (`transupp`, `jpegtran`) | work arrays | eight rotations and mirrorings, trimming, reduction to grey | the file is the transformed picture, incomplete edges included |
| libjpeg: output rows (`jdapistd`, `jdmaster`, `jdmainct`, `jdsample`, `jdmerge`, `jdpostct`) | ring of row groups with context pointers, strip buffer, counters | `jpeg_read_scanlines`, `jpeg_start_output` | every row once and made of its own and its neighbours' samples; every call with data progresses |
| libjpeg: input rows (`jcapistd`, `jcmainct`, `jcprepct`, `jcsample`) | main buffer, ring of three row groups | `jpeg_write_scanlines` | the mirror image of output rows |
| libjpeg: memory manager (`jmemmgr`, `jmemnobs`) | pools, large objects, virtual arrays with window and backing store | alloc, request, realize, access, free | objects apart, exact account; a reader gets what was written |
| libjpeg: DCT, colour conversion, quantizers; other applications | tables | - | not modelled, see 7 |
| `bounce.c`, `cascade.c`, `common.c`; classifier; tests | - | unreached or not part of the program | not modelled |

Interaction: `main` fills the context with function pointers and calls
`figleaf_process_image` per file; this reads the coefficients through a
decompression object into a `struct jeasy`, derives a key and calls
`tpe_process_image`; that calls a range function and a cipher per unit, with a
nonce hashed from the tweak; the results are put back into libjpeg's arrays and
entropy-coded by a compression object. Inside libjpeg the modules of an object
call each other through tables of function pointers: the source feeds the
marker reader, this the entropy decoder, this the coefficient controller, whose
arrays the memory manager keeps. A source that runs dry suspends the whole
chain, and the call is made again later. Everything is one thread. Two *runs*
of the program interact through files: decryption sees only the ciphertext, the
options and the file name.

What is hard here: the decrypting run recomputes all that the encrypting run
computed (units, tweaks, ranges, random numbers, swap partners, budgets) from
changed data and must arrive at the same values; encoder and decoder are
separate code that must agree on every table, prediction and counter; routines
that are cut off at any byte and retried; partial blocks, MCUs, row groups and
strips at the borders; data that change (files, tables, windows of an array)
between being looked at and being used; exits in the middle of a file or batch.

## 2. Modules

Abstract specifications:

| module | promises | implemented by |
|---|---|---|
| `BlockCipher` | a block is encrypted into a related block and recovered | `FisherYates`, `Gibbs` |
| `ImageCipher` | the units of an image are processed once each, in any order, and again by the second run | `Tpe` |
| `BlockArray` | an array keeps what is stored in it | `VirtualArray`, inside `JpegMemory` |

figleaf:

| module | models | checked or proved by |
|---|---|---|
| `FisherYates` | both functions of `fisheryates.c`, one action per loop iteration | `FisherYates.cfg`, `FisherYatesProofs` |
| `Tpe` | the loops of `tpe.c`; the cipher is a constant operator of pass, tweak and block | `MCTpe`, `WalkProofs` |
| `Gibbs` | `gibbs.c` and `util.c`, one action per iteration | `MCGibbs`, `GibbsProofs` |
| `Jcoef`, `ElementCiphers`, `Methods` | 16-bit coefficients and range functions; ciphers as operators; the tables of `main` | through the next three |
| `TpeBlock` | one unit, encrypted and decrypted with the range each run sees | `MCTpeBlock`, `TpeBlockProofs` |
| `LsbTpe` | the fix-up loops of `lsb.c` and `drpe_lsb.c`, flip by flip | `MCLsbTpe`, `LsbTpeProofs` |
| `Figleaf` | runs of the program on a few directories; extends `Methods` | `MCFigleaf`, `FigleafProofs` |

libjpeg:

| module | models | checked or proved by |
|---|---|---|
| `JpegStream` | a file as a sequence of symbols: bytes, marker segments, coded MCUs | below |
| `JpegReader` | the decompression object as figleaf drives it, byte source to coefficient arrays, `pc` telling the routine | composed in `JpegTranscode` |
| `JpegWriter` | the compression object of a transcoder | composed in `JpegTranscode` |
| `JpegTranscode` | `figleaf_process_image`: both objects, called in its order, and again on its output | `MCJpegTranscode`, `LibjpegProofs` |
| `HuffTable` | tables: the file's, the encoder's, the decoder's, the one made to measure | below |
| `HuffEncoder` | `jchuff.c`, `jcphuff.c` | composed in `EntropyCoding` |
| `HuffDecoder` | `jdhuff.c`, `jdphuff.c` | composed in `EntropyCoding` |
| `ScanScript` | the check of a scan script, the usual progressive script | instance `Script` of `EntropyCoding` |
| `EntropyCoding` | an image through all of these, scan by scan | `MCEntropyCoding` |
| `JpegGeometry` | how an image divides into blocks and MCUs | below |
| `Transupp` | the transformations of `transupp.c` | extended by `CoefController` |
| `CoefController` | the coefficient controllers, from file to arrays to file to display | `MCCoefController` |
| `OutputRows`, `InputRows` | sample rows, decompressor and compressor | `MCRows`, which takes one or the other; `OutputRows` in `WalkProofs` |
| `VirtualArray` | virtual arrays behind their windows | inside `JpegMemory`, and proved by itself in `LibjpegProofs` |
| `JpegMemory` | pools and large objects; extends `VirtualArray` and takes its space from them | `MCJpegMemory`, `LibjpegProofs` |

The proofs of a module are in the module named after it, with two exceptions:
`LibjpegProofs` has those of `VirtualArray`, `JpegMemory` and `JpegTranscode`, and
`WalkProofs` those of the two walks over an image, `Tpe` block by block and
`OutputRows` row by row. `CoefTheorems` has the lemmas that several
of them rest on: about numbers (induction, functions defined by recursion on a
number, multiples), and about the operators of `Jcoef` and `ElementCiphers` (bits,
ranges and single coefficients). The ciphers' proofs extend it; those that need
only its numbers take it as an instance, `Facts`.

The variables and operators have the names of the code's where there is one. A
`pc`, `phase`, `pass` or `app` says which loop or function runs. Variables
commented "history" are not in the code: they record what a property compares
with. Random numbers and keystreams are arrays chosen by `Init` (or when first
used, in `Gibbs`) and looked up by the second function, because `random_uints`
and `crypto_stream` are functions of key and nonce, which agree. What a picture
loses by being encrypted and decrypted is said in one place, `TpeBlock` with
`LsbTpe`: the default method drpe-lsb loses low bits, drpe some blocks, shuffle
the AC coefficients, gibbs and fpe those that they skip. The modules above them
leave the cipher open and claim no recovery. `Tpe` takes any operator of pass,
tweak and block, and says that both runs give the cipher the same units with the
same tweaks. In `Figleaf` a run adds what it does, and with which key and
parameters, to the list of what was done to a picture, and a run with `-d` does
so too.

The grain of the libjpeg modules differs with the question. `JpegReader` and
`JpegWriter` know markers and restarts and take the data of an MCU as one
symbol that carries its values and the predictions and tables it was coded
with; decoding it with others is decoding something else. `EntropyCoding` has
the bits of an MCU and no file around them. `CoefController` has neither: a
block is known by its place and whether its AC coefficients are there.
`OutputRows` and `InputRows` know a row of samples by its number.

Operators that stand just before a definition with a longer or modified name
(`SwapWithoutTmp`, `XMaxUncut`, ...) are *mutants*: slips that a property must
notice. They are used by no specification; `PROJECT.json` names the property
that finds each of them.

In `Figleaf`, a path is a pair of directory and name, a file holds nothing, an
empty file, a damaged JPEG file or a picture. `Open` empties the output before
`Read` looks at the input, as the code does. Every exit on the way (an
unreadable file, libjpeg's error handler, a full disk, an interruption) is
`Fail`, which leaves the files as they are or the output half-written. `isdir`
ignores the result of `stat`: for a path that does not exist its answer is a
nondeterministic choice.

## 3. Runs

All runs finish within two or three minutes. `CHECK_DEADLOCK FALSE` is set where
behaviours end because the functions return; `CoefController`, `EntropyCoding`
and `JpegTranscode` have an explicit step at the end instead, so that a stop
anywhere else is reported.

| run | bound (distinct states) | shows |
|---|---|---|
| `fisheryates` | blocks of 4, random numbers 0..3, which reach every partner (269 568) | unshuffle inverts shuffle; refines `BlockCipher`, whose blocks are rearrangements, and ends |
| `tpe` | 2 components, sides 1..3, strides 1..3, 2 frequencies (6 831) | in bounds, fresh tweaks; refines `ImageCipher`: both runs make the same units with the same tweaks |
| `gibbs` | blocks of 3, ranges of 1..3 values, 2 rounds where the code has 5 (356 256) | no abort; refines `BlockCipher` with the sum and range kept |
| `tpe_block` | blocks of 1 and 2 of 13 or 14 samples around 2^0, 2^1, 2^9, 2^10, 8 keystream words, arguments 0, 1, 3, 11, 16 (601 111) | recovered when both runs see the same range; the second range lies within the first; what can be written |
| `lsb_tpe` | blocks of 3 of 4 samples, 2 words, arguments none, -1 and 3 (49 410) | asserts, exact delta, how close the average gets, what decryption loses |
| `figleaf` | 3 directories, 2 names, 3 runs out of 12 command lines (42 543) | complete on success, local on failure, when a run with -d has the key and parameters of the run with -e, every run ends |
| `jpeg_memory` | two virtual arrays of at most 3 rows, 2 pools, 3 small objects, a machine of 2-byte alignment and 20-byte chunks (138 943) | refines `BlockArray` while malloc may refuse any request; reads, bounds of objects, account |
| `jpeg_transcode` | 3 files with 10 MCUs and restarts after each, 5 MCUs of 3 components and restarts after 2, two scans without; every symbol lost, doubled, cut off or changed to one of 7 bytes; a fourth file that redefines a table; source buffer of 5 symbols, destination of 12 (495 739) | order of calls, how far one fault can spread, read-back, right tables, every file ends |
| `coef_controller` | blocks of 2x2 samples, images to 9x7, 6 samplings, scans together and apart; jpegtran with all 8 transformations, trimmed or not, reduced to grey or not (to grey only if no component is sampled more densely than the first) (104 107) | no stray access, the file is the standard's, shown once, output behind input |
| `entropy` | blocks of 5 coefficients, 3 runs and 3 sizes, codes to 4 bits, lookahead of 2, bytes of 3 bits, 5 correction bits; all scripts of two scans, the usual scripts, images of up to 6 blocks (166 997) | the decoder has each coefficient to the bits sent, after each scan; no errors on good data; buffers; prefix codes |
| `rows` | heights 1..11, calls of 1..5 rows, DCT sizes 1..4, sampling 1, 2, 4, both upsamplers, smoothing, one- and two-pass quantization (19 814) | right rows both ways, progress |

Why the bounds are enough. The range functions look only at the least and the
greatest coefficient and the ciphers of `TpeBlock` at one coefficient and the
range, so two coefficients meet every case. A Fisher-Yates round of four has a
partner below, at and above each position. Gibbs shares a budget between one
coefficient and the last one; a third one makes the budget carry over. `Tpe`
has full, cut and single-column blocks in both directions. One more run than
the two that encrypt and decrypt lets a failed or unrelated run come between
them.

Ten MCUs with a restart after each make the restart numbers wrap from 7 to 0,
and a marker in the file can be any of the three kinds `jpeg_resync_to_restart`
distinguishes. `DamageIsContained` says of each fault in the coded data of the
two files with restarts which MCUs it cannot reach (`MCSafe`): those before it,
and those of all intervals after the one it is in. Damage is not contained where
`jdmarker.c:1179-1184` accepts a false marker: a restart marker that has become
one of the next two is taken for it, so the intervals up to the one it names are
lost; one that has become EOI, or the end of a file cut short, loses all that
follows. Only for these `MCSafe` leaves out later intervals, and no more than
that. Faults in the header and in files without restarts have nothing safe after
them; such files, like coefficients that the encoder refuses (`jchuff.c:420`),
are there for `EveryTranscodeEnds`. A virtual array of three rows has room for a window of one or
two, which moves up and down over a defined and an undefined part. Images to
9x7 samples in blocks of two have every remainder modulo an MCU of two or three
blocks. Codes of four bits with a lookahead of two take both ways of decoding,
and counts from 0 to 5 in five symbols make codes that are too long and must be
cut; bytes of three bits put byte borders and stuffed zeros everywhere in a
code. Heights to 11 go through the first, a middle and the last row of iMCUs,
and calls of 1 to 5 rows cut groups of 1, 2 and 4 anywhere.

The bounds are the constants of the configurations: `MaxSide`, `MaxStride`,
`MaxV`, `MaxLen`, `MaxRuns`, `MaxRows`, `MaxObjects`, `MaxSkip`, `MaxLines`,
`MaxPasses`, `MaxH`, `W`, `H`, `TransW`, `TransH` and the sets of samples,
words, sizes, cases and command lines. `NIBBLE`, `MAX_LEN`, `JOCTET_BITS`,
`DCTSIZE`, `DCTSIZE2`, `INPUT_BUF_SIZE` and their like are the code's own
constants, scaled down.

One run is expected to find a violation: `block_drpe`. `drpe.h:7` says that
its functions decrypt "to recover the original values"; a block whose
ciphertext varies in fewer bits than the plaintext is not recovered, because
both runs derive the number of encrypted bits from the block they have.

Other disagreements between code and text. The modules take the code's side:

| the repository says | the code does | where it is modelled |
|---|---|---|
| `jchuff.c:419` range of coefficients | drpe makes AC coefficients -1024, at which the encoder exits | the exception in `StaysEncodable` |
| `fpe.c:142` skipped coefficients are not decrypted | the range of method shuffle is [0,0], and all AC coefficients become 0 | `Methods` |
| `fpe.c:141` | coefficients gibbs skipped because they would have become zero are decrypted | `LeftAlone` in `TpeBlock` |
| `drpe_lsb.c:105` the average is matched | a uniform block becomes 0 or -1 | `LsbTpe` |
| `figleaf.c:371` prints the path the output will have | line 370 set a variable of an inner block, and NULL is passed on: one file into a directory fails | `Figleaf` |
| `libjpeg.doc:2665` the tables must match the data | `figleaf.c:427` copies them before the scans are read; one defined anew between scans is not the one copied | `RedefinedLater`, the exception in `SameTables` |
| `jdpostct.c:219` the last strip is cut at the image's bottom | measured from the strip's start: with strips of more than two rows, two-pass quantization and odd call sizes a row below the bottom is delivered | `BelowBottom`, the exception in `OutputRowsRight` |
| `minmax.c:16` | the ranges of `minmax_poweroftwo` are half of those | `Jcoef` |
| `mosaic.c:23` | the average is rounded wrongly when negative | `RoundedAverage` in `ElementCiphers` |
| `mosaic.c:30` values around the average | with `-a 16` the radius (line 47) is the sign bit of a JCOEF and both bounds wrap around: every DC coefficient is moved by 32768 and the encoder exits | `Radius`, the exception in `StaysEncodable` |
| `lsb.h:13` default number of bits | 0 without -a | `NotGiven` in `LsbTpe` |
| `figleaf.c:64` shows -b as optional | it is required | `Figleaf` |

## 4. Fairness

`FisherYates`, `Tpe`, `Gibbs`, `LsbTpe` and `JpegTranscode` are a single thread
without a wait: weak fairness of `Next` says that a started function runs on,
files being always readable to their end. In `Figleaf` only the program's own
steps are fair; nobody has to start it or to interrupt it. The other modules
state no fairness: `NeverStalls` of `OutputRows` says as an invariant what
makes its loops end, and a source or compressor that suspends for good is the
application's to deal with.

## 5. Proofs

`FisherYatesProofs` proves for every length `N`, every set of coefficients and
every set of random numbers: `TypeCorrect` (`TypeOK`), `UnshuffleInvertsShuffle`
(`Recovered`), `SamePartners` (`PartnersAgree`) and `Implementation` (the
specification implements `BlockCipher`).
`Recovered` is not inductive. The invariant adds what the history variable
`trail` holds: `trail[k]` is the block before the swap at `k`, `trail[k-1]` is
that block with `k` and its partner swapped, the partner is the random number
at `N-1-k` modulo `k+1`, the partners that `unshuffle` has drawn are those, and
the block in the third loop is `trail[i-1]`. That swapping twice changes
nothing is the lemma that carries the last loop; that swaps compose to a
permutation carries `Implementation`.

`GibbsProofs` proves for every block length, range, number of rounds, every set
of shuffles and every keystream: `NoAbort` (`NeverAborts`) and `Implementation`
(`ImplementsBlockCipher`: the ciphertext has the sum of the plaintext, and
decryption gives the plaintext back). Neither is inductive. Decryption knows of
a round only its result, and it goes down where encryption went up, so the
invariant `IInv` speaks of the history variables `before`, `shared` and `after`
of every round: `RoundOK` says that the block of a round is the shuffled block
of the round before, that each coefficient was rotated in the range that the
budget `Left` to it gives, and that the last one got what was left. While
decryption is in a round (`Unsampling`), its budget is what encryption had left
at that coefficient, so both rotate in the same range (`SameShare`), and
rotating by the inverse ends where rotating began (`RotateBack`); its subtotal
is a difference of sums, so the last coefficient comes out as well
(`Unsampled`). The sum itself needs induction over the block: `Sums` is a
recursive function, and that it adds up, that changing one coefficient changes
it by the difference (`SumsUpdate`) and that a shuffle does not change it
(`RearrangedSum`, one exchange after the other) follow from `Induction`, which
is proved from the well-foundedness of the numbers for a set instead of an
operator.

`WalkProofs` proves of `Tpe` `AccessInBounds` (`InBounds`), `FreshTweaks`
(`TweaksAreFresh`) and `Implementation` (`ImplementsImageCipher`: every unit of
the image goes through the cipher once, in either run) for all sizes of image
and block and any cipher. The invariant says that every tweak used so far
belongs to a unit that the loops have passed: an earlier component, or in this
one an earlier row of blocks, an earlier block in the row, or a lower frequency.
Blocks start at multiples of the stride, so their last columns and rows, on
which the tweak is built, are strictly increasing even where the border cuts
the last one. The refinement needs two more facts: the loops always stand at
multiples of the stride (`Aligned`), so each corner belongs to exactly one unit
of the abstract image, and the units done are exactly those passed
(`UsedArePassed`), so when a pass ends every unit is done and the decrypting
pass finds them all.

`FigleafProofs` proves for any directories, files, command lines and number of
runs: `SuccessIsComplete` (`SuccessMeansComplete`), `FailureStaysLocal`
(`FailureIsLocal`) and `ParametersMeet` (`ParametersAgree`). None is inductive.
While a run is going on, the invariant relates the files to what they held when
it began (`before`): every file is as it was or a finished output, except for
the output in hand (`CleanInv`); every input has a job, is finished, or is in
hand, and those that have a job hold what they held (`TodoInv`). The last holds
while outputs are written because of `Apart`: a batch goes from one directory to
one directory under the same names, so a file is at most its own output; and then
`Open` empties it and `Read` exits. `ParametersAgree` compares two entries of the
history `log`, of which the invariant keeps that every output is `Result` of its
input: the list of a picture that was encrypted and decrypted is the old one with
the two operations after it (`ProcessedAdds`, `TwoOps`), and what the ciphers of
both are given differs only when the salts do (`SameParameters`), which are the
names of the two input files. It does not say that the picture comes back; how
much of a unit does is `RecoveredUnderSameParameters` and `LsbTpeDamage`.
Assumed of the constants: the names of files are told from "." and from no file,
names of pictures from the words for what is no picture, and the files that
exist at first are pictures that nothing was done to.

`TpeBlockProofs` proves of `TpeBlock` all that `MCTpeBlock` checks, for blocks of
any length, all coefficients that an image may hold, any keystream and any
argument of -a: `RangesAlwaysNest` (`RangesNest`), `EncodableAlways`
(`StaysEncodable`) and `RecoveredUnderSameParameters`
(`RecoversUnderSameParameters`). The variables hold what happened, so the
invariant (`Story`) can tell all of it: there is a plaintext whose range is
`enc`, `sent` is one of its ciphertexts, `dec` is the range of `sent` and the
block what decryption makes of that. The properties then follow without
another step; none is inductive by itself, `StaysEncodable` because what
decryption makes depends on the range, not on the block being encodable.
The work is in `CoefTheorems`, in three layers. Bits: a 16-bit number is known by
its bits, `drpe_fixup_sign_bit` gives back the number whose bits above the
sign position are the sign (`Fits`), and an exclusive or of the low bits is
undone by another, whatever position of the sign each run uses, as long as both
are above the bits that vary (`DrpedAnywhere`). Ranges: the least and the
greatest coefficient determine which power of two or mask is chosen, truncation
does not leave the range, and a block within a range has its own range within it
(`PowerNests`, `BitmaskNests`); for drpe the ciphertext varies in no bit above
those of the plaintext (`DrpeNests`). Ciphers: what each of them makes of one
coefficient in a range is a coefficient (`DrpeMakes`, `FpeElements`,
`FuzzyIsCoef`), and the second application undoes the first (`DrpeBack`,
`FpeBack`). Which range goes with which cipher is a fact about the tables of
`main` (`Pairings`). The proof of `StaysEncodable` showed that it needs its second
exception: with -a 16 the radius of mosaic is negative and the conversion back to
16 bits is not the identity.

`LsbTpeProofs` proves of `LsbTpe` all that `MCLsbTpe` checks, for blocks of any
length, all coefficients, any keystream, any keyed order and any argument of -a:
`LsbTpeAsserts` (`AssertsHold`), `LsbTpeDelta` (`DeltaIsExact`), `LsbTpeClose`
(`AsCloseAsTheBitsAllow`) and `LsbTpeDamage` (`OnlyLowBitsDamaged`). None is
inductive; the invariant `LsbTpeInv` adds four things, and `LsbTpeInvariant` is
that it holds. `Ready`: the parameters are those of a range that the range
function can return, and lsb's coefficients are in it. `Encrypting`: they are
those of the plaintext until the block is sent. `Flipping`: in the pass under
way, either what is missing is within half a flip, or all elements visited so
far have the bit as it is needed (`PassDone`), and the pass before ended like
that. `Kept`: the bits of the block outside `Damaged` are those of the plaintext in
reverse order with the keystream's added.
Everything rests on `FlipCoefficient`. Both files work on a number made of a
coefficient (lsb.c subtracts the range's minimum, drpe_lsb.c fixes the sign
bits up) and convert the result back; for a bit below the sign, flipping it in
the number changes the coefficient by exactly that power of two, leaves all its
other bits alone, and what is written back is again such a coefficient. So a
flip moves sum and distance by the same amount (`OneFlip`, with `TotalUpdate` for
the sum). A flip is only made towards the target, hence one that overshoots
leaves at most half of it, and one that does not leaves the bit as needed
(`PassGoesOn`); the order is a permutation, so at the end of a pass every
element was visited (`OrderIsOnto`, a pigeonhole argument). `OnlyLowBitsDamaged`
follows from what reversing and adding the keystream make of each bit
(`ScrambleBits`, `UnscrambleBits`).

`LibjpegProofs` begins with `VirtualArray` by itself, for any number of arrays
of any size and access length, any outcome of the division of memory among them
and any sequence of calls: `NoBug` (`NoVirtualBug`), `ReadersRight`
(`ReadersGetContents`) and `Implementation` (`ImplementsBlockArray`). The
contents of an array are its window where there is one and the store elsewhere,
and what was never defined is garbage. The invariant has two parts for each
realized array. `Sized`: buffer and store have the sizes of window and array,
an array without a store lies entirely in its window, and a window with one is
no shorter than the largest access, which is why an access never meets
JERR_VIRTUAL_BUG. `Coherent`: a window that is not dirty agrees with the store
on the defined rows, and these hold values, not garbage. The lemmas take the
steps of `access_virt_barray` one by one. `do_barray_io` goes over the window in
chunks and cuts each at four bounds; `TransferredIsDefined` shows that what it
transfers is exactly the defined part of the window. From that, flushing a dirty
window stores its contents (`FlushStoresContents`), wherever the window moves it
covers the access (`WindowCovers`), and loading it changes no contents
(`LoadKeepsContents`): moving the window is a stutter of `BlockArray`, and a
read or a store of the application is that of the array. These theorems are
about `VirtualArray`'s own specification, which allows any window sizes.

It goes on with the same three of the memory manager as a whole, where
`realize_virt_arrays` computes the sizes from what it is granted
(`NoBugWhenRealized`, `ReadersRightWhenRealized`, `MemoryImplements`), and of
its pools `ExactAccount` (`AccountIsExact`) and `ApartObjects`
(`ObjectsAreApart`), for every alignment, chunk size, slop and size of object
that `jinit_memory_mgr` accepts, and with malloc failing at any call. The
invariant `MInv` is that of the virtual arrays and `Intact`: the manager's lists
are lists of chunks whose header adds up (`ChunkType`), the account is the sum
of what malloc gave (`Obtained`), and every object lies below `bytes_used` of its
chunk, aligned, and apart from the others. `ObjectsAreApart` alone says nothing
of `bytes_used`, from which the next object is carved, and the account alone
nothing of the headers from which `free_pool` computes what to give back. For
every operation a lemma shows that a manager stays typed, keeps an exact account
and only grows (`SmallObject`, `LargeObject`); `alloc_sarray` and
`realize_virt_arrays` are loops of these, whose managers are functions of the
number of requests granted, so that the invariant goes through them by induction
(`ArrayObjects`, `BufferObjects`), including the managers left behind when a
request in the middle fails. That a window is never shorter than an access
needs `MinheightsFit`: `max_minheights` is between 1 and `MaxRows`. It divides
what is granted by the space for the smallest heights, which is positive because
some array is unrealized; and `MaxRows` times that space is enough for all rows
of all arrays, a comparison of two sums over the arrays, by induction on them.

The second part of `LibjpegProofs` proves `CallsAreInOrder` (`NeverBadState` of
`JpegTranscode`) for every file, damaged or cut short anywhere, any failure of
the destination, and the second run on what the first wrote. `NeverBadState` says
that no object has failed for a call out of order, which says nothing of where
an object is before the call. `CallsInOrder` does: for each value of `app` it
names the state that the decompression object has come to, before the call and
while the library is at work in it, and that of the compression object; and it
says that once either has failed nothing is called any more. The routines of
the library are then of two kinds: those that go on or fail without touching the
state (`MarkerSteps`, `SegmentSteps`, `McuSteps`) and the few that end a call
(`LibraryStep`). That the writer keeps writing until the trailer is out
(`WriterSteps`) is what lets `finish_decompress` find the object it needs.

The second part of `WalkProofs` proves of `OutputRows` all that `MCRows` checks,
for images and row groups of any height, any sampling that the upsamplers
accept, any number of rows asked for at once and any suspension.

`NoStall` (`NeverStalls`): a flag that records a call without progress says
nothing of the next call, so `StallInv` says where a pass is:
while rows are left to deliver, `rows_to_go` counts them (but for
`merged_1v_upsample`, which never decrements it), the strip of a two-pass
quantizer is never full between calls, and in its last pass the place in the
array is the line that comes next. `UpsamplerAdvances` is that an upsampler with
rows to go and room makes a row; the main controller's part
(`DataIsDelivered`, `StripsAreFilled`) is that every path through its context
states, the postponed group and the change of lists included, ends in such a
call or has made one.

`RowsInOrder` (`OutputRowsRight`): what was delivered says nothing of what the
pointers lead to, so `RowsInv` adds `Good`, which follows a row through four
places. The workspace: `CellsRight` gives the sample row that each of its rows
holds, those of the iMCU row in hand and, above them, the end of the one before,
which the next read must not overwrite while it serves as context. The pointers:
`PointersRight` gives both lists in full (`Table`), as `make_funny_pointers` made
them, as `set_wraparound_pointers` changed them after the first iMCU row, and as
`set_bottom_pointers` changed them in the last; with `CellsRight` it follows that
a row group and its two neighbours are read where they are, whichever list is in
use. The upsampler: `Placed` says which row of the image comes next (`RowNo`, from
the group in hand and the part of it already made) and that the colour buffer or
the spare row holds it. The postprocessor: `Flow` says what a pass that makes
rows has delivered or put into the array, `Taken` what the second pass has taken
from it; there alone a place below the bottom occurs (`Past`), which is the
exception that the property makes. `RowsTurn` is that one call of `process_data`,
through whatever context states it takes, leads from such a state to another that
is as many rows further as it handed out (`Turned`); only `RowsInv` as a whole,
with what `StallInv` counts, is kept by every step (`RowsKept`).

The assumptions are those of the modules: positive sizes, natural random
numbers, orders that repeat no element, coefficients between -1024 and 1023,
shuffles that are bijections, shapes within the array, garbage that is no value,
and of a display (`DisplayAssumption`) that the row groups of all components
belong to the same rows of the image, which the upsamplers check, and that
merged upsampling is for one or two rows. That `fisheryates_shuffle` and
`_unshuffle` are such bijections and inverse to each other, which `Gibbs` assumes
of its `Shuffles`, is what `FisherYatesProofs` proves.

Model-checked only:

- liveness (`EveryRunEnds`, `EveryTranscodeEnds`): the prover has no fairness;
- the properties of `EntropyCoding`. Its decoders and tables are recursive
  operators, with which the prover loses its arithmetic, and what a decoder
  recovers from a stream of bits is an induction over that stream;
- `DamageIsContained`, `ReadBackAgrees` and `SameTables` of `JpegTranscode`. The
  first is about the file that a case describes, symbol by symbol; the other two
  relate what the reader of the second run finds to what the writer of the first
  put there, an induction over the file;
- the property of `InputRows`, whose rows are gathered by a fold with an operator
  as its step, of which the provers know nothing;
- those of `CoefController`, which are within the prover's reach but have not been
  proved. Its run goes through every residue of an image's size that the
  controllers tell apart.

## 6. What the modules leave to each other

- `JpegReader` reads sequential frames with the tables a file defines; the bits
  are `EntropyCoding`'s, so a progressive file is decoded there and not read
  from its markers here. Conversely the decoders of `EntropyCoding` always find
  the restart marker they expect, and what happens otherwise is `JpegReader`'s.
- `JpegWriter` writes one scan with given tables, which is what the defaults of
  `jpeg_set_defaults` lead to; scripts and optimization are `EntropyCoding`'s.
- The arrays in `CoefController` are plain arrays, which `VirtualArray` shows
  they are to their users.

## 7. Not modelled

- `minmax_average_plusminus_poweroftwo`, `minmax_fixedbase_plus_poweroftwo`,
  `bounce.c`, `cascade.c`, `common.c` and the statistics of `jutil.c`: no method
  of `main` reaches them.
- The branches for `only_nonzero` of `lsb.c`: all callers pass 0. The AC
  coefficients of method lsb get the argument 0 whatever -a is; in `LsbTpe` that
  is a block for which no option was given.
- The bytes of keys and nonces, libsodium: functions of their inputs.
- An argument of -b or -a that is not a number (`atoi`).
- Of libjpeg: sample values, that is the DCT, colour conversion, upsampling
  arithmetic and colour quantizers, numerical functions without control that
  figleaf never calls (it works on coefficients); block smoothing in
  `jdcoefct.c`; suspension of the destination inside `jchuff.c` (the destinations
  of the repository never suspend); `jpeg_write_raw_data` and
  `jpeg_read_raw_data`; code under `FULL_MAIN_BUFFER_SUPPORTED`, which is not
  compiled; abbreviated streams; the copying of extra markers and the switches
  of `jpegtran`; the reduction to grey of pictures whose first component is
  sampled more thinly than another; the other applications and their formats.
- The classifier and the tests.

## 8. Plan

Done: figleaf's own code with the proofs of `FisherYates`, `Gibbs` and `Tpe`;
the path of an image through libjpeg that figleaf takes, its entropy coding,
controllers, rows and memory, with the proofs of `VirtualArray` and
`JpegMemory`, of the order of calls and of the rows that are output; the proofs of
`Figleaf`, of `TpeBlock` and of `LsbTpe`. Every safety property of figleaf's own
code is proved.

To model: progressive frames in `JpegReader`; block smoothing; the order of
calls of applications that read and write samples.

To prove: the rows of `InputRows`, once they are gathered without a fold;
`NoStray` of `CoefController`.
