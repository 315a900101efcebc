----------------------------- MODULE VaeTiling -----------------------------
(***************************************************************************)
(* How long audio goes through the VAE in tiles: src/vae-tile.h, the tiled *)
(* decode of src/vae.h and the tiled encode of src/vae-enc.h.  A tile is   *)
(* computed with some of its neighbours' frames around it, and only its    *)
(* core is kept.  Positions in audio are counted in samples, a frame of    *)
(* latents stands for SamplesPerFrame of them (1920 in the code).          *)
(***************************************************************************)
EXTENDS Integers, Sequences, FiniteSetsExt, SequencesExt

CONSTANTS SamplesPerFrame,
          Candidates,      \* VAE_TILE_CANDIDATES, in frames
          Overlap          \* vae_overlap, in frames

ASSUME TilingAssumption ==
    /\ SamplesPerFrame \in Nat \ {0}
    /\ Candidates \subseteq Nat \ {0} /\ Candidates # {}
    /\ Overlap \in Nat

\* The overlap is halved until a tile has a core; it cannot take more turns
\* than the overlap is long.
OverlapOf(chunk) ==
    LET halved[k \in 0 .. Overlap] ==
            IF k = 0 THEN Overlap
            ELSE IF chunk - 2 * halved[k - 1] > 0 THEN halved[k - 1]
            ELSE halved[k - 1] \div 2
    IN  halved[Overlap]

StrideOf(chunk) == chunk - 2 * OverlapOf(chunk)

\* Which candidate vae_tile_choose takes depends on the memory that is free.
TileChoices == Candidates

\* A tile of a range of length n whose cores are stride long: the core and the
\* window around it.
TileOf(i, n, stride, overlap) ==
    LET core == [from |-> i * stride, to |-> Min({(i + 1) * stride, n})]
    IN  [core |-> core,
         window |-> [from |-> Max({core.from - overlap, 0}),
                     to   |-> Min({core.to + overlap, n})]]

TilesNeeded(n, stride) == (n + stride - 1) \div stride

\* How many times a decode of T frames polls and computes.
DecodeTileCount(T, chunk) == IF T <= chunk THEN 1 ELSE TilesNeeded(T, StrideOf(chunk))

\* The frames of latents that a tile's kept samples come from.
DecodeCore(t) ==
    LET trimStart == t.core.from - t.window.from
        trimEnd == t.window.to - t.core.to
        length == (t.window.to - t.window.from) - trimEnd - trimStart
    IN  [j \in 1 .. length |-> t.window.from + trimStart + j - 1]

\* vae_ggml_decode_tiled: the frame each frame's worth of audio comes from.
DecodeOrder(T, chunk) ==
    IF T <= chunk THEN [j \in 1 .. T |-> j - 1]
    ELSE FlattenSeq([i \in 1 .. TilesNeeded(T, StrideOf(chunk)) |->
            DecodeCore(TileOf(i - 1, T, StrideOf(chunk), OverlapOf(chunk)))])

\* Slip: a core's end is rounded with the overlap that was cut at the end of
\* the audio, which vae_enc_core_bounds' comment warns of.
EncodeCoreRounded(t) ==
    LET trim == (t.core.from - t.window.from) \div SamplesPerFrame
        raw == (t.window.to - t.window.from) \div SamplesPerFrame
        cut == (t.window.to - t.core.to + SamplesPerFrame - 1) \div SamplesPerFrame
    IN  [j \in 1 .. Max({0, raw - cut - trim}) |-> t.window.from + (trim + j - 1) * SamplesPerFrame]

\* vae_enc_core_bounds: the complete frames of a tile's core, each by its first
\* sample; a core within one frame has none.
EncodeCore(t) ==
    LET trim == (t.core.from - t.window.from) \div SamplesPerFrame
        raw == (t.window.to - t.window.from) \div SamplesPerFrame
        end == Min({raw, (t.core.to - t.window.from) \div SamplesPerFrame})
        length == IF t.core.to \div SamplesPerFrame = t.core.from \div SamplesPerFrame
                  THEN 0 ELSE Max({0, end - trim})
    IN  [j \in 1 .. length |-> t.window.from + (trim + j - 1) * SamplesPerFrame]

\* vae_enc_encode_tiled: the first sample of each frame of latents.  The
\* encoder makes a frame of every complete SamplesPerFrame samples.
EncodeOrder(n, chunk) ==
    IF n <= chunk * SamplesPerFrame
    THEN [j \in 1 .. n \div SamplesPerFrame |-> (j - 1) * SamplesPerFrame]
    ELSE LET stride == StrideOf(chunk) * SamplesPerFrame
             overlap == OverlapOf(chunk) * SamplesPerFrame
         IN  FlattenSeq([i \in 1 .. TilesNeeded(n, stride) |->
                EncodeCore(TileOf(i - 1, n, stride, overlap))])
=============================================================================
