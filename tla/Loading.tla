------------------------------ MODULE Loading -------------------------------
(***************************************************************************)
(* Loading a checkpoint: what the tensors are called and must look like    *)
(* (crates/qwc-model/src/names.rs), opening and validating the files       *)
(* (safetensors.rs, checkpoint.rs of qwc-model), and the loader that       *)
(* builds the layers, the vocabulary matrices (qwc-engine/src/weights.rs)  *)
(* and the draft head (qwc-engine/src/mtp.rs).                             *)
(*                                                                         *)
(* A tensor is named <<owner, short, part>>: the owner is a layer, Model   *)
(* or MtpHead, the part one of the four of a quantized projection or       *)
(* "weight".  Its data is its name; the bytes of a shard are as many as    *)
(* its header says.                                                        *)
(***************************************************************************)
EXTENDS Integers, Sequences, SequencesExt, FiniteSets, FiniteSetsExt, Folds

CONSTANTS
  \* arch.rs, scaled down:
  NumLayers, FullInterval, Hidden, Intermediate, QProj, KvProj, ConvChannels, VProj, VHeads,
  HeadDim, VHeadDim, ConvKernel, Vocab,
  Block,          \* NVFP4_BLOCK
  ScaleTile,      \* <<rows, columns>> the scale matrix is padded to
  ChunkRows,      \* CHUNK_ROWS of the vocabulary loaders
  Configs         \* the configurations of the drivers

VARIABLES
  config,       \* [embedding, lm_head: LoadConfig; head, validates: of the driver]
  odd,          \* the tensors that differ from the architecture, with what they are
  phase,        \* where the loader is
  after,        \* the phase an eviction returns to
  layer,        \* the layer being loaded
  next,         \* how many tensors of the phase's list are loaded
  projections,  \* load_projections: out
  fused,        \* load_projections: fused, the short names
  plain,        \* load_plain: out
  layers,       \* ModelWeights::layers
  tables,       \* the rows of the vocabulary matrices: chunks written so far
  head,         \* the tensors of the MtpHead loaded so far
  stats,        \* LoadStats
  resident,     \* bytes of mapped file pages in the working set
  error         \* the error load returns

loadingVars ==
  <<config, odd, phase, after, layer, next, projections, fused, plain, layers, tables, head,
    stats, resident, error>>

Model == -1
MtpHead == -2

-----------------------------------------------------------------------------
(* What the architecture says.                                             *)

IsFull(i) == (i + 1) % FullInterval = 0

Lin(short, out, inp) == [short |-> short, out |-> out, inp |-> inp]
Ten(short, shape) == [short |-> short, shape |-> shape]

\* Mutant of QuantLinears: the output gate of q_proj is a projection of its own.
QuantLinearsWithGate(i) ==
  <<Lin("gate_proj", Intermediate, Hidden), Lin("up_proj", Intermediate, Hidden),
    Lin("down_proj", Hidden, Intermediate)>>
  \o IF IsFull(i)
     THEN <<Lin("q_proj", QProj, Hidden), Lin("q_gate", QProj, Hidden),
            Lin("k_proj", KvProj, Hidden), Lin("v_proj", KvProj, Hidden),
            Lin("o_proj", Hidden, QProj)>>
     ELSE <<Lin("in_proj_qkv", ConvChannels, Hidden), Lin("in_proj_z", VProj, Hidden),
            Lin("in_proj_a", VHeads, Hidden), Lin("in_proj_b", VHeads, Hidden),
            Lin("out_proj", Hidden, VProj)>>

QuantLinears(i) ==
  <<Lin("gate_proj", Intermediate, Hidden), Lin("up_proj", Intermediate, Hidden),
    Lin("down_proj", Hidden, Intermediate)>>
  \o IF IsFull(i)
     THEN <<Lin("q_proj", 2 * QProj, Hidden), Lin("k_proj", KvProj, Hidden),
            Lin("v_proj", KvProj, Hidden), Lin("o_proj", Hidden, QProj)>>
     ELSE <<Lin("in_proj_qkv", ConvChannels, Hidden), Lin("in_proj_z", VProj, Hidden),
            Lin("in_proj_a", VHeads, Hidden), Lin("in_proj_b", VHeads, Hidden),
            Lin("out_proj", Hidden, VProj)>>

PlainTensors(i) ==
  <<Ten("input_layernorm", <<Hidden>>), Ten("post_attention_layernorm", <<Hidden>>)>>
  \o IF IsFull(i)
     THEN <<Ten("q_norm", <<HeadDim>>), Ten("k_norm", <<HeadDim>>)>>
     ELSE <<Ten("conv1d", <<ConvChannels, 1, ConvKernel>>), Ten("A_log", <<VHeads>>),
            Ten("dt_bias", <<VHeads>>), Ten("norm", <<VHeadDim>>)>>

MtpTensors ==
  <<Ten("fc", <<Hidden, 2 * Hidden>>), Ten("norm", <<Hidden>>),
    Ten("pre_fc_norm_embedding", <<Hidden>>), Ten("pre_fc_norm_hidden", <<Hidden>>),
    Ten("input_layernorm", <<Hidden>>), Ten("post_attention_layernorm", <<Hidden>>),
    Ten("q_proj", <<2 * QProj, Hidden>>), Ten("k_proj", <<KvProj, Hidden>>),
    Ten("v_proj", <<KvProj, Hidden>>), Ten("o_proj", <<Hidden, QProj>>),
    Ten("q_norm", <<HeadDim>>), Ten("k_norm", <<HeadDim>>),
    Ten("gate_proj", <<Intermediate, Hidden>>), Ten("up_proj", <<Intermediate, Hidden>>),
    Ten("down_proj", <<Hidden, Intermediate>>)>>

Plain(owner, t) == <<owner, t.short, "weight">>
FinalNorm == <<Model, "norm", "weight">>
VocabName(short) == <<Model, short, "weight">>

\* What a good checkpoint holds: [dtype, shape, value], the value only of a scalar.
Info0(dtype, shape) == [dtype |-> dtype, shape |-> shape, value |-> 0]
Scalar == [dtype |-> "F32", shape |-> <<1>>, value |-> 1]

Parts(q) ==
  [packed |-> Info0("U8", <<q.out, q.inp \div 2>>),
   scale |-> Info0("F8E4m3", <<q.out, q.inp \div Block>>),
   weight_global |-> Scalar, input_global |-> Scalar]

Good ==
  LET quant(i) == {<<<<i, q.short, p>>, Parts(q)[p]>> :
                     q \in Range(QuantLinears(i)), p \in DOMAIN Parts(Lin("", 0, 0))}
      flat(o, ts) == {<<Plain(o, t), Info0("Bf16", t.shape)>> : t \in Range(ts)}
      pairs == UNION {quant(i) \cup flat(i, PlainTensors(i)) : i \in 0..(NumLayers - 1)}
               \cup flat(MtpHead, MtpTensors)
               \cup {<<FinalNorm, Info0("Bf16", <<Hidden>>)>>}
               \cup {<<VocabName(s), Info0("Bf16", <<Vocab, Hidden>>)>> :
                       s \in {"embed", "lm_head"}}
  IN  [n \in {p[1] : p \in pairs} |-> (CHOOSE p \in pairs : p[1] = n)[2]]

-----------------------------------------------------------------------------
(* The files.                                                              *)

SizeOf == [Bf16 |-> 2, F32 |-> 4, F8E4m3 |-> 1, U8 |-> 1]

Absent == Info0("none", <<>>)

\* Checkpoint::info
Info(n) == IF n \in DOMAIN odd THEN odd[n] ELSE Good[n]
Present(n) == Info(n) # Absent
Product(shape) == FoldSeq(LAMBDA x, y : x * y, 1, shape)
Elems(n) == Product(Info(n).shape)
Bytes(n) == Elems(n) * SizeOf[Info(n).dtype]

\* How a tensor may differ: absent, of another type (F16 is one that StDtype::parse does not
\* know), with its dimensions in the opposite order or the first one larger, and a scalar
\* by its value.
Deviations(n) ==
  LET g == Good[n]
  IN  ({Absent}
       \cup {[g EXCEPT !.dtype = d] : d \in DOMAIN SizeOf \cup {"F16"}}
       \cup {[g EXCEPT !.shape = Reverse(@)], [g EXCEPT !.shape[1] = @ + 1]}
       \cup {[g EXCEPT !.value = @ + @]}) \ {g}

\* Shard::open fails on the header of the shard that names an unknown type.
Opens == \A n \in DOMAIN odd : odd[n].dtype \in DOMAIN SizeOf \cup {"none"}

\* scalar_f32: four bytes are enough.
HasScalar(n) == Present(n) /\ Bytes(n) >= 4

\* Checkpoint::quant_linear gives the four tensors, or an error.
QuantAccepted(i, q) ==
  /\ \A p \in {"packed", "scale"} : Info(<<i, q.short, p>>) = Parts(q)[p]
  /\ \A p \in {"weight_global", "input_global"} : HasScalar(<<i, q.short, p>>)

ShapeProblems(owner, ts) ==
  {Plain(owner, t) : t \in {u \in Range(ts) :
     ~Present(Plain(owner, u)) \/ Info(Plain(owner, u)).shape # u.shape}}

\* The mismatches Checkpoint::validate reports, by tensor or by projection.
Problems ==
  ShapeProblems(Model, <<Ten("norm", <<Hidden>>), Ten("embed", <<Vocab, Hidden>>),
                         Ten("lm_head", <<Vocab, Hidden>>)>>)
  \cup UNION {ShapeProblems(i, PlainTensors(i)) : i \in 0..(NumLayers - 1)}
  \cup ShapeProblems(MtpHead, MtpTensors)
  \cup UNION {{<<i, q.short, "packed">> : q \in {r \in Range(QuantLinears(i)) :
                 ~QuantAccepted(i, r)}} : i \in 0..(NumLayers - 1)}

BytesOf(names) == MapThenSumSet(Bytes, names)

\* The statistics of validate on the tensors the loader reads too.
Validated ==
  LET quants == UNION {{<<i, q.short>> : q \in Range(QuantLinears(i))} : i \in 0..(NumLayers - 1)}
  IN  [quantized_linears |-> Cardinality(quants),
       quantized |-> BytesOf({<<q[1], q[2], p>> : q \in quants, p \in {"packed", "scale"}}),
       plain |-> BytesOf({FinalNorm} \cup UNION {{Plain(i, t) : t \in Range(PlainTensors(i))} :
                                                    i \in 0..(NumLayers - 1)})]

-----------------------------------------------------------------------------
(* The loader.                                                             *)

RoundUp(x, m) == ((x + m - 1) \div m) * m

\* Linear::resident_bytes: the packed weights and the scale matrix padded to whole tiles.
LinearBytes(out, inp) ==
  (out * inp) \div 2 + RoundUp(out, ScaleTile[1]) * RoundUp(inp \div Block, ScaleTile[2])

\* Mutant of MixerParts: the two gate projections are swapped.
MixerPartsSwapped == <<"in_proj_qkv", "in_proj_z", "in_proj_b", "in_proj_a">>

MixerParts == <<"in_proj_qkv", "in_proj_z", "in_proj_a", "in_proj_b">>

\* MIXER_*_OFFSET: where the executor takes the parts from.
MixerOffset ==
  [in_proj_qkv |-> 0, in_proj_z |-> ConvChannels, in_proj_a |-> ConvChannels + VProj,
   in_proj_b |-> ConvChannels + VProj + VHeads]
MixerFusedWidth == ConvChannels + VProj + VHeads + VHeads

LoadingInit ==
  /\ config \in Configs
  /\ odd \in {<<>>} \cup UNION {{n :> d : d \in Deviations(n)} : n \in DOMAIN Good}
  /\ phase = "open" /\ after = "open"
  /\ layer = 0 /\ next = 0
  /\ projections = <<>> /\ fused = <<>> /\ plain = <<>> /\ layers = <<>>
  /\ tables = [embed |-> <<>>, lm_head |-> <<>>]
  /\ head = {}
  /\ stats = [layers |-> 0, projections |-> 0, quantized |-> 0, plain |-> 0, vocab |-> 0]
  /\ resident = 0
  /\ error = "none"

loading == <<after, layer, next, projections, fused, plain, layers, tables, head, stats, resident>>

\* Mutant of Fail: the error is lost on the way up.
FailSilently(e) ==
  /\ phase' = "failed"
  /\ UNCHANGED <<config, odd, loading, error>>

Fail(e) ==
  /\ phase' = "failed"
  /\ error' = e
  /\ UNCHANGED <<config, odd, loading>>

\* Checkpoint::open, and the check of the driver `load` before it loads.
Open ==
  /\ phase = "open"
  /\ \/ /\ ~Opens
        /\ Fail("io")
     \/ /\ Opens /\ config.validates /\ Problems # {}
        /\ Fail("problems")
     \/ /\ Opens /\ (config.validates => Problems = {})
        /\ phase' = "linears"
        /\ UNCHANGED <<config, odd, loading, error>>

\* Going over to the next list of the layer, or of the model.
GoTo(s) == phase' = s /\ next' = 0

\* One projection of load_projections: the parts of the mixer's input wait for the others.
LoadLinear ==
  LET q == QuantLinears(layer)[next + 1]
      part == q.short \in Range(MixerParts)
  IN  /\ phase = "linears" /\ next < Len(QuantLinears(layer))
      /\ IF QuantAccepted(layer, q)
         THEN /\ fused' = IF part THEN Append(fused, q.short) ELSE fused
              /\ projections' = IF part THEN projections ELSE (q.short :> <<q.short>>) @@ projections
              /\ stats' = IF part THEN stats
                          ELSE [stats EXCEPT !.projections = @ + 1,
                                             !.quantized = @ + LinearBytes(q.out, q.inp)]
              /\ resident' = resident + Bytes(<<layer, q.short, "packed">>)
                                      + Bytes(<<layer, q.short, "scale">>)
              /\ next' = next + 1
              /\ UNCHANGED <<config, odd, phase, after, layer, plain, layers, tables, head, error>>
         ELSE Fail("checkpoint")

Value(short, p) == Info(<<layer, short, p>>).value

ScalesMatch(parts) ==
  \A s \in Range(parts), p \in {"weight_global", "input_global"} :
     Value(s, p) = Value(parts[1], p)

LinOf(short) == CHOOSE q \in Range(QuantLinears(layer)) : q.short = short

\* fuse_mixer_input: the parts in a row, in the order of MIXER_PARTS.
FuseMixerInput ==
  LET width == MapThenSumSet(LAMBDA s : LinOf(s).out, Range(MixerParts))
  IN  /\ phase = "linears" /\ next = Len(QuantLinears(layer))
      /\ IF fused = <<>> THEN UNCHANGED <<projections, stats, error>> /\ GoTo("plain")
         ELSE IF /\ Len(fused) = Len(MixerParts)
                 /\ Range(MixerParts) \subseteq Range(fused)
                 /\ ScalesMatch(fused)
                 /\ width = MixerFusedWidth
         THEN /\ projections' = ("in_proj" :> MixerParts) @@ projections
              /\ stats' = [stats EXCEPT !.projections = @ + 1,
                                        !.quantized = @ + LinearBytes(width, Hidden)]
              /\ GoTo("plain")
              /\ UNCHANGED error
         ELSE phase' = "failed" /\ error' = "checkpoint" /\ UNCHANGED <<next, projections, stats>>
      /\ fused' = <<>>
      /\ UNCHANGED <<config, odd, after, layer, plain, layers, tables, head, resident>>

\* Mutant of Bf16Accepted: the type is not looked at.
AnyTypeAccepted(n, elems) == Present(n) /\ Elems(n) = elems

\* bf16_tensor
Bf16Accepted(n, elems) == Present(n) /\ Info(n).dtype = "Bf16" /\ Elems(n) = elems

\* One tensor of load_plain.
LoadPlain ==
  LET t == PlainTensors(layer)[next + 1]
      n == Plain(layer, t)
  IN  /\ phase = "plain" /\ next < Len(PlainTensors(layer))
      /\ IF Bf16Accepted(n, Product(t.shape))
         THEN /\ plain' = (t.short :> <<t.short>>) @@ plain
              /\ stats' = [stats EXCEPT !.plain = @ + Bytes(n)]
              /\ resident' = resident + Bytes(n)
              /\ next' = next + 1
              /\ UNCHANGED <<config, odd, phase, after, layer, projections, fused, layers, tables,
                             head, error>>
         ELSE Fail("checkpoint")

\* Mutant of Fields: the layer takes no dt_bias.
FieldsWithoutBias(i) ==
  [gate |-> <<"gate_proj">>, up |-> <<"up_proj">>, down |-> <<"down_proj">>,
   input_norm |-> <<"input_layernorm">>, post_attention_norm |-> <<"post_attention_layernorm">>]
  @@ IF IsFull(i)
     THEN [q |-> <<"q_proj">>, k |-> <<"k_proj">>, v |-> <<"v_proj">>, o |-> <<"o_proj">>,
           prepare |-> <<"q_norm", "k_norm">>]
     ELSE [in_proj |-> <<"in_proj">>, out |-> <<"out_proj">>,
           prepare |-> <<"conv1d", "A_log">>, output_norm |-> <<"norm">>]

\* The fields of LayerWeights and what load_layer takes for each.
Fields(i) ==
  [gate |-> <<"gate_proj">>, up |-> <<"up_proj">>, down |-> <<"down_proj">>,
   input_norm |-> <<"input_layernorm">>, post_attention_norm |-> <<"post_attention_layernorm">>]
  @@ IF IsFull(i)
     THEN [q |-> <<"q_proj">>, k |-> <<"k_proj">>, v |-> <<"v_proj">>, o |-> <<"o_proj">>,
           prepare |-> <<"q_norm", "k_norm">>]
     ELSE [in_proj |-> <<"in_proj">>, out |-> <<"out_proj">>,
           prepare |-> <<"conv1d", "A_log", "dt_bias">>, output_norm |-> <<"norm">>]

TakenBy(i) == UNION {Range(Fields(i)[f]) : f \in DOMAIN Fields(i)}

\* What load_layer takes is removed from the maps, so it cannot be taken again.
TakenOnce(i) ==
  MapThenSumSet(LAMBDA f : Len(Fields(i)[f]), DOMAIN Fields(i)) = Cardinality(TakenBy(i))

\* The rest of load_layer: everything asked for is there, and no plain tensor is left over.
BuildLayer ==
  LET have == projections @@ plain
      built == [f \in DOMAIN Fields(layer) |->
                  FlattenSeq([k \in DOMAIN Fields(layer)[f] |-> have[Fields(layer)[f][k]]])]
  IN  /\ phase = "plain" /\ next = Len(PlainTensors(layer))
      /\ IF TakenBy(layer) \subseteq DOMAIN have /\ TakenOnce(layer) /\ DOMAIN plain \subseteq TakenBy(layer)
         THEN /\ layers' = Append(layers, built)
              /\ stats' = [stats EXCEPT !.layers = @ + 1]
              /\ projections' = <<>> /\ plain' = <<>>
              /\ layer' = layer + 1
              /\ GoTo("evict")
              /\ after' = IF layer + 1 < NumLayers THEN "linears" ELSE "norm"
              /\ UNCHANGED <<config, odd, fused, tables, head, resident, error>>
         ELSE Fail("checkpoint")

\* Mutant of Evicted: the pages stay.
EvictedNever(bytes) == bytes

Evicted(bytes) == 0

\* evict_file_pages
Evict ==
  /\ phase = "evict"
  /\ \/ /\ resident' = Evicted(resident)
        /\ phase' = after
        /\ UNCHANGED <<config, odd, after, layer, next, projections, fused, plain, layers, tables,
                       head, stats, error>>
     \/ Fail("io")

\* Mutant of Counted: the final norm is not counted.
CountedNot(n) == 0

Counted(n) == Bytes(n)

\* load_norm
LoadFinalNorm ==
  /\ phase = "norm"
  /\ IF Bf16Accepted(FinalNorm, Hidden)
     THEN /\ stats' = [stats EXCEPT !.plain = @ + Counted(FinalNorm)]
          /\ resident' = resident + Bytes(FinalNorm)
          /\ phase' = "embed"
          /\ UNCHANGED <<config, odd, after, layer, next, projections, fused, plain, layers,
                         tables, head, error>>
     ELSE Fail("checkpoint")

RowsDone(short) == FoldSeq(LAMBDA c, n : c.rows + n, 0, tables[short])

\* Mutant of RowsLeft: the last chunk is as long as the others.
RowsLeftWhole(first) == ChunkRows

RowsLeft(first) == Min({ChunkRows, Vocab - first})

VocabAccepted(short) ==
  Info(VocabName(short)) = Info0("Bf16", <<Vocab, Hidden>>)

NextStage(short) ==
  IF short = "embed" THEN "lm_head" ELSE IF config.head THEN "head" ELSE "ready"

\* Fp8Vocab::resident_bytes (a scale per row), Bf16Vocab::resident_bytes
TableBytes(dtype) == IF dtype = "Fp8" THEN Vocab * Hidden + 4 * Vocab ELSE 2 * Vocab * Hidden

\* One chunk of load_vocab or load_bf16_vocab, up to the eviction.
LoadChunk(short) ==
  LET first == RowsDone(short)
      rows == RowsLeft(first)
      chunk == [first |-> first, rows |-> rows, from |-> first,
                as |-> IF short = "embed" THEN config.embedding ELSE config.lm_head]
  IN  /\ phase = short /\ first < Vocab
      /\ IF VocabAccepted(short)
         THEN /\ tables' = [tables EXCEPT ![short] = Append(@, chunk)]
              /\ resident' = resident + rows * Hidden * SizeOf.Bf16
              /\ phase' = "evict"
              /\ after' = IF first + rows < Vocab THEN short ELSE NextStage(short)
              /\ stats' = IF first + rows < Vocab THEN stats
                          ELSE [stats EXCEPT !.vocab = @ + TableBytes(chunk.as)]
              /\ UNCHANGED <<config, odd, layer, next, projections, fused, plain, layers, head,
                             error>>
         ELSE Fail("checkpoint")

HeadTen(short, elems, upload) == [short |-> short, elems |-> elems, upload |-> upload]

\* mtp::load: the matrices go to the device one by one, then the norms.
HeadParts ==
  <<HeadTen("fc", Hidden * 2 * Hidden, TRUE), HeadTen("q_proj", 2 * QProj * Hidden, TRUE),
    HeadTen("k_proj", KvProj * Hidden, TRUE), HeadTen("v_proj", KvProj * Hidden, TRUE),
    HeadTen("o_proj", Hidden * QProj, TRUE), HeadTen("gate_proj", Intermediate * Hidden, TRUE),
    HeadTen("up_proj", Intermediate * Hidden, TRUE),
    HeadTen("down_proj", Hidden * Intermediate, TRUE),
    HeadTen("pre_fc_norm_embedding", Hidden, FALSE), HeadTen("pre_fc_norm_hidden", Hidden, FALSE),
    HeadTen("input_layernorm", Hidden, FALSE), HeadTen("post_attention_layernorm", Hidden, FALSE),
    HeadTen("norm", Hidden, FALSE), HeadTen("q_norm", HeadDim, FALSE),
    HeadTen("k_norm", HeadDim, FALSE)>>

LoadHead ==
  LET t == HeadParts[next + 1]
      then == IF next + 1 = Len(HeadParts) THEN "ready" ELSE "head"
  IN  /\ phase = "head"
      /\ IF Bf16Accepted(Plain(MtpHead, t), t.elems)
         THEN /\ head' = head \cup {t.short}
              /\ resident' = resident + Bytes(Plain(MtpHead, t))
              /\ next' = next + 1
              /\ phase' = IF t.upload THEN "evict" ELSE then
              /\ after' = then
              /\ UNCHANGED <<config, odd, layer, projections, fused, plain, layers, tables, stats,
                             error>>
         ELSE Fail("checkpoint")

\* An allocation or a copy of the upload fails: the error goes up and everything is dropped.
CudaFails ==
  /\ phase \in {"linears", "plain", "norm", "embed", "lm_head", "head"}
  /\ Fail("cuda")

LoadingNext ==
  \/ Open \/ LoadLinear \/ FuseMixerInput \/ LoadPlain \/ BuildLayer \/ Evict
  \/ LoadFinalNorm \/ LoadHead \/ CudaFails
  \/ \E short \in {"embed", "lm_head"} : LoadChunk(short)

LoadingSpec == LoadingInit /\ [][LoadingNext]_loadingVars

-----------------------------------------------------------------------------
(* Properties.                                                             *)

\* The bytes of a layer in the files.
LayerBytes ==
  [i \in 0..(NumLayers - 1) |->
     MapThenSumSet(LAMBDA q : Product(Parts(q).packed.shape) + Product(Parts(q).scale.shape),
                   Range(QuantLinears(i)))
     + MapThenSumSet(LAMBDA t : 2 * Product(t.shape), Range(PlainTensors(i)))]

\* The tensors the loader reads in a configuration.
Read == {n \in DOMAIN Good : n[1] # MtpHead \/ config.head}

LoadingTypeOK ==
  /\ config \in Configs
  /\ DOMAIN odd \subseteq DOMAIN Good
  /\ phase \in {"open", "linears", "plain", "norm", "embed", "lm_head", "head", "evict", "ready",
                "failed"}
  /\ after \in {"open", "linears", "norm", "embed", "lm_head", "head", "ready"}
  /\ layer \in 0..NumLayers /\ next \in 0..(Len(HeadParts) + 20)
  /\ Range(fused) \subseteq Range(MixerParts)
  /\ Len(layers) = stats.layers /\ stats.layers = layer
  /\ head \subseteq {t.short : t \in Range(MtpTensors)}
  /\ resident \in Nat
  /\ error \in {"none", "problems", "checkpoint", "cuda", "io"}
  /\ error = "none" <=> phase # "failed"

\* The tensors bf16_tensor reads: it compares the type and the number of elements.
Flat(n) == n[3] = "weight" /\ n[2] \notin {"embed", "lm_head"}

\* What a program that got through loading may have read instead of a tensor of the
\* architecture: any four bytes for a scalar, and for a plain tensor as many elements of its
\* type in another shape, if no validation came before.
MayDiffer(n) ==
  \/ Good[n] = Scalar /\ HasScalar(n)
  \/ Flat(n) /\ ~config.validates /\ Info(n).dtype = "Bf16" /\ Elems(n) = Product(Good[n].shape)

\* A program that got through loading has every tensor of its configuration as the
\* architecture has it, but for what its checks leave open, and the parts of a mixer's input
\* with one pair of scales: whatever else is odd has been refused by load_layer, load_norm,
\* load_vocab or mtp::load, if Checkpoint::validate did not.
MismatchRefused ==
  phase = "ready" =>
    /\ \A n \in Read : Info(n) = Good[n] \/ MayDiffer(n)
    /\ \A i \in 0..(NumLayers - 1), s, u \in Range(MixerParts), p \in DOMAIN Parts(Lin("", 0, 0)) :
         ~IsFull(i) /\ Parts(Lin("", 0, 0))[p] = Scalar =>
            Info(<<i, s, p>>).value = Info(<<i, u, p>>).value

\* The loader refuses a checkpoint only over a tensor it reads.
RefusedForReason ==
  error = "checkpoint" => DOMAIN odd \cap Read # {}

\* The rows the executor takes from the fused projection at MIXER_*_OFFSET are those of the
\* part it means.
FusedRows ==
  \A k \in DOMAIN layers : ~IsFull(k - 1) =>
    LET widths == [i \in DOMAIN layers[k].in_proj |->
                     (CHOOSE q \in Range(QuantLinears(k - 1)) :
                        q.short = layers[k].in_proj[i]).out]
    IN  \A i \in DOMAIN widths :
          MixerOffset[layers[k].in_proj[i]] = FoldSeq(+, 0, SubSeq(widths, 1, i - 1))

\* A built layer holds every tensor of its kind in exactly one place.
LayerWhole ==
  \A k \in DOMAIN layers :
    LET names == {q.short : q \in Range(QuantLinears(k - 1))}
                 \cup {t.short : t \in Range(PlainTensors(k - 1))}
        places(n) == {<<f, j>> \in (DOMAIN layers[k]) \X (1..Len(MixerParts)) :
                        j <= Len(layers[k][f]) /\ layers[k][f][j] = n}
    IN  \A n \in names : Cardinality(places(n)) = 1

\* Every row of a finished vocabulary matrix is written once, from its own place in the file.
TablesWhole ==
  \A s \in DOMAIN tables :
    /\ \A c \in Range(tables[s]) : c.first = c.from /\ c.first + c.rows <= Vocab
    /\ (phase = "ready" \/ RowsDone(s) >= Vocab) =>
         \A r \in 0..(Vocab - 1) :
           Cardinality({k \in DOMAIN tables[s] :
             tables[s][k].first <= r /\ r < tables[s][k].first + tables[s][k].rows}) = 1

\* "host RAM stays at the level of one layer rather than the whole checkpoint".
HostAtOneLayer ==
  odd = <<>> => \E i \in 0..(NumLayers - 1) : resident <= LayerBytes[i]

\* What the loader counts is what validate counted in the files: all plain bytes, the quantized
\* ones up to the padding of the scales, and one projection for the four parts of a mixer.
StatsAgree ==
  phase = "ready" /\ Problems = {} =>
    /\ stats.plain = Validated.plain
    /\ stats.quantized >= Validated.quantized
    /\ stats.projections = Validated.quantized_linears
         - (Len(MixerParts) - 1) * Cardinality({i \in 0..(NumLayers - 1) : ~IsFull(i)})

\* What the checks compare is refused when it is odd, and nothing is refused over a tensor that
\* the loader does not read.
OddRefused == MismatchRefused /\ RefusedForReason

\* "shapes and types come from `qwc_model::names` and `qwc_core::arch`, and a mismatch is a load
\* error" (weights.rs:3-4): whatever was loaded has the shape of the architecture.
ShapesChecked ==
  phase = "ready" => \A n \in Read : Good[n] = Scalar \/ Info(n).shape = Good[n].shape

\* What was loaded is whole: every tensor and every row once and in its place,
\* counted right, with no more of the files in host memory than one layer.
LoadedWhole ==
  LoadingTypeOK /\ FusedRows /\ LayerWhole /\ TablesWhole /\ HostAtOneLayer /\ StatsAgree

=============================================================================
