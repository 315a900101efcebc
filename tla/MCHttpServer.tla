---------------------------- MODULE MCHttpServer ----------------------------
(* An instance of HttpServer for TLC: see HttpServer.cfg. *)
EXTENDS HttpServer

Gguf(n, a) == [name |-> n, gguf |-> TRUE, arch |-> a]
LmFile == Gguf("lm1", "acestep-lm")
SynthFiles ==
    <<Gguf("dit1", "acestep-dit"), Gguf("enc1", "acestep-text-enc"), Gguf("vae1", "acestep-vae")>>

\* Several models for a name, one of each, the LM or the synth alone, and what
\* no pipeline can be made of.
SomeModels ==
    {SynthFiles \o <<Gguf("dit2", "acestep-dit"), LmFile, Gguf("lm2", "acestep-lm"),
                     Gguf("odd", "llama"), [name |-> "notes", gguf |-> FALSE, arch |-> ""]>>,
     <<LmFile>> \o SynthFiles, <<LmFile>>, SynthFiles, Tail(SynthFiles)}
SomeAdapters ==
    {<<[name |-> "a1", kind |-> "peft"], [name |-> "empty", kind |-> "dir"],
       [name |-> "voice", kind |-> "safetensors"]>>}

Text(s) == [kind |-> "str", is |-> s]
Num(n) == [kind |-> "num", is |-> n]
Plain == [caption |-> Text("words")]
Asks(f, v) == [x \in {"caption", f} |-> IF x = "caption" THEN Text("words") ELSE v]

PostOf(to, text, multipart, parts) ==
    [to |-> to, text |-> text, multipart |-> multipart, parts |-> parts, from |-> <<>>]
With(x, n) == [NoParts EXCEPT ![x] = n]
Both(x, n, y, m) == [NoParts EXCEPT ![x] = n, ![y] = m]

LmTexts ==
    {ObjectText(Plain), ObjectText(Asks("lm_batch_size", Num(3))),
     ObjectText(Asks("lm_batch_size", Num(-1))), ObjectText(Asks("seed", Num(0))),
     ObjectText(Asks("seed", Text("0"))), ObjectText(Asks("lm_mode", Text("format"))),
     ObjectText(Asks("lm_mode", Text(""))), ObjectText(Asks("lm_mode", Text("sing"))),
     ObjectText(Asks("lm_model", Text("lm2"))), ObjectText(Asks("lm_model", Text("gone"))),
     ObjectText(Asks("lyrics", Text("[Instrumental]"))),
     ObjectText(Asks("use_cot_caption", Text("no"))),
     ObjectText([lyrics |-> Text("sung")]), BadText, ArrayText(<<>>),
     ArrayText(<<Plain, Asks("lm_seed", Num(5))>>),
     ArrayText(<<Plain, Asks("lm_model", Text("lm2"))>>), ArrayText(<<Plain, Plain, Plain>>)}

SynthTexts ==
    {ObjectText(Plain), ObjectText([task_type |-> Text("lego")]),
     ObjectText([task_type |-> Text("cover")]), ObjectText(Asks("output_format", Text("ogg"))),
     ObjectText(Asks("adapter", Text("gone"))), ObjectText(Asks("adapter", Text("a1"))),
     ObjectText(Asks("synth_model", Text("dit2"))), ArrayText(<<Plain, Plain>>)}
SynthParts ==
    {NoParts, With("src", 2), With("src", 3), With("src", 0), With("audio", 4), With("audio", 0),
     Both("audio", 4, "ref", 3), Both("src", 1, "ref", 2), Both("audio", 4, "refAudio", 2),
     Both("audio", 4, "refAudio", 0), Both("ref", 0, "refAudio", 2)}

UnderstandTexts ==
    {NoText, BadText, ObjectText(Plain), ArrayText(<<Plain>>),
     ObjectText(Asks("lm_model", Text("lm2"))), ObjectText(Asks("lm_temperature", Num(300)))}
ExactModels ==
    [lm_model |-> Text("lm1"), synth_model |-> Text("dit2"), vae |-> Text("vae1")]
UnderstandParts ==
    {NoParts, With("audio", 4), With("audio", 0), With("src", 2), With("src", 3),
     Both("audio", 4, "src", 1)}

VaeTexts == {NoText, BadText, ObjectText(Asks("output_format", Text("wav24"))),
             ObjectText(Asks("output_format", Text("ogg")))}
VaeParts ==
    {NoParts, With("src", 2), With("src", 3), Both("audio", 4, "src", 1)}
    \cup {With("audio", n) : n \in {0, 1, 3, 4, 6}}

SomePosts ==
    {PostOf("lm", t, FALSE, NoParts) : t \in LmTexts}
    \cup {PostOf("synth", ObjectText(Plain), TRUE, s) : s \in SynthParts}
    \cup {PostOf("synth", t, FALSE, NoParts) : t \in SynthTexts}
    \cup {PostOf("synth", t, TRUE, Both("audio", 4, "refAudio", 2)) : t \in SynthTexts}
    \cup {PostOf(to, t, TRUE, With("audio", 4)) :
             to \in {"understand", "caption"}, t \in UnderstandTexts \cup {ObjectText(ExactModels)}}
    \cup {PostOf(to, ObjectText(Plain), TRUE, s) :
             to \in {"understand", "caption"}, s \in UnderstandParts}
    \cup {PostOf("vae", t, TRUE, With("src", 2)) : t \in VaeTexts}
    \cup {PostOf("vae", NoText, m, s) : m \in BOOLEAN, s \in VaeParts}

Many == [models |-> SomeModels, adapters |-> SomeAdapters, posts |-> SomePosts]
Few == [models |-> {<<LmFile>> \o SynthFiles}, adapters |-> {<<>>},
        posts |-> {PostOf("vae", NoText, TRUE, With("audio", 3))}]
=============================================================================
