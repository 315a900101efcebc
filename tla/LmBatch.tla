------------------------------- MODULE LmBatch -------------------------------
(***************************************************************************)
(* ace_lm_generate of src/pipeline-lm.cpp: a batch of requests goes through *)
(* phase 1, which writes the header and perhaps lyrics, is merged with what *)
(* the requests gave, and goes through phase 2, which writes audio codes.   *)
(* All sequences of a phase are decoded together and end one by one; each   *)
(* has its own FSM and is meant to have its own KV sets.  Calls come one    *)
(* after the other to the same loaded LM.                                   *)
(*                                                                         *)
(* What the model samples is any token the masks leave.  A prompt counts as *)
(* one row of the cache, and MaxSeq is never reached here (module           *)
(* Understand has the prompts that fill it).  Left out are the debug dump,  *)
(* an LM without its partial head, the instrumental variant of the inspire  *)
(* prompt, the <think> tag that the parser skips (the masks never let it    *)
(* open a header), and the language "unknown", which counts as none given.  *)
(***************************************************************************)
EXTENDS MetadataFSM, LmModel, FiniteSets

CONSTANTS
    Scenarios,      \* the sequences of calls that one loaded LM may get
    MaxBatch,       \* AceLmParams::max_batch
    MaxNew,         \* the token budget of phase 1
    MaxCodes,       \* bound: the token budget of phase 2
    CaptionTokens,  \* bound: what the LM writes in a caption
    LyricsTokens,   \* bound: what it writes after the header, or without FSM
    DullTokens,     \* bound: what it writes from FreeTokens on
    FreeTokens,
    AudioCodes      \* bound: the audio codes it writes

\* The budgets of the code (2048 tokens of text, and five codes a second) leave
\* room for the prompts in its 8192 rows; here a prompt is one row.
ASSUME BoundsAssumption ==
    /\ {MaxBatch, MaxNew, MaxCodes, FreeTokens} \subseteq Nat
    /\ MaxBatch > 0
    /\ MaxNew < MaxSeq /\ MaxCodes < MaxSeq

\* ace_lm_load asks for a set for each sequence, and one for its unconditional
\* twin.
ASSUME SetsAssumption == KvSets = 2 * MaxBatch

Modes == {"generate", "inspire", "format"}

\* An AceRequest as this pipeline reads it, and a call.  Empty is not given.
LmRequests ==
    [given : [Constrained -> {v \in Seq(STRING) : Len(v) <= Span - 4}],
     caption : Seq(STRING), lyrics : Seq(STRING), cot : BOOLEAN, codes : BOOLEAN]
LmCalls ==
    [mode : Modes, fsm : BOOLEAN, cfg : BOOLEAN, split : BOOLEAN, direct : BOOLEAN,
     reqs : Seq(LmRequests)]

VARIABLES
    calls,      \* the calls still to come
    stage,      \* where the call is
    batch,      \* its arguments
    aces,       \* the prompts filled in so far, after the merge
    fsms,       \* P1Seq::fsm
    gen,        \* P1Seq::gen_tokens, in phase 2 BatchSeq::audio_codes
    last,       \* last_token
    inCodes,    \* P1Seq::codes_phase
    done,       \* done
    step,       \* the decode steps of the phase
    lm          \* the LM; of its sets the conditional ones come first

seqVars == <<fsms, gen, last, inCodes, done, step>>
vars == <<calls, stage, batch, aces, seqVars, lm>>

N == Len(batch.reqs)
Seqs == 1 .. N
Active == {i \in Seqs : ~done[i]}
Req(i) == batch.reqs[i]

\* What steers the whole call.
SkipCodes(b) == b.mode \in {"inspire", "format"}
NeedLyrics(r) == r.lyrics = <<>>
HasAllMetas(r) == \A f \in Constrained \ {"language"} : r.given[f] # <<>>
NeedFill(r) == NeedLyrics(r) \/ ~HasAllMetas(r)
GenLyrics(b) == NeedLyrics(b.reqs[1]) \/ SkipCodes(b)
StopAtReasoning(b) == ~GenLyrics(b)
\* CFG distorts text: phase 1 does without it when it writes any.
FillCfg(b) == b.cfg /\ ~GenLyrics(b) /\ ~b.reqs[1].cot

-----------------------------------------------------------------------------
NoCall == [mode |-> "none", reqs |-> <<>>]

Init ==
    /\ calls \in Scenarios
    /\ stage = "idle"
    /\ batch = NoCall
    /\ aces = <<>> /\ fsms = <<>> /\ gen = <<>> /\ last = <<>>
    /\ inCodes = <<>> /\ done = <<>>
    /\ step = 0
    /\ lm = LoadedLm

\* The next call, once the one before it has returned.
Ready(b) ==
    /\ stage \in {"idle", "returned", "failed"}
    /\ calls # <<>>
    /\ b = Head(calls)
    /\ calls' = Tail(calls)
    /\ batch' = b

\* The call returns: its local state is gone, the cache stays.
Return(outcome) ==
    /\ stage' = outcome
    /\ fsms' = <<>> /\ gen' = <<>> /\ last' = <<>> /\ inCodes' = <<>> /\ done' = <<>>
    /\ step' = 0

-----------------------------------------------------------------------------
(* The cache.                                                                *)

\* prompts_all_equal: one prefill, copied to the other sets, or one for each.
AllEqual(prompts) == \A i \in DOMAIN prompts : prompts[i] = prompts[1]

\* The sets base + 1 and on, filled with the prompts one by one.
Filling(m, base, prompts, shared) ==
    LET filled[i \in 0 .. Len(prompts)] ==
            IF i = 0 THEN m
            ELSE IF shared /\ i > 1 THEN CopyKv(filled[i - 1], base + 1, base + i)
            ELSE Forward(filled[i - 1], base + i, <<prompts[i]>>)
    IN  filled[Len(prompts)]

\* ResetKv for each of the sets up to n.
ResetSets(m, n) ==
    [m EXCEPT !.pos = [s \in DOMAIN m.pos |-> IF s <= n THEN 0 ELSE m.pos[s]],
              !.kv = [s \in DOMAIN m.kv |-> IF s <= n THEN <<>> ELSE m.kv[s]]]

\* The conditional sets, and the unconditional ones under CFG, are reset and
\* filled; the others keep what they have.
Prefilled(cond, sharedCond, uncond, sharedUncond) ==
    Filling(Filling(ResetSets(lm, Len(cond) + Len(uncond)), 0, cond, sharedCond),
            Len(cond), uncond, sharedUncond)

\* The sequences of a set in their order.
InOrder(seqs) ==
    [k \in 1 .. Cardinality(seqs) |->
        CHOOSE i \in seqs : Cardinality({j \in seqs : j <= i}) = k]

SetsOf(seqs, base) == [k \in DOMAIN InOrder(seqs) |-> base + InOrder(seqs)[k]]
LastOf(seqs) == [k \in DOMAIN InOrder(seqs) |-> last[InOrder(seqs)[k]]]

\* One forward: the last tokens of seqs into their sets, base apart, or into
\* the conditional and the unconditional ones.
Fed(m, seqs, base, head) ==
    ForwardBatch(m, SetsOf(seqs, base), LastOf(seqs), head, batch.direct)
FedBoth(m, seqs, head) ==
    ForwardBatch(m, SetsOf(seqs, 0) \o SetsOf(seqs, N), LastOf(seqs) \o LastOf(seqs),
                 head, batch.direct)

-----------------------------------------------------------------------------
(* Phase 1.                                                                  *)

\* The prompts, by what they depend on.
LmPrompt(b, r) ==
    CASE b.mode = "inspire" \/ (b.mode = "generate" /\ NeedLyrics(b.reqs[1]))
                              -> <<"inspire", r.caption>>
      [] b.mode = "format"    -> <<"format", r.caption, r.lyrics>>
      [] OTHER                -> <<"fill", r.caption, r.lyrics>>
LmUncond(r) == <<"uncond", r.lyrics>>

\* The FSM of a request: its own metadata are forced, and its caption is
\* skipped when it is locked, which inspire ignores.
RequestFSM(b, r) ==
    FreshFSM([f \in Constrained |-> [k \in DOMAIN r.given[f] |-> <<r.given[f][k]>>]],
             ~b.reqs[1].cot /\ b.mode # "inspire", FALSE)

Compatible(b) ==
    \A i \in DOMAIN b.reqs :
        /\ NeedLyrics(b.reqs[i]) = NeedLyrics(b.reqs[1])
        /\ NeedFill(b.reqs[i]) = NeedFill(b.reqs[1])
        /\ b.reqs[i].codes = b.reqs[1].codes
        /\ b.reqs[i].cot = b.reqs[1].cot

Accepted(b) ==
    /\ Len(b.reqs) \in 1 .. MaxBatch
    /\ \A i \in DOMAIN b.reqs : b.reqs[i].caption # <<>>
    /\ Compatible(b)

\* A request as an AcePrompt.
Base(r) == [caption |-> r.caption, lyrics |-> r.lyrics, metas |-> r.given]

Reject(b) ==
    /\ Ready(b)
    /\ b.mode \in Modes
    /\ ~Accepted(b)
    /\ Return("failed")
    /\ aces' = <<>>
    /\ UNCHANGED lm

\* The requests bring codes, and nothing is left to do, or they bring all
\* metadata and lyrics, and only codes are missing.
BeginWithout(b) ==
    /\ Ready(b)
    /\ b.mode \in Modes
    /\ Accepted(b)
    /\ ~SkipCodes(b)
    /\ b.reqs[1].codes \/ ~NeedFill(b.reqs[1])
    /\ aces' = [i \in DOMAIN b.reqs |-> Base(b.reqs[i])]
    /\ stage' = IF b.reqs[1].codes THEN "returned" ELSE "phase2"
    /\ UNCHANGED <<seqVars, lm>>

\* The prompts are prefilled.
BeginPhase1(b) ==
    /\ Ready(b)
    /\ b.mode \in Modes
    /\ Accepted(b)
    /\ SkipCodes(b) \/ (NeedFill(b.reqs[1]) /\ ~b.reqs[1].codes)
    /\ LET cond == [i \in DOMAIN b.reqs |-> LmPrompt(b, b.reqs[i])]
           uncond == IF FillCfg(b) THEN [i \in DOMAIN b.reqs |-> LmUncond(b.reqs[i])] ELSE <<>>
       IN  lm' = Prefilled(cond, AllEqual(cond), uncond, AllEqual(uncond))
    /\ fsms' = [i \in DOMAIN b.reqs |-> RequestFSM(b, b.reqs[i])]
    /\ gen' = [i \in DOMAIN b.reqs |-> <<>>]
    /\ last' = [i \in DOMAIN b.reqs |-> <<>>]
    /\ inCodes' = [i \in DOMAIN b.reqs |-> FALSE]
    /\ done' = [i \in DOMAIN b.reqs |-> FALSE]
    /\ step' = 0
    /\ stage' = "first1"
    /\ aces' = <<>>

\* What the LM writes where it is free.
Written(i) ==
    IF Len(gen[i]) >= FreeTokens THEN DullTokens
    ELSE IF inCodes[i] \/ ~batch.fsm THEN LyricsTokens
    ELSE CaptionTokens

\* The tokens left to sample: the FSM's mask up to </think>, and then audio
\* codes alone unless lyrics are asked for.
Masked(i) == batch.fsm /\ ~inCodes[i]
Samplable(i) ==
    IF Masked(i) THEN Unmasked(Injected(fsms[i]), Written(i), AudioCodes)
    ELSE IF inCodes[i] /\ ~GenLyrics(batch) THEN AudioCodes \cup {EndOfTurn}
    ELSE Written(i)

\* One token for each active sequence.
Samples1 ==
    {tok \in [Active -> UNION {Samplable(i) : i \in Active}] :
        \A i \in Active : tok[i] \in Samplable(i)}

\* The sampled tokens are taken in.
Sampled1(tok) ==
    LET ends(i) == tok[i] = EndOfTurn
        closes(i) == tok[i] = EndOfThought /\ ~inCodes[i]
        stops(i) == closes(i) /\ StopAtReasoning(batch)
    IN  /\ gen' = [i \in Seqs |-> IF done[i] \/ ends(i) THEN gen[i] ELSE Append(gen[i], tok[i])]
        /\ fsms' = [i \in Seqs |->
                       IF ~done[i] /\ ~ends(i) /\ Masked(i)
                       THEN UpdateFSM(Injected(fsms[i]), tok[i]) ELSE fsms[i]]
        /\ inCodes' = [i \in Seqs |-> inCodes[i] \/ (~done[i] /\ closes(i))]
        /\ done' = [i \in Seqs |-> done[i] \/ ends(i) \/ stops(i)]
        /\ last' = [i \in Seqs |->
                       IF done[i] \/ (stops(i) /\ stage = "phase1") THEN last[i] ELSE tok[i]]

\* The first tokens come from the logits of the prefill.
First1 ==
    /\ stage = "first1"
    /\ \E tok \in Samples1 : Sampled1(tok)
    /\ stage' = "phase1"
    /\ UNCHANGED <<calls, batch, aces, step, lm>>

\* Slip: only the sequences that go on are fed.
Fed1Active ==
    IF FillCfg(batch) THEN FedBoth(lm, Active, "full") ELSE Fed(lm, Active, 0, "full")

\* One step for all: the sequences that are done are fed too.
Fed1 == IF FillCfg(batch) THEN FedBoth(lm, Seqs, "full") ELSE Fed(lm, Seqs, 0, "full")

Decode1 ==
    /\ stage = "phase1"
    /\ step < MaxNew
    /\ Active # {}
    /\ lm' = Fed1
    /\ \E tok \in Samples1 : Sampled1(tok)
    /\ step' = step + 1
    /\ stage' = IF lm'.exited THEN "exited" ELSE stage
    /\ UNCHANGED <<calls, batch, aces>>

-----------------------------------------------------------------------------
(* The merge: parse_cot_and_lyrics and parse_phase1_into_aces.               *)

Digits == {"1", "2", "9"}
LongDurations == {<<"9">>}  \* bound: the durations over 600 s

\* The text up to </think>, and the text after it.
Cot(text) ==
    LET k == SelectInSeq(text, LAMBDA a : a = "</think>")
    IN  IF k = 0 THEN text ELSE SubSeq(text, 1, k - 1)
After(text) ==
    LET k == SelectInSeq(text, LAMBDA a : a = "</think>")
    IN  IF k = 0 THEN <<>> ELSE SubSeq(text, k + 1, Len(text))

\* The text from the k-th piece up to the end of the line, and without blanks.
NoBlanks(text) == SelectSeq(text, LAMBDA a : a # " ")
RestOfLine(text, k) ==
    LET end == SelectInSubSeq(text, k, Len(text), LAMBDA a : a = "\n")
    IN  NoBlanks(SubSeq(text, k, IF end = 0 THEN Len(text) ELSE end - 1))

\* get_field: the first "key:" of the text, wherever it stands.
KeyAt(text, key) == {k \in 1 .. Len(text) - 1 : text[k] = key /\ text[k + 1] = ":"}
FieldText(text, key) ==
    IF KeyAt(text, key) = {} THEN <<>>
    ELSE RestOfLine(text, 2 + CHOOSE k \in KeyAt(text, key) : \A m \in KeyAt(text, key) : k <= m)

\* atoi and atof: the digits in front, and nothing is no number.
Number(text) ==
    LET k == SelectInSeq(text, LAMBDA a : a \notin Digits)
    IN  IF k = 0 THEN text ELSE SubSeq(text, 1, k - 1)

Parsed(text, f) ==
    IF f \in {"bpm", "duration"} THEN Number(FieldText(Cot(text), f)) ELSE FieldText(Cot(text), f)

\* The caption may go on over several lines, up to the next field but one.
ParsedCaption(text) ==
    LET cot == Cot(text)
        from == CHOOSE k \in KeyAt(cot, "caption") : \A m \in KeyAt(cot, "caption") : k <= m
        line(f) == {k \in KeyAt(cot, f) : k > from /\ cot[k - 1] = "\n"}
        ends == IF line("duration") # {} THEN line("duration") ELSE line("keyscale")
        end == IF ends = {} THEN Len(cot) ELSE (CHOOSE k \in ends : \A m \in ends : k <= m) - 1
    IN  IF FieldText(cot, "caption") = <<>> THEN <<>>
        ELSE SelectSeq(SubSeq(cot, from + 2, end), LAMBDA a : a \notin {" ", "\n"})

ParsedLyrics(text) == SelectSeq(After(text), LAMBDA a : a \notin {" ", "\n"})

OrElse(text, default) == IF text # <<>> THEN text ELSE default

\* Slip: what the LM wrote replaces what the request gave.
FilledOver(b, r, text) ==
    [f \in Constrained |-> OrElse(Parsed(text, f), r.given[f])]

\* The gaps are filled.  Inspire starts from an empty prompt.
Filled(b, r, text) ==
    [f \in Constrained |->
        OrElse(IF b.mode = "inspire" THEN <<>> ELSE r.given[f], Parsed(text, f))]

Clamped(d) == IF d = <<>> THEN <<"120">> ELSE IF d \in LongDurations THEN <<"600">> ELSE d

\* What the LM wrote for a caption counts unless the caption is locked, what
\* it wrote for lyrics when it was asked to; an empty caption never wins.
Merged(i) ==
    LET r == Req(i)
        text == FlattenSeq(gen[i])
        metas == Filled(batch, r, text)
        base == IF batch.mode = "inspire" THEN <<>> ELSE r.caption
        locked == ~Req(1).cot /\ batch.mode # "inspire"
    IN  [caption |-> OrElse(OrElse(IF locked THEN <<>> ELSE ParsedCaption(text), base), r.caption),
         lyrics |-> OrElse(IF GenLyrics(batch) THEN ParsedLyrics(text) ELSE <<>>,
                           IF batch.mode = "inspire" THEN <<>> ELSE r.lyrics),
         metas |-> [metas EXCEPT !["duration"] = Clamped(@)]]

\* Phase 1 is over: every sequence ended, or the budget did.
Merge ==
    /\ stage = "phase1"
    /\ step = MaxNew \/ Active = {}
    /\ aces' = [i \in Seqs |-> Merged(i)]
    /\ lm' = ResetSets(lm, IF FillCfg(batch) THEN 2 * N ELSE N)
    /\ Return(IF SkipCodes(batch) THEN "returned" ELSE "phase2")
    /\ UNCHANGED <<calls, batch>>

-----------------------------------------------------------------------------
(* Phase 2.                                                                  *)

CodesPrompt(a) == <<"codes", a.caption, a.lyrics, a.metas>>
CodesUncond == <<"codes_uncond">>

BeginPhase2 ==
    /\ stage = "phase2"
    /\ LET cond == [i \in Seqs |-> CodesPrompt(aces[i])]
           uncond == IF batch.cfg THEN [i \in Seqs |-> CodesUncond] ELSE <<>>
       IN  lm' = Prefilled(cond, AllEqual(cond), uncond, AllEqual(cond))
    /\ gen' = [i \in Seqs |-> <<>>]
    /\ last' = [i \in Seqs |-> <<>>]
    /\ done' = [i \in Seqs |-> FALSE]
    /\ step' = 0
    /\ stage' = "first2"
    /\ UNCHANGED <<calls, batch, aces, fsms, inCodes>>

Sampled2(tok) ==
    /\ gen' = [i \in Seqs |->
                  IF done[i] \/ tok[i] = EndOfTurn THEN gen[i] ELSE Append(gen[i], tok[i])]
    /\ done' = [i \in Seqs |-> done[i] \/ tok[i] = EndOfTurn]
    /\ last' = [i \in Seqs |-> IF done[i] THEN last[i] ELSE tok[i]]
    /\ UNCHANGED <<calls, batch, aces, fsms, inCodes>>

\* EOS and audio codes alone are looked at.
Samples2 == [Active -> AudioCodes \cup {EndOfTurn}]

First2 ==
    /\ stage = "first2"
    /\ \E tok \in Samples2 : Sampled2(tok)
    /\ stage' = "decode2"
    /\ UNCHANGED <<step, lm>>

\* The batch of a step holds the active sequences alone, and names their sets:
\* conditional ones and then unconditional ones, or a forward for each kind.
Fed2 ==
    IF ~batch.cfg THEN Fed(lm, Active, 0, "codes")
    ELSE IF batch.split THEN Fed(Fed(lm, Active, 0, "codes"), Active, N, "codes")
    ELSE FedBoth(lm, Active, "codes")

Decode2 ==
    /\ stage = "decode2"
    /\ step < MaxCodes
    /\ Active # {}
    /\ lm' = Fed2
    /\ \E tok \in Samples2 : Sampled2(tok)
    /\ step' = step + 1
    /\ stage' = IF lm'.exited THEN "exited" ELSE stage

EndPhase2 ==
    /\ stage = "decode2"
    /\ step = MaxCodes \/ Active = {}
    /\ Return("returned")
    /\ UNCHANGED <<calls, batch, aces, lm>>

-----------------------------------------------------------------------------
\* The cancel flag is polled before every step.
Cancelled ==
    /\ \/ stage = "phase1" /\ step < MaxNew
       \/ stage = "decode2" /\ step < MaxCodes
    /\ Active # {}
    /\ Return("failed")
    /\ UNCHANGED <<calls, batch, aces, lm>>

Returned ==
    /\ stage = "exited" \/ (stage \in {"returned", "failed"} /\ calls = <<>>)
    /\ UNCHANGED vars

Next ==
    \/ \E b \in ToSet(calls) : Reject(b) \/ BeginWithout(b) \/ BeginPhase1(b)
    \/ First1
    \/ Decode1
    \/ Merge
    \/ BeginPhase2
    \/ First2
    \/ Decode2
    \/ EndPhase2
    \/ Cancelled
    \/ Returned

Spec == Init /\ [][Next]_vars
-----------------------------------------------------------------------------
(* Properties.                                                               *)

\* A call that gives no value with a line break in it.
PlainCall(b) ==
    \A i \in DOMAIN b.reqs : \A f \in Constrained :
        \A k \in DOMAIN b.reqs[i].given[f] : b.reqs[i].given[f][k] # "\n"

\* A header that the FSM saw through to </think> is well formed whatever the
\* LM sampled: legal or forced values, no field twice or out of order, none
\* missing behind the one that the LM chose after its caption; for an answer
\* of the understand pass a genre of the vocabulary with them
\* (docs/ARCHITECTURE.md: "enforces valid field names and values").
HeaderWellFormed ==
    stage \in {"phase1", "understand"} =>
        \A i \in DOMAIN fsms : fsms[i].field = "codes" =>
            IsHeader(fsms[i], SubSeq(gen[i], 1, SelectInSeq(gen[i], LAMBDA t : t = EndOfThought)))

\* The header ends: outside the caption every token brings its end nearer, and
\* within the caption none moves it away, so that only a caption, or a last
\* line of it that names no field, can use up the budget.
HeaderProgress ==
    [][stage' = "phase1" /\ batch.fsm =>
         \A i \in Active : ~inCodes[i] /\ gen'[i] # gen[i] =>
            IF Boundless(fsms[i])
            THEN Distance(fsms'[i]) <= Distance(fsms[i])
            ELSE Distance(fsms'[i]) < Distance(fsms[i])]_vars

\* The cache that a sequence is decoded from is its own: its prompt and the
\* tokens sampled for it, but for the last, which is fed next, with nothing of
\* another sequence, an earlier phase or an earlier call.  Under CFG its
\* unconditional set has the same tokens.
OwnTokens(i, set, prompt) == RowsOf(lm, set) = <<prompt>> \o Front(gen[i])

KvOwn1 ==
    stage = "phase1" =>
        \A i \in Active :
            /\ OwnTokens(i, i, LmPrompt(batch, Req(i)))
            /\ FillCfg(batch) => OwnTokens(i, N + i, LmUncond(Req(i)))

\* qwen3-lm.h: "kv_sets[N]: which KV set each token uses".
KvOwn2 ==
    stage = "decode2" =>
        \A i \in Active :
            /\ OwnTokens(i, i, CodesPrompt(aces[i]))
            /\ batch.cfg => OwnTokens(i, N + i, CodesUncond)

\* The sets that a batch of two names are consecutive as long as both go on,
\* and with one kind of sets to a forward also when one of them has ended.
NamedInOneRun == Active = Seqs \/ (N <= 2 /\ (~batch.cfg \/ batch.split))

\* Through phase 1, and through phase 2 as long as the sets of the batch lie
\* side by side, every sequence is decoded from its own cache.
KvOwnTokens == KvOwn1 /\ (stage = "decode2" /\ NamedInOneRun => KvOwn2)

\* A batched forward computes the graph of its own shape, and memory that is
\* still that graph's, though the graph is kept from step to step and from call
\* to call while prefills take the scheduler's memory
\* (qwen3-lm.h: "A prefill forward clobbers the shared sched allocation").
GraphFits == lm.ran.key = lm.ran.shape /\ lm.ran.own

\* What a request gave is what it gets back, whatever the LM wrote and however
\* its text is read: metadata, lyrics that were not to be rewritten, a caption
\* that was locked.  Inspire keeps nothing but an empty caption's original.
RequestKept ==
    aces # <<>> =>
        \A i \in Seqs :
            /\ aces[i].caption # <<>>
            /\ aces[i].metas["duration"] # <<>> \/ ~NeedFill(Req(i)) \/ Req(i).codes
            /\ batch.mode # "inspire" =>
                /\ \A f \in Constrained :
                      Req(i).given[f] # <<>> /\ f # "duration" => aces[i].metas[f] = Req(i).given[f]
                /\ Req(i).given["duration"] # <<>> =>
                      aces[i].metas["duration"] \in
                          {Req(i).given["duration"], Clamped(Req(i).given["duration"])}
                /\ ~Req(1).cot => aces[i].caption = Req(i).caption
                /\ batch.mode = "generate" /\ ~NeedLyrics(Req(i)) => aces[i].lyrics = Req(i).lyrics
=============================================================================
