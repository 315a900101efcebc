------------------------------ MODULE Understand ------------------------------
(***************************************************************************)
(* ace_understand_generate of src/pipeline-understand.cpp from the LM on,   *)
(* on the same loaded LM as the calls of LmBatch: the audio codes of a song *)
(* are the prompt, and the LM writes its header, genres included, and its   *)
(* lyrics, one token at a time.  The prompt may nearly fill the cache.      *)
(*                                                                         *)
(* Left out: the encoder and the tokenizer (module Pipelines has their      *)
(* loading), the dump, the call without an LM.                              *)
(***************************************************************************)
EXTENDS LmBatch

CONSTANTS
    MaxAnswer,      \* the most tokens an answer may have (4096)
    AnswerTokens,   \* bound: what the LM writes where it is free, once
    WordyTokens,    \* the answer has more than this
    MaxGenre        \* bound: the tokens of a genre, when it is one already

ASSUME AnswerAssumption == MaxAnswer \in Nat \ {0} /\ {WordyTokens, MaxGenre} \subseteq Nat

SongCalls ==
    [mode : {"understand"}, fsm : BOOLEAN, direct : BOOLEAN, reqs : {<<>>}, prompt : Nat]

ASSUME ScenariosAssumption == Scenarios \subseteq Seq(LmCalls \cup SongCalls)

\* The prompt: as many rows as the song has codes, and the framing.
SongPrompt(b) == [k \in 1 .. b.prompt |-> <<"code">>]

NothingForced == [f \in Constrained |-> <<>>]

\* Slip: the prompt is not counted.
BudgetOfCache(b) == IF MaxAnswer < MaxSeq THEN MaxAnswer ELSE MaxSeq

\* max_tokens.
Budget(b) == IF MaxAnswer < MaxSeq - b.prompt THEN MaxAnswer ELSE MaxSeq - b.prompt

RefuseUnderstand(b) ==
    /\ Ready(b)
    /\ b.mode = "understand"
    /\ b.prompt >= MaxSeq
    /\ Return("failed")
    /\ aces' = <<>>
    /\ UNCHANGED lm

BeginUnderstand(b) ==
    /\ Ready(b)
    /\ b.mode = "understand"
    /\ b.prompt < MaxSeq
    /\ lm' = Forward(ResetKv(lm, 1), 1, SongPrompt(b))
    /\ fsms' = <<FreshFSM(NothingForced, FALSE, TRUE)>>
    /\ gen' = <<<<>>>>
    /\ inCodes' = <<FALSE>>     \* past_think
    /\ step' = 0
    /\ stage' = "understand"
    /\ aces' = <<>>
    /\ UNCHANGED <<last, done>>

\* Up to </think> the FSM's mask, and behind it no audio codes.
Freely == IF Len(gen[1]) < WordyTokens THEN AnswerTokens ELSE DullTokens
Answers ==
    IF inCodes[1] THEN Freely \ AudioCodes
    ELSE IF ~batch.fsm THEN Freely
    ELSE LET all == Unmasked(fsms[1], Freely, AudioCodes)
         IN  IF fsms[1].field = "genres" /\ Len(fsms[1].acc) >= MaxGenre /\ Newline \in all
             THEN {Newline} ELSE all

\* A token is taken in and fed at once, the last one too.
AnswerToken ==
    /\ stage = "understand"
    /\ step < Budget(batch)
    /\ \E tok \in Answers \ {EndOfTurn} :
        /\ gen' = <<Append(gen[1], tok)>>
        /\ fsms' = IF batch.fsm /\ ~inCodes[1] THEN <<UpdateFSM(fsms[1], tok)>> ELSE fsms
        /\ inCodes' = <<inCodes[1] \/ tok = EndOfThought>>
        /\ lm' = ForwardBatch(lm, <<1>>, <<tok>>, "full", batch.direct)
    /\ step' = step + 1
    /\ stage' = IF lm'.exited THEN "exited" ELSE stage
    /\ UNCHANGED <<calls, batch, aces, last, done>>

\* The LM ends its turn: the answer is parsed.
EndUnderstand ==
    /\ stage = "understand"
    /\ step < Budget(batch)
    /\ EndOfTurn \in Answers
    /\ Return("returned")
    /\ UNCHANGED <<calls, batch, aces, lm>>

\* The budget is used up, which counts as no answer, or the caller cancels.
FailUnderstand ==
    /\ stage = "understand"
    /\ Return("failed")
    /\ UNCHANGED <<calls, batch, aces, lm>>

UnderstandNext ==
    \/ Next
    \/ \E b \in ToSet(calls) : RefuseUnderstand(b) \/ BeginUnderstand(b)
    \/ AnswerToken
    \/ EndUnderstand
    \/ FailUnderstand

UnderstandSpec == Init /\ [][UnderstandNext]_vars
-----------------------------------------------------------------------------
(* Properties.                                                               *)

\* An answer never outgrows the cache, however long its prompt is: the process
\* does not exit (qwen3-lm.h ends it at max_seq_len), nothing that was sampled
\* is missing in the cache, and a call that follows finds the cache its own.
AnswerFits ==
    /\ stage # "exited"
    /\ stage = "understand" => RowsOf(lm, 1) = SongPrompt(batch) \o gen[1]

\* The LM that both pipelines share computes in memory and rows of its own.
ForwardsFit == GraphFits /\ AnswerFits

\* The instances in which the decoder misses nothing of what the LM writes: plain
\* tokens, and values on one line in the requests.  GenreGoesOn shows what becomes
\* of genres written in other ways.
PlainInstance ==
    /\ \A t \in CaptionTokens \cup DullTokens \cup AnswerTokens : Plain(t)
    /\ PlainGenres
    /\ \A s \in Scenarios : \A n \in DOMAIN s : PlainCall(s[n])

\* Of a genre that is being written, what stands so far begins an entry of the
\* vocabulary (metadata-fsm.h: "The tokens that keep the genres value a prefix
\* of some vocabulary entry").
GenreGoesOn ==
    stage = "understand" /\ fsms[1].field = "genres" /\ fsms[1].part = "value" =>
        HasGenre(Trimmed(FlattenSeq(fsms[1].acc)))
=============================================================================
