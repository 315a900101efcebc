--------------------------- MODULE Understand_proofs ---------------------------
(***************************************************************************)
(* Proofs about the LM under both of its pipelines, for any sequence of     *)
(* calls of any requests, any vocabulary and whatever the LM samples.       *)
(***************************************************************************)
EXTENDS Understand, FiniteSetTheorems, SequenceTheorems, WellFoundedInduction, TLAPS

-----------------------------------------------------------------------------
(* The calls.                                                                *)

\* The stages of a call of LmBatch that was accepted.
Phases == {"first1", "phase1", "phase2", "first2", "decode2"}

CallInv ==
    /\ calls \in Seq(LmCalls \cup SongCalls)
    /\ stage \in Phases => batch \in LmCalls /\ Accepted(batch)
    /\ stage = "understand" => batch \in SongCalls /\ batch.prompt < MaxSeq

LEMMA NextCall ==
  ASSUME CallInv, NEW b, Ready(b)
  PROVE  /\ b \in LmCalls \cup SongCalls
         /\ calls' \in Seq(LmCalls \cup SongCalls)
         /\ b.mode \in Modes => b \in LmCalls
         /\ b.mode = "understand" => b \in SongCalls
<1>1. b \in LmCalls \cup SongCalls /\ calls' \in Seq(LmCalls \cup SongCalls)
  BY HeadTailProperties DEF CallInv, Ready
<1>2. \A c \in LmCalls : c.mode \in Modes
  BY DEF LmCalls
<1>3. \A c \in SongCalls : c.mode = "understand"
  BY DEF SongCalls
<1>4. "understand" \notin Modes
  BY DEF Modes
<1> QED
  BY <1>1, <1>2, <1>3, <1>4

\* One of the actions, by name.
LEMMA Actions ==
  ASSUME UnderstandNext
  PROVE  \/ \E b : Reject(b) \/ BeginWithout(b) \/ BeginPhase1(b)
         \/ \E b : RefuseUnderstand(b) \/ BeginUnderstand(b)
         \/ First1 \/ Decode1 \/ Merge
         \/ BeginPhase2 \/ First2 \/ Decode2 \/ EndPhase2
         \/ Cancelled \/ Returned
         \/ AnswerToken \/ EndUnderstand \/ FailUnderstand
BY DEF UnderstandNext, Next

LEMMA CallsBegin ==
  ASSUME CallInv, NEW b, Reject(b) \/ BeginWithout(b) \/ BeginPhase1(b)
  PROVE  CallInv'
<1>1. Ready(b) /\ b.mode \in Modes
  BY DEF Reject, BeginWithout, BeginPhase1
<1>2. b \in LmCalls /\ calls' \in Seq(LmCalls \cup SongCalls) /\ batch' = b
  BY <1>1, NextCall DEF Ready
<1>3. stage' \in {"failed", "returned", "phase2", "first1"}
  BY DEF Reject, BeginWithout, BeginPhase1, Return
<1>4. stage' \in Phases => Accepted(b)
  BY DEF Reject, BeginWithout, BeginPhase1, Return, Phases
<1> QED
  BY <1>2, <1>3, <1>4 DEF CallInv

LEMMA CallsUnderstand ==
  ASSUME CallInv, NEW b, RefuseUnderstand(b) \/ BeginUnderstand(b)
  PROVE  CallInv'
<1>1. Ready(b) /\ b.mode = "understand"
  BY DEF RefuseUnderstand, BeginUnderstand
<1>2. b \in SongCalls /\ calls' \in Seq(LmCalls \cup SongCalls) /\ batch' = b
  BY <1>1, NextCall DEF Ready
<1>3. stage' \notin Phases /\ (stage' = "understand" => b.prompt < MaxSeq)
  BY DEF RefuseUnderstand, BeginUnderstand, Return, Phases
<1> QED
  BY <1>2, <1>3 DEF CallInv

\* Every other step keeps the call, and leaves it or goes on in it.
LEMMA CallGoesOn ==
  ASSUME \/ First1 \/ Decode1 \/ Merge
         \/ BeginPhase2 \/ First2 \/ Decode2 \/ EndPhase2
         \/ Cancelled \/ Returned \/ UNCHANGED vars
         \/ AnswerToken \/ EndUnderstand \/ FailUnderstand
  PROVE  /\ calls' = calls /\ batch' = batch
         /\ stage' \in Phases => stage \in Phases
         /\ stage' = "understand" => stage = "understand"
<1>1. CASE First1
  BY <1>1 DEF First1, Phases
<1>2. CASE Decode1
  BY <1>2 DEF Decode1, Phases
<1>3. CASE Merge
  BY <1>3 DEF Merge, Return, Phases
<1>4. CASE BeginPhase2
  BY <1>4 DEF BeginPhase2, Phases
<1>5. CASE First2
  BY <1>5 DEF First2, Sampled2, Phases
<1>6. CASE Decode2
  BY <1>6 DEF Decode2, Sampled2, Phases
<1>7. CASE EndPhase2
  BY <1>7 DEF EndPhase2, Return, Phases
<1>8. CASE Cancelled
  BY <1>8 DEF Cancelled, Return, Phases
<1>9. CASE Returned \/ UNCHANGED vars
  BY <1>9 DEF Returned, vars
<1>10. CASE AnswerToken
  BY <1>10 DEF AnswerToken, Phases
<1>11. CASE EndUnderstand \/ FailUnderstand
  BY <1>11 DEF EndUnderstand, FailUnderstand, Return, Phases
<1> QED
  BY <1>1, <1>2, <1>3, <1>4, <1>5, <1>6, <1>7, <1>8, <1>9, <1>10, <1>11

LEMMA CallsStep == CallInv /\ [UnderstandNext]_vars => CallInv'
<1> SUFFICES ASSUME CallInv, [UnderstandNext]_vars PROVE CallInv'
  OBVIOUS
<1>1. CASE \E b : Reject(b) \/ BeginWithout(b) \/ BeginPhase1(b)
  BY <1>1, CallsBegin
<1>2. CASE \E b : RefuseUnderstand(b) \/ BeginUnderstand(b)
  BY <1>2, CallsUnderstand
<1>3. ASSUME calls' = calls, batch' = batch, stage' \in Phases => stage \in Phases,
             stage' = "understand" => stage = "understand"
      PROVE  CallInv'
  BY <1>3 DEF CallInv
<1> QED
  BY <1>1, <1>2, <1>3, CallGoesOn, Actions

LEMMA CallsInit == Init => CallInv
BY ScenariosAssumption DEF Init, CallInv, Phases

-----------------------------------------------------------------------------
(* What a request gave.                                                      *)

LEMMA OrElseKeeps ==
  ASSUME NEW x, NEW d
  PROVE  /\ d # <<>> => OrElse(x, d) # <<>>
         /\ OrElse(<<>>, d) = d
         /\ d # <<>> => OrElse(d, x) = d
BY DEF OrElse

LEMMA ClampedIsSome == ASSUME NEW d PROVE Clamped(d) # <<>>
<1>1. <<"120">> # <<>> /\ <<"600">> # <<>>
  OBVIOUS
<1> QED
  BY <1>1 DEF Clamped

\* What the requests of an accepted call have in common.
LEMMA AcceptedAlike ==
  ASSUME NEW b \in LmCalls, Accepted(b), NEW i \in 1 .. Len(b.reqs)
  PROVE  /\ b.reqs \in Seq(LmRequests)
         /\ b.reqs[i] \in LmRequests /\ b.reqs[1] \in LmRequests
         /\ Len(b.reqs) \in 1 .. MaxBatch /\ DOMAIN b.reqs = 1 .. Len(b.reqs)
         /\ b.reqs[i].caption # <<>>
         /\ NeedLyrics(b.reqs[i]) = NeedLyrics(b.reqs[1])
         /\ NeedFill(b.reqs[i]) = NeedFill(b.reqs[1])
         /\ b.reqs[i].codes = b.reqs[1].codes
<1>1. b.reqs \in Seq(LmRequests)
  BY DEF LmCalls
<1>2. DOMAIN b.reqs = 1 .. Len(b.reqs) /\ Len(b.reqs) \in Nat
  BY <1>1, LenProperties
<1>3. Len(b.reqs) \in 1 .. MaxBatch
  BY DEF Accepted
<1>4. 1 \in 1 .. Len(b.reqs)
  BY <1>3, BoundsAssumption
<1>5. b.reqs[i] \in LmRequests /\ b.reqs[1] \in LmRequests
  BY <1>1, <1>4, ElementOfSeq
<1> QED
  BY <1>1, <1>2, <1>3, <1>5, Zenon DEF Accepted, Compatible

\* RequestKept of one sequence, whose prompt came out as a.
Kept(b, r, a) ==
    /\ a.caption # <<>>
    /\ a.metas["duration"] # <<>> \/ ~NeedFill(r) \/ r.codes
    /\ b.mode # "inspire" =>
        /\ \A f \in Constrained :
              r.given[f] # <<>> /\ f # "duration" => a.metas[f] = r.given[f]
        /\ r.given["duration"] # <<>> =>
              a.metas["duration"] \in {r.given["duration"], Clamped(r.given["duration"])}
        /\ ~b.reqs[1].cot => a.caption = r.caption
        /\ b.mode = "generate" /\ ~NeedLyrics(r) => a.lyrics = r.lyrics

LEMMA BaseKept ==
  ASSUME NEW b \in LmCalls, Accepted(b), NEW i \in 1 .. Len(b.reqs),
         b.reqs[1].codes \/ ~NeedFill(b.reqs[1])
  PROVE  Kept(b, b.reqs[i], Base(b.reqs[i]))
BY AcceptedAlike DEF Kept, Base

LEMMA MergedKept ==
  ASSUME batch \in LmCalls, Accepted(batch), NEW i \in Seqs
  PROVE  Kept(batch, Req(i), Merged(i))
<1> DEFINE r == Req(i)
           text == FlattenSeq(gen[i])
           metas == Filled(batch, r, text)
           base == IF batch.mode = "inspire" THEN <<>> ELSE r.caption
           locked == ~Req(1).cot /\ batch.mode # "inspire"
           caption == OrElse(OrElse(IF locked THEN <<>> ELSE ParsedCaption(text), base), r.caption)
           lyrics == OrElse(IF GenLyrics(batch) THEN ParsedLyrics(text) ELSE <<>>,
                            IF batch.mode = "inspire" THEN <<>> ELSE r.lyrics)
           filled == [metas EXCEPT !["duration"] = Clamped(@)]
<1>1. /\ Merged(i).caption = caption /\ Merged(i).lyrics = lyrics /\ Merged(i).metas = filled
  BY DEF Merged
<1>2. i \in 1 .. Len(batch.reqs)
  BY DEF Seqs, N
<1>3. r.caption # <<>> /\ NeedLyrics(r) = NeedLyrics(Req(1))
  BY <1>2, AcceptedAlike DEF Req
<1>4. metas = [f \in Constrained |->
                  OrElse(IF batch.mode = "inspire" THEN <<>> ELSE r.given[f], Parsed(text, f))]
  BY DEF Filled
<1>5. "duration" \in Constrained
  BY DEF Constrained
<1>6. /\ filled["duration"] = Clamped(metas["duration"])
      /\ \A f \in Constrained : f # "duration" => filled[f] = metas[f]
  BY <1>4, <1>5
<1>7. filled["duration"] # <<>>
  BY <1>6, ClampedIsSome
<1>8. ASSUME batch.mode # "inspire", NEW f \in Constrained, r.given[f] # <<>>
      PROVE  metas[f] = r.given[f]
  BY <1>8, <1>4, OrElseKeeps
<1>9. caption # <<>>
  BY <1>3, OrElseKeeps
<1>10. ASSUME batch.mode # "inspire", ~Req(1).cot PROVE caption = r.caption
  BY <1>10, <1>3, OrElseKeeps
<1>11. ASSUME batch.mode = "generate", ~NeedLyrics(r) PROVE lyrics = r.lyrics
  <2>1. ~GenLyrics(batch)
    BY <1>11, <1>3 DEF GenLyrics, SkipCodes, Req
  <2> QED
    BY <2>1, <1>11, OrElseKeeps
<1> HIDE DEF caption, lyrics, filled, metas
<1> QED
  BY <1>1, <1>5, <1>6, <1>7, <1>8, <1>9, <1>10, <1>11 DEF Kept, Req

KeptInv == aces # <<>> => \A i \in Seqs : Kept(batch, Req(i), aces[i])

LEMMA KeptAtOnce ==
  ASSUME CallInv, NEW b, BeginWithout(b)
  PROVE  KeptInv'
<1>1. b \in LmCalls /\ Accepted(b) /\ batch' = b
  BY NextCall DEF BeginWithout, Ready
<1>2. aces' = [i \in DOMAIN b.reqs |-> Base(b.reqs[i])] /\ (b.reqs[1].codes \/ ~NeedFill(b.reqs[1]))
  BY DEF BeginWithout
<1>3. ASSUME NEW i \in 1 .. Len(b.reqs) PROVE Kept(b, b.reqs[i], aces'[i])
  BY <1>1, <1>2, <1>3, BaseKept, AcceptedAlike
<1> QED
  BY <1>1, <1>3 DEF KeptInv, Seqs, N, Req

LEMMA KeptByMerge ==
  ASSUME CallInv, Merge
  PROVE  KeptInv'
<1>1. batch \in LmCalls /\ Accepted(batch) /\ batch' = batch
  BY DEF CallInv, Phases, Merge
<1>2. aces' = [i \in Seqs |-> Merged(i)]
  BY DEF Merge
<1>3. \A i \in Seqs : Kept(batch, Req(i), aces'[i])
  BY <1>1, <1>2, MergedKept
<1> QED
  BY <1>1, <1>3 DEF KeptInv, Seqs, N, Req

LEMMA KeptStep == CallInv /\ KeptInv /\ [UnderstandNext]_vars => KeptInv'
<1> SUFFICES ASSUME CallInv, KeptInv, [UnderstandNext]_vars PROVE KeptInv'
  OBVIOUS
<1>1. CASE \E b : BeginWithout(b)
  BY <1>1, KeptAtOnce
<1>2. CASE Merge
  BY <1>2, KeptByMerge
<1>3. CASE \E b : Reject(b) \/ BeginPhase1(b) \/ RefuseUnderstand(b) \/ BeginUnderstand(b)
  <2>1. aces' = <<>>
    BY <1>3, Zenon DEF Reject, BeginPhase1, RefuseUnderstand, BeginUnderstand
  <2> QED
    BY <2>1 DEF KeptInv
<1>4. CASE batch' = batch /\ aces' = aces
  BY <1>4 DEF KeptInv, Seqs, N, Req
<1>5. CASE First1 \/ Decode1 \/ BeginPhase2 \/ First2 \/ Decode2 \/ EndPhase2 \/ Cancelled
             \/ Returned \/ UNCHANGED vars \/ AnswerToken \/ EndUnderstand \/ FailUnderstand
  <2>1. batch' = batch /\ aces' = aces
    BY <1>5, Zenon DEF First1, Decode1, BeginPhase2, First2, Decode2, Sampled2, EndPhase2,
                Cancelled, Returned, vars, AnswerToken, EndUnderstand, FailUnderstand
  <2> QED
    BY <2>1, <1>4
<1> QED
  BY <1>1, <1>2, <1>3, <1>5, Actions

\* Whatever the LM wrote and however its text is read, a request gets back what
\* it gave, in every call to a loaded LM.
THEOREM RequestsAreKept == UnderstandSpec => []RequestKept
<1>1. Init => CallInv /\ KeptInv
  BY CallsInit DEF Init, KeptInv
<1>2. CallInv /\ KeptInv /\ [UnderstandNext]_vars => (CallInv /\ KeptInv)'
  BY CallsStep, KeptStep
<1>3. KeptInv => RequestKept
  BY Zenon DEF KeptInv, RequestKept, Kept, Req
<1> QED
  BY <1>1, <1>2, <1>3, PTL DEF UnderstandSpec

-----------------------------------------------------------------------------
(* Rows.                                                                     *)

\* A sequence of whatever.
IsSeq(x) == Len(x) \in Nat /\ x = [j \in 1 .. Len(x) |-> x[j]]

LEMMA FunctionIsSeq ==
  ASSUME NEW n \in Nat, NEW x, x = [j \in 1 .. n |-> x[j]]
  PROVE  IsSeq(x) /\ Len(x) = n
<1> DEFINE S == {x[j] : j \in 1 .. n}
<1>1. x \in [1 .. n -> S]
  OBVIOUS
<1>2. x \in Seq(S)
  BY <1>1, SeqDef
<1>3. Len(x) \in Nat /\ DOMAIN x = 1 .. Len(x)
  BY <1>2, LenProperties
<1>4. 1 .. Len(x) = 1 .. n
  BY <1>3
<1>5. Len(x) = n
  <2> HIDE DEF S
  <2>1. CASE n = 0
    BY <2>1, <1>3, <1>4
  <2>2. CASE n # 0
    <3>1. n \in 1 .. Len(x)
      BY <2>2, <1>4
    <3>2. Len(x) # 0 => Len(x) \in 1 .. n
      BY <1>3, <1>4
    <3> QED
      BY <3>1, <3>2, <1>3
  <2> QED
    BY <2>1, <2>2
<1> QED
  BY <1>5 DEF IsSeq

LEMMA IsSeqInSeq ==
  ASSUME NEW x, IsSeq(x)
  PROVE  x \in Seq({x[j] : j \in 1 .. Len(x)})
<1> DEFINE S == {x[j] : j \in 1 .. Len(x)}
<1>1. Len(x) \in Nat /\ x = [j \in 1 .. Len(x) |-> x[j]]
  BY DEF IsSeq
<1>2. x \in [1 .. Len(x) -> S]
  BY <1>1
<1> HIDE DEF S
<1>3. x \in Seq(S)
  BY <1>1, <1>2, SeqDef
<1> QED
  BY <1>3 DEF S

LEMMA AppendIsSeq ==
  ASSUME NEW x, NEW e, IsSeq(x)
  PROVE  /\ IsSeq(Append(x, e)) /\ Len(Append(x, e)) = Len(x) + 1
         /\ Append(x, e) = [j \in 1 .. Len(x) + 1 |-> IF j = Len(x) + 1 THEN e ELSE x[j]]
<1> DEFINE S == {x[j] : j \in 1 .. Len(x)} \cup {e}
<1>1. x \in Seq(S)
  <2> DEFINE R == {x[j] : j \in 1 .. Len(x)}
  <2>1. x \in Seq(R) /\ R \subseteq S
    BY IsSeqInSeq
  <2> HIDE DEF R, S
  <2> QED
    BY <2>1, SeqMonotonic
<1>2. Len(x) \in Nat
  BY DEF IsSeq
<1> HIDE DEF S
<1>3. e \in S
  BY DEF S
<1>4. /\ Append(x, e) \in Seq(S) /\ Len(Append(x, e)) = Len(x) + 1
      /\ \A i \in 1 .. Len(x) : Append(x, e)[i] = x[i]
      /\ Append(x, e)[Len(x) + 1] = e
  BY <1>1, <1>3, AppendProperties
<1> DEFINE y == Append(x, e)
<1>5. y \in [1 .. Len(x) + 1 -> S]
  BY <1>4, LenProperties
<1> HIDE DEF y
<1>6. y = [j \in 1 .. Len(x) + 1 |-> y[j]]
  BY <1>5
<1>7. IsSeq(y)
  BY <1>6, <1>2, FunctionIsSeq
<1>8. y = [j \in 1 .. Len(x) + 1 |-> IF j = Len(x) + 1 THEN e ELSE x[j]]
  <2>1. \A j \in 1 .. Len(x) + 1 : y[j] = IF j = Len(x) + 1 THEN e ELSE x[j]
    BY <1>2, <1>4 DEF y
  <2> QED
    BY <1>6, <2>1
<1> QED
  BY <1>4, <1>7, <1>8 DEF y

LEMMA SingleIsSeq ==
  ASSUME NEW e
  PROVE  IsSeq(<<e>>) /\ Len(<<e>>) = 1 /\ <<e>> = [j \in 1 .. 1 |-> e] /\ <<e>>[1] = e
<1>1. <<e>> = [j \in 1 .. 1 |-> <<e>>[j]]
  OBVIOUS
<1>2. <<e>> = [j \in 1 .. 1 |-> e] /\ <<e>>[1] = e
  OBVIOUS
<1> QED
  BY <1>1, <1>2, FunctionIsSeq

LEMMA EmptyIsSeq == IsSeq(<<>>) /\ Len(<<>>) = 0
<1>1. <<>> = [j \in 1 .. 0 |-> <<>>[j]]
  OBVIOUS
<1> QED
  BY <1>1, FunctionIsSeq

\* The rows of a sequence: its prompt and its tokens but for the last.
OwnRows(prompt, g) == [j \in 1 .. Len(g) |-> IF j = 1 THEN prompt ELSE g[j - 1]]

LEMMA OwnRowsAre ==
  ASSUME NEW prompt, NEW g, IsSeq(g), Len(g) > 0
  PROVE  OwnRows(prompt, g) = <<prompt>> \o Front(g)
<1> DEFINE S == {g[j] : j \in 1 .. Len(g)} \cup {prompt}
           f == Front(g)
           n == Len(g)
<1>1. g \in Seq(S)
  <2> DEFINE R == {g[j] : j \in 1 .. Len(g)}
  <2>1. g \in Seq(R) /\ R \subseteq S
    BY IsSeqInSeq
  <2> HIDE DEF R, S
  <2> QED
    BY <2>1, SeqMonotonic
<1>2. n \in Nat /\ n > 0
  BY DEF IsSeq
<1> HIDE DEF S
<1>3. \A i \in 1 .. n : g[i] \in S
  BY <1>1, ElementOfSeq
<1>4. prompt \in S
  BY DEF S
<1>5. f \in Seq(S) /\ Len(f) = n - 1 /\ \A i \in 1 .. n - 1 : f[i] = g[i]
  <2>1. /\ SubSeq(g, 1, n - 1) \in Seq(S)
        /\ Len(SubSeq(g, 1, n - 1)) = IF 1 <= n - 1 THEN n - 1 - 1 + 1 ELSE 0
        /\ \A i \in 1 .. n - 1 - 1 + 1 : SubSeq(g, 1, n - 1)[i] = g[1 + i - 1]
    <3>1. \A i \in 1 .. n - 1 : g[i] \in S
      BY <1>2, <1>3
    <3> HIDE DEF n
    <3>2. n - 1 \in Int
      BY <1>2
    <3> QED
      BY <3>1, <3>2, SubSeqProperties
  <2>2. \A i \in 1 .. n - 1 : i \in 1 .. n - 1 - 1 + 1 /\ 1 + i - 1 = i
    BY <1>2
  <2>3. (IF 1 <= n - 1 THEN n - 1 - 1 + 1 ELSE 0) = n - 1
    BY <1>2
  <2>4. f = SubSeq(g, 1, n - 1)
    BY DEF Front
  <2> HIDE DEF f, n
  <2> QED
    BY <2>1, <2>2, <2>3, <2>4
<1> HIDE DEF f
<1>6. <<prompt>> \in Seq(S) /\ Len(<<prompt>>) = 1 /\ <<prompt>>[1] = prompt
  BY <1>4, SingleIsSeq
<1>7. /\ <<prompt>> \o f \in Seq(S)
      /\ Len(<<prompt>> \o f) = Len(<<prompt>>) + Len(f)
      /\ \A i \in 1 .. Len(<<prompt>>) + Len(f) : (<<prompt>> \o f)[i] =
             IF i <= Len(<<prompt>>) THEN <<prompt>>[i] ELSE f[i - Len(<<prompt>>)]
  BY <1>5, <1>6, ConcatProperties, Zenon
<1> DEFINE c == <<prompt>> \o f
<1>8. Len(<<prompt>>) + Len(f) = n
  BY <1>2, <1>5, <1>6
<1>9. c \in [1 .. n -> S]
  BY <1>7, <1>8, LenProperties
<1>10. \A i \in 1 .. n : c[i] = IF i <= 1 THEN <<prompt>>[i] ELSE f[i - 1]
  BY <1>6, <1>7, <1>8, Zenon
<1> HIDE DEF c
<1>11. ASSUME NEW i \in 1 .. n PROVE c[i] = IF i = 1 THEN prompt ELSE g[i - 1]
  <2>1. CASE i = 1
    BY <2>1, <1>10, <1>6
  <2>2. CASE i # 1
    <3>1. i - 1 \in 1 .. n - 1 /\ ~(i <= 1)
      BY <2>2, <1>2
    <3>2. c[i] = f[i - 1]
      BY <3>1, <1>10
    <3> QED
      BY <3>1, <3>2, <1>5, <2>2
  <2> QED
    BY <2>1, <2>2
<1>12. c = [i \in 1 .. n |-> IF i = 1 THEN prompt ELSE g[i - 1]]
  BY <1>9, <1>11
<1> QED
  BY <1>12 DEF c, f, OwnRows

-----------------------------------------------------------------------------
(* What the calls on the LM do to its sets.                                  *)

LEMMA WrittenAtFront ==
  ASSUME NEW x, IsSeq(x)
  PROVE  WrittenRows(<<>>, 1, x) = x
<1>1. Len(x) \in Nat /\ x = [j \in 1 .. Len(x) |-> x[j]] /\ Len(<<>>) = 0
  BY EmptyIsSeq DEF IsSeq
<1>2. \A n \in Nat : 1 + n - 1 = n /\ ~(0 > n)
  OBVIOUS
<1>3. \A n \in Nat : \A j \in 1 .. n : j - 1 + 1 = j
  OBVIOUS
<1>4. WrittenRows(<<>>, 1, x) =
        [j \in 1 .. Len(x) |-> IF j \in 1 .. Len(x) THEN x[j - 1 + 1]
                               ELSE IF j <= Len(<<>>) THEN <<>>[j] ELSE Junk]
  <2>1. 1 + Len(x) - 1 = Len(x) /\ ~(Len(<<>>) > Len(x))
    BY <1>1, <1>2
  <2> QED
    BY <2>1, Zenon DEF WrittenRows
<1>5. \A j \in 1 .. Len(x) : x[j - 1 + 1] = x[j]
  BY <1>1, <1>3
<1>6. WrittenRows(<<>>, 1, x) = [j \in 1 .. Len(x) |-> x[j]]
  BY <1>4, <1>5
<1> QED
  BY <1>1, <1>6

LEMMA WrittenBehind ==
  ASSUME NEW set, NEW t, IsSeq(set)
  PROVE  WrittenRows(set, Len(set) + 1, <<t>>) = Append(set, t)
<1> DEFINE n == Len(set)
<1>1. n \in Nat /\ Len(<<t>>) = 1 /\ <<t>>[1] = t
  BY SingleIsSeq DEF IsSeq
<1>2. n + 1 + Len(<<t>>) - 1 = n + 1 /\ ~(n > n + 1)
  BY <1>1
<1>3. WrittenRows(set, n + 1, <<t>>) =
        [j \in 1 .. n + 1 |-> IF j \in n + 1 .. n + 1 THEN <<t>>[j - (n + 1) + 1]
                              ELSE IF j <= n THEN set[j] ELSE Junk]
  BY <1>2, Zenon DEF WrittenRows
<1>4. ASSUME NEW j \in 1 .. n + 1
      PROVE  (IF j \in n + 1 .. n + 1 THEN <<t>>[j - (n + 1) + 1]
              ELSE IF j <= n THEN set[j] ELSE Junk)
             = IF j = n + 1 THEN t ELSE set[j]
  <2> HIDE DEF n
  <2>1. CASE j = n + 1
    <3>1. j - (n + 1) + 1 = 1 /\ j \in n + 1 .. n + 1
      BY <1>1, <2>1
    <3> QED
      BY <3>1, <2>1, <1>1
  <2>2. CASE j # n + 1
    <3>1. j <= n /\ j \notin n + 1 .. n + 1
      BY <1>1, <2>2
    <3> QED
      BY <3>1, <2>2
  <2> QED
    BY <2>1, <2>2
<1>5. Append(set, t) = [j \in 1 .. n + 1 |-> IF j = n + 1 THEN t ELSE set[j]]
  BY AppendIsSeq
<1> HIDE DEF n
<1>6. WrittenRows(set, n + 1, <<t>>) = Append(set, t)
  BY <1>3, <1>4, <1>5
<1> QED
  BY <1>6 DEF n

\* A set that is full to its position and no further is read as it is.
LEMMA RowsAreAll ==
  ASSUME NEW m, NEW s, IsSeq(m.kv[s]), Len(m.kv[s]) = m.pos[s]
  PROVE  RowsOf(m, s) = m.kv[s]
<1> DEFINE x == m.kv[s]
           n == Len(x)
           w == WrittenRows(x, n + 1, <<>>)
<1>1. n \in Nat /\ Len(<<>>) = 0 /\ x = [j \in 1 .. n |-> x[j]]
  BY EmptyIsSeq DEF IsSeq
<1> HIDE DEF x
<1>2. w = [j \in 1 .. n |-> x[j]]
  <2>1. n + 1 + Len(<<>>) - 1 = n /\ ~(n > n)
    BY <1>1
  <2>2. w = [j \in 1 .. n |-> IF j \in n + 1 .. n THEN <<>>[j - (n + 1) + 1]
                              ELSE IF j <= n THEN x[j] ELSE Junk]
    BY <2>1, Zenon DEF WrittenRows
  <2>3. \A j \in 1 .. n : j \notin n + 1 .. n /\ j <= n
    BY <1>1
  <2> HIDE DEF n, w
  <2> QED
    BY <2>2, <2>3
<1>3. w = x
  BY <1>1, <1>2
<1>4. SubSeq(x, 1, n) = x
  <2>1. x \in Seq({x[j] : j \in 1 .. Len(x)})
    BY IsSeqInSeq DEF x
  <2> QED
    BY <2>1, SubSeqFull
<1>5. RowsOf(m, s) = SubSeq(w, 1, n)
  BY Zenon DEF RowsOf, x
<1> QED
  BY <1>3, <1>4, <1>5 DEF x

Parts == {"kv", "pos", "graph", "sched", "ran", "exited"}

\* A loaded LM whose kept graph, if the scheduler's memory holds it, is still
\* there, and that has computed each batch in the graph and memory of its own.
LmOK(m) ==
    /\ DOMAIN m = Parts
    /\ DOMAIN m.kv = 1 .. KvSets
    /\ m.pos \in [1 .. KvSets -> Nat]
    /\ m.graph.built => m.graph.direct \/ m.sched = "batch"
    /\ m.ran.key = m.ran.shape /\ m.ran.own
    /\ ~m.exited

LEMMA LoadedOK == LmOK(LoadedLm)
BY DEF LmOK, Parts, LoadedLm, NoGraph, NoRun

LEMMA ResetsSets ==
  ASSUME NEW m, LmOK(m), NEW n \in Nat
  PROVE  /\ LmOK(ResetSets(m, n))
         /\ \A s \in 1 .. KvSets : s <= n =>
                ResetSets(m, n).pos[s] = 0 /\ ResetSets(m, n).kv[s] = <<>>
<1> DEFINE kv == [s \in 1 .. KvSets |-> IF s <= n THEN <<>> ELSE m.kv[s]]
           pos == [s \in 1 .. KvSets |-> IF s <= n THEN 0 ELSE m.pos[s]]
           f == ResetSets(m, n)
<1>1. /\ DOMAIN f = Parts /\ f.kv = kv /\ f.pos = pos
      /\ f.graph = m.graph /\ f.sched = m.sched /\ f.ran = m.ran /\ f.exited = m.exited
  <2>1. DOMAIN m = Parts /\ DOMAIN m.kv = 1 .. KvSets /\ DOMAIN m.pos = 1 .. KvSets
    BY DEF LmOK
  <2>2. f = [m EXCEPT !.pos = pos, !.kv = kv]
    BY <2>1 DEF ResetSets
  <2> HIDE DEF kv, pos, f
  <2> QED
    BY <2>1, <2>2 DEF Parts
<1>2. pos \in [1 .. KvSets -> Nat]
  BY DEF LmOK
<1>3. \A s \in 1 .. KvSets : s <= n => pos[s] = 0 /\ kv[s] = <<>>
  OBVIOUS
<1>4. DOMAIN kv = 1 .. KvSets
  OBVIOUS
<1> HIDE DEF kv, pos, f
<1>5. LmOK(f)
  BY <1>1, <1>2, <1>4 DEF LmOK
<1> QED
  BY <1>1, <1>3, <1>5 DEF f

\* One set that is reset: it is all the understand pass resets.
LEMMA ResetsOne ==
  ASSUME NEW m, LmOK(m), NEW n \in 1 .. KvSets
  PROVE  /\ LmOK(ResetKv(m, n))
         /\ ResetKv(m, n).pos[n] = 0 /\ ResetKv(m, n).kv[n] = <<>>
<1> DEFINE f == ResetKv(m, n)
<1>1. /\ DOMAIN f = Parts /\ f.kv = [m.kv EXCEPT ![n] = <<>>] /\ f.pos = [m.pos EXCEPT ![n] = 0]
      /\ f.graph = m.graph /\ f.sched = m.sched /\ f.ran = m.ran /\ f.exited = m.exited
  <2>1. DOMAIN m = Parts
    BY DEF LmOK
  <2>2. f = [m EXCEPT !.pos[n] = 0, !.kv[n] = <<>>]
    BY Zenon DEF ResetKv
  <2> HIDE DEF f
  <2> QED
    BY <2>1, <2>2 DEF Parts
<1> HIDE DEF f
<1>2. m.pos \in [1 .. KvSets -> Nat] /\ DOMAIN m.kv = 1 .. KvSets
  BY DEF LmOK
<1>3. f.pos \in [1 .. KvSets -> Nat] /\ f.pos[n] = 0
  <2>1. f.pos = [m.pos EXCEPT ![n] = 0]
    BY <1>1
  <2>2. \A p \in [1 .. KvSets -> Nat] : [p EXCEPT ![n] = 0] \in [1 .. KvSets -> Nat]
    OBVIOUS
  <2>3. \A p \in [1 .. KvSets -> Nat] : [p EXCEPT ![n] = 0][n] = 0
    OBVIOUS
  <2> QED
    BY <2>1, <2>2, <2>3, <1>2, Zenon
<1>4. DOMAIN f.kv = 1 .. KvSets /\ f.kv[n] = <<>>
  BY <1>1, <1>2
<1>5. LmOK(f)
  BY <1>1, <1>3, <1>4 DEF LmOK
<1> QED
  BY <1>3, <1>4, <1>5 DEF f

\* What a prefill leaves of the kept graph.
LEMMA ReleasesGraph ==
  ASSUME NEW m, LmOK(m)
  PROVE  /\ LmOK(Released(m))
         /\ Released(m).kv = m.kv /\ Released(m).pos = m.pos
         /\ Released(m).graph.built => Released(m).graph.direct
<1> DEFINE f == Released(m)
<1>1. CASE m.graph.built /\ ~m.graph.direct
  <2>1. /\ DOMAIN f = Parts /\ f.kv = m.kv /\ f.pos = m.pos
        /\ f.graph = NoGraph /\ f.ran = m.ran /\ f.exited = m.exited
    BY <1>1 DEF Released, LmOK, Parts
  <2>2. ~NoGraph.built
    BY DEF NoGraph
  <2> HIDE DEF f
  <2>3. LmOK(f) /\ ~f.graph.built
    BY <2>1, <2>2 DEF LmOK
  <2> QED
    BY <2>1, <2>3 DEF f
<1>2. CASE ~(m.graph.built /\ ~m.graph.direct)
  <2>1. f = m
    BY <1>2 DEF Released
  <2> QED
    BY <1>2, <2>1
<1> QED
  BY <1>1, <1>2

\* g is f with these rows, n of them, in set t.
Put(g, f, t, rows, n) ==
    /\ LmOK(g)
    /\ \A x \in 1 .. KvSets :
        g.kv[x] = (IF x = t THEN rows ELSE f.kv[x]) /\ g.pos[x] = (IF x = t THEN n ELSE f.pos[x])

\* A prompt into a set that was reset.
LEMMA Prefills ==
  ASSUME NEW m, LmOK(m), NEW s \in 1 .. KvSets, NEW rows, IsSeq(rows),
         m.pos[s] = 0, m.kv[s] = <<>>, Len(rows) <= MaxSeq
  PROVE  Put(Forward(m, s, rows), m, s, rows, Len(rows))
<1> DEFINE r == Released(m)
           f == Forward(m, s, rows)
<1>1. /\ LmOK(r) /\ r.kv = m.kv /\ r.pos = m.pos /\ (r.graph.built => r.graph.direct)
      /\ DOMAIN r = Parts
  BY ReleasesGraph DEF LmOK
<1>2. Len(rows) \in Nat /\ MaxSeq \in Nat /\ ~(0 + Len(rows) > MaxSeq) /\ 0 + 1 = 1
  BY LmAssumption DEF IsSeq
<1>3. f = [r EXCEPT !.kv[s] = WrittenRows(@, 0 + 1, rows),
                    !.pos[s] = @ + Len(rows), !.sched = "prefill"]
  BY <1>2, Zenon DEF Forward
<1> HIDE DEF r, f
<1>4. /\ DOMAIN f = Parts /\ f.kv = [r.kv EXCEPT ![s] = WrittenRows(r.kv[s], 0 + 1, rows)]
      /\ f.pos = [r.pos EXCEPT ![s] = r.pos[s] + Len(rows)]
      /\ f.graph = r.graph /\ f.ran = r.ran /\ f.exited = r.exited
  BY <1>1, <1>3 DEF Parts
<1>5. r.pos[s] + Len(rows) = Len(rows)
  BY <1>1, <1>2
<1>6. WrittenRows(r.kv[s], 0 + 1, rows) = rows
  BY <1>1, <1>2, WrittenAtFront
<1>7. f.kv = [m.kv EXCEPT ![s] = rows] /\ f.pos = [m.pos EXCEPT ![s] = Len(rows)]
  BY <1>1, <1>4, <1>5, <1>6
<1>8. LmOK(f)
  BY <1>1, <1>2, <1>4, <1>7 DEF LmOK
<1>9. DOMAIN m.kv = 1 .. KvSets /\ DOMAIN m.pos = 1 .. KvSets
  BY DEF LmOK
<1>10. Put(f, m, s, rows, Len(rows))
  BY <1>7, <1>8, <1>9 DEF Put
<1> QED
  BY <1>10 DEF f

LEMMA Copies ==
  ASSUME NEW m, LmOK(m), NEW from \in 1 .. KvSets, NEW to \in 1 .. KvSets
  PROVE  Put(CopyKv(m, from, to), m, to, m.kv[from], m.pos[from])
<1> DEFINE f == CopyKv(m, from, to)
<1>1. /\ DOMAIN f = Parts /\ f.kv = [m.kv EXCEPT ![to] = m.kv[from]]
      /\ f.pos = [m.pos EXCEPT ![to] = m.pos[from]]
      /\ f.graph = m.graph /\ f.sched = m.sched /\ f.ran = m.ran /\ f.exited = m.exited
  BY DEF CopyKv, LmOK, Parts
<1> HIDE DEF f
<1>2. LmOK(f)
  BY <1>1 DEF LmOK
<1>3. DOMAIN m.kv = 1 .. KvSets /\ DOMAIN m.pos = 1 .. KvSets
  BY DEF LmOK
<1>4. Put(f, m, to, m.kv[from], m.pos[from])
  BY <1>1, <1>2, <1>3 DEF Put
<1> QED
  BY <1>4 DEF f

-----------------------------------------------------------------------------
(* Recursion.                                                                *)

LEMMA SmallestOf ==
  ASSUME NEW T \in SUBSET Nat, T # {}
  PROVE  \E x \in T : \A y \in T : x <= y
<1>1. \E x \in T : \A y \in T : ~(<<y, x>> \in OpToRel(<, Nat))
  BY WFMin, NatLessThanWellFounded
<1>2. \A x, y \in Nat : <<y, x>> \in OpToRel(<, Nat) <=> y < x
  BY SMT DEF OpToRel
<1>3. ASSUME NEW x \in T, NEW y \in T, ~(<<y, x>> \in OpToRel(<, Nat)) PROVE ~(y < x)
  BY <1>2, <1>3
<1>4. \A x, y \in T : ~(y < x) => x <= y
  OBVIOUS
<1> QED
  BY <1>1, <1>3, <1>4

\* What holds of 0, and of k when it holds of k - 1, holds up to n.
LEMMA Induction ==
  ASSUME NEW n \in Nat, NEW T \in SUBSET (0 .. n), 0 \in T,
         \A k \in 1 .. n : k - 1 \in T => k \in T
  PROVE  T = 0 .. n
<1> DEFINE Rest == (0 .. n) \ T
<1>1. ASSUME Rest # {} PROVE FALSE
  <2>1. Rest \in SUBSET Nat
    OBVIOUS
  <2>2. PICK m \in Rest : \A y \in Rest : m <= y
    <3> HIDE DEF Rest
    <3> QED
      BY <1>1, <2>1, SmallestOf
  <2>3. m \in 1 .. n /\ m - 1 \in 0 .. n /\ ~(m <= m - 1)
    OBVIOUS
  <2>4. m - 1 \in T
    BY <2>2, <2>3
  <2> QED
    BY <2>3, <2>4
<1> QED
  BY <1>1

-----------------------------------------------------------------------------
(* The prefill of a batch.                                                   *)

\* The sets base + 1 .. base + k hold their prompts, and the others what they
\* held in m.
FilledTo(f, m, base, prompts, k) ==
    /\ LmOK(f)
    /\ \A s \in 1 .. KvSets :
        IF s \in base + 1 .. base + k
        THEN f.pos[s] = 1 /\ f.kv[s] = <<prompts[s - base]>>
        ELSE f.pos[s] = m.pos[s] /\ f.kv[s] = m.kv[s]

FillStep(f, base, prompts, shared, i) ==
    IF shared /\ i > 1 THEN CopyKv(f, base + 1, base + i)
    ELSE Forward(f, base + i, <<prompts[i]>>)

LEMMA FillStepWrites ==
  ASSUME NEW f, LmOK(f), NEW base, NEW prompts, NEW shared, NEW k,
         NEW u \in 1 .. KvSets, NEW t \in 1 .. KvSets, u = base + 1, t = base + k,
         shared /\ k > 1 => f.pos[u] = 1 /\ f.kv[u] = <<prompts[k]>>,
         f.pos[t] = 0 /\ f.kv[t] = <<>>
  PROVE  Put(FillStep(f, base, prompts, shared, k), f, t, <<prompts[k]>>, 1)
<1>1. CASE shared /\ k > 1
  <2>1. FillStep(f, base, prompts, shared, k) = CopyKv(f, u, t)
    BY <1>1 DEF FillStep
  <2>2. Put(CopyKv(f, u, t), f, t, f.kv[u], f.pos[u])
    BY Copies
  <2> QED
    BY <1>1, <2>1, <2>2
<1>2. CASE ~(shared /\ k > 1)
  <2> DEFINE p == <<prompts[k]>>
  <2>1. FillStep(f, base, prompts, shared, k) = Forward(f, t, p)
    BY <1>2 DEF FillStep
  <2>2. IsSeq(p) /\ Len(p) = 1 /\ 1 <= MaxSeq
    BY SingleIsSeq, LmAssumption
  <2> HIDE DEF p
  <2>3. Put(Forward(f, t, p), f, t, p, Len(p))
    <3>1. Len(p) <= MaxSeq
      BY <2>2
    <3> QED
      BY <2>2, <3>1, Prefills, Zenon
  <2> QED
    BY <2>1, <2>2, <2>3 DEF p
<1> QED
  BY <1>1, <1>2

LEMMA FillsOne ==
  ASSUME NEW m, NEW f, NEW base \in Nat, NEW prompts, NEW shared, NEW n \in Nat,
         base + n <= KvSets, NEW k \in 1 .. n,
         \A s \in base + 1 .. base + n : m.pos[s] = 0 /\ m.kv[s] = <<>>,
         shared => \A i \in 1 .. n : prompts[i] = prompts[1],
         FilledTo(f, m, base, prompts, k - 1)
  PROVE  FilledTo(FillStep(f, base, prompts, shared, k), m, base, prompts, k)
<1> DEFINE t == base + k
           p == <<prompts[k]>>
           g == FillStep(f, base, prompts, shared, k)
<1>1. /\ KvSets \in Nat /\ t \in 1 .. KvSets /\ t - base = k /\ k \in Nat /\ k >= 1
      /\ t \in base + 1 .. base + n /\ t \notin base + 1 .. base + (k - 1)
      /\ t \in base + 1 .. base + k
  BY LmAssumption
<1>2. LmOK(f)
  BY DEF FilledTo
<1>3. f.pos[t] = 0 /\ f.kv[t] = <<>>
  BY <1>1 DEF FilledTo
<1>4. Put(g, f, t, p, 1)
  <2> DEFINE u == base + 1
  <2>1. u \in 1 .. KvSets
    BY <1>1
  <2>2. ASSUME shared /\ k > 1 PROVE f.pos[u] = 1 /\ f.kv[u] = <<prompts[k]>>
    <3>1. u \in base + 1 .. base + (k - 1) /\ u - base = 1 /\ prompts[k] = prompts[1]
      BY <2>2, <1>1
    <3> QED
      BY <2>1, <3>1 DEF FilledTo
  <2>3. u = base + 1 /\ t = base + k /\ t \in 1 .. KvSets
    BY <1>1
  <2> HIDE DEF t, u
  <2> QED
    BY <1>2, <1>3, <2>1, <2>2, <2>3, FillStepWrites
<1> HIDE DEF g, p
<1>5. LmOK(g)
  BY <1>4 DEF Put
<1>6. ASSUME NEW s \in 1 .. KvSets
      PROVE  IF s \in base + 1 .. base + k
             THEN g.pos[s] = 1 /\ g.kv[s] = <<prompts[s - base]>>
             ELSE g.pos[s] = m.pos[s] /\ g.kv[s] = m.kv[s]
  <2>1. CASE s = t
    BY <2>1, <1>1, <1>4 DEF Put, p
  <2>2. CASE s # t
    <3>1. s \in base + 1 .. base + k <=> s \in base + 1 .. base + (k - 1)
      BY <2>2, <1>1
    <3>2. g.pos[s] = f.pos[s] /\ g.kv[s] = f.kv[s]
      BY <2>2, <1>4 DEF Put
    <3>3. IF s \in base + 1 .. base + (k - 1)
          THEN f.pos[s] = 1 /\ f.kv[s] = <<prompts[s - base]>>
          ELSE f.pos[s] = m.pos[s] /\ f.kv[s] = m.kv[s]
      BY Zenon DEF FilledTo
    <3> QED
      BY <3>1, <3>2, <3>3, Zenon
  <2> QED
    BY <2>1, <2>2
<1>7. FilledTo(g, m, base, prompts, k)
  BY <1>5, <1>6, Zenon DEF FilledTo
<1> QED
  BY <1>7 DEF g

\* The recursion of Filling has a solution.
IsFilling(f, m, base, prompts, shared, n) ==
    f = [i \in 0 .. n |-> IF i = 0 THEN m ELSE FillStep(f[i - 1], base, prompts, shared, i)]

LEMMA FillingUnwinds ==
  ASSUME NEW m, NEW base, NEW prompts, NEW shared, NEW n \in Nat
  PROVE  \E f : IsFilling(f, m, base, prompts, shared, n)
<1> DEFINE next(x, i) == FillStep(x, base, prompts, shared, i)
           Good(k) == \E f : f = [i \in 0 .. k |-> IF i = 0 THEN m ELSE next(f[i - 1], i)]
           T == {k \in 0 .. n : Good(k)}
<1> HIDE DEF next
<1>1. Good(0)
  <2> DEFINE f == [i \in 0 .. 0 |-> m]
  <2>1. f = [i \in 0 .. 0 |-> IF i = 0 THEN m ELSE next(f[i - 1], i)]
    OBVIOUS
  <2> QED
    BY <2>1
<1>2. ASSUME NEW k \in 1 .. n, Good(k - 1) PROVE Good(k)
  <2>1. PICK g : g = [i \in 0 .. k - 1 |-> IF i = 0 THEN m ELSE next(g[i - 1], i)]
    BY <1>2
  <2> DEFINE e == next(g[k - 1], k)
             f == [i \in 0 .. k |-> IF i = k THEN e ELSE g[i]]
  <2>2. k \in Nat /\ k >= 1
    OBVIOUS
  <2>3. \A i \in 0 .. k - 1 : g[i] = IF i = 0 THEN m ELSE next(g[i - 1], i)
    <3> DEFINE body(i) == IF i = 0 THEN m ELSE next(g[i - 1], i)
               h == [i \in 0 .. k - 1 |-> body(i)]
    <3>1. g = h
      BY <2>1
    <3>2. \A i \in 0 .. k - 1 : h[i] = body(i)
      OBVIOUS
    <3> HIDE DEF body, h
    <3>3. \A i \in 0 .. k - 1 : g[i] = body(i)
      BY <3>1, <3>2
    <3> QED
      BY <3>3 DEF body
  <2> HIDE DEF e
  <2>4. f[k] = e /\ \A i \in 0 .. k - 1 : f[i] = g[i]
    BY <2>2
  <2>5. ASSUME NEW i \in 0 .. k PROVE f[i] = IF i = 0 THEN m ELSE next(f[i - 1], i)
    <3> HIDE DEF f
    <3>1. CASE i = k
      <4>1. f[i - 1] = g[k - 1] /\ i # 0
        BY <3>1, <2>2, <2>4
      <4> QED
        BY <3>1, <4>1, <2>4 DEF e
    <3>2. CASE i # k
      <4>1. i \in 0 .. k - 1
        BY <3>2, <2>2
      <4>2. i # 0 => i - 1 \in 0 .. k - 1
        BY <4>1, <2>2
      <4>3. f[i] = g[i] /\ (i # 0 => f[i - 1] = g[i - 1])
        BY <4>1, <4>2, <2>4
      <4>4. g[i] = IF i = 0 THEN m ELSE next(g[i - 1], i)
        BY <4>1, <2>3
      <4> QED
        BY <4>3, <4>4, Zenon
    <3> QED
      BY <3>1, <3>2
  <2>6. f = [i \in 0 .. k |-> f[i]]
    OBVIOUS
  <2> HIDE DEF f
  <2>7. f = [i \in 0 .. k |-> IF i = 0 THEN m ELSE next(f[i - 1], i)]
    <3> DEFINE body(i) == IF i = 0 THEN m ELSE next(f[i - 1], i)
    <3>1. \A i \in 0 .. k : f[i] = body(i)
      BY <2>5
    <3> HIDE DEF body
    <3>2. f = [i \in 0 .. k |-> body(i)]
      BY <3>1, <2>6
    <3> QED
      BY <3>2 DEF body
  <2> QED
    BY <2>7
<1> HIDE DEF Good
<1>3. T \in SUBSET (0 .. n) /\ 0 \in T /\ \A k \in 1 .. n : k - 1 \in T => k \in T
  BY <1>1, <1>2
<1>4. T = 0 .. n
  <2> HIDE DEF T
  <2> QED
    BY <1>3, Induction
<1>5. Good(n)
  BY <1>4
<1> QED
  BY <1>5, Zenon DEF Good, next, IsFilling

FillingOf(m, base, prompts, shared) ==
    CHOOSE f : f = [i \in 0 .. Len(prompts) |->
        IF i = 0 THEN m
        ELSE IF shared /\ i > 1 THEN CopyKv(f[i - 1], base + 1, base + i)
        ELSE Forward(f[i - 1], base + i, <<prompts[i]>>)]

LEMMA Fills ==
  ASSUME NEW m, LmOK(m), NEW base \in Nat, NEW prompts, NEW shared, Len(prompts) \in Nat,
         base + Len(prompts) <= KvSets,
         \A s \in base + 1 .. base + Len(prompts) : m.pos[s] = 0 /\ m.kv[s] = <<>>,
         shared => \A i \in 1 .. Len(prompts) : prompts[i] = prompts[1]
  PROVE  FilledTo(Filling(m, base, prompts, shared), m, base, prompts, Len(prompts))
<1> DEFINE n == Len(prompts)
           body(f, i) == IF i = 0 THEN m ELSE FillStep(f[i - 1], base, prompts, shared, i)
           filled == FillingOf(m, base, prompts, shared)
           T == {k \in 0 .. n : FilledTo(filled[k], m, base, prompts, k)}
<1>1. Filling(m, base, prompts, shared) = filled[n]
  BY Zenon DEF Filling, FillingOf
<1>2. \E f : f = [i \in 0 .. n |-> body(f, i)]
  <2>1. \E f : IsFilling(f, m, base, prompts, shared, n)
    BY FillingUnwinds
  <2> QED
    BY <2>1, Zenon DEF IsFilling
<1>3. filled = [i \in 0 .. n |-> body(filled, i)]
  <2>1. filled = CHOOSE f : f = [i \in 0 .. n |-> body(f, i)]
    BY Zenon DEF FillingOf, FillStep
  <2> HIDE DEF n, body, filled
  <2> QED
    BY <1>2, <2>1, Zenon
<1>4. \A i \in 0 .. n : filled[i] = body(filled, i)
  <2> HIDE DEF filled, body, n
  <2> DEFINE h == [i \in 0 .. n |-> body(filled, i)]
  <2>1. filled = h
    BY <1>3
  <2>2. \A i \in 0 .. n : h[i] = body(filled, i)
    OBVIOUS
  <2> HIDE DEF h
  <2> QED
    BY <2>1, <2>2
<1> HIDE DEF filled
<1>5. FilledTo(filled[0], m, base, prompts, 0)
  <2>1. filled[0] = m
    BY <1>4
  <2>2. \A s : s \notin base + 1 .. base + 0
    OBVIOUS
  <2> QED
    BY <2>1, <2>2, Zenon DEF FilledTo
<1>6. ASSUME NEW k \in 1 .. n, FilledTo(filled[k - 1], m, base, prompts, k - 1)
      PROVE  FilledTo(filled[k], m, base, prompts, k)
  <2>1. k \in 0 .. n /\ k # 0
    OBVIOUS
  <2>2. filled[k] = FillStep(filled[k - 1], base, prompts, shared, k)
    BY <2>1, <1>4
  <2> DEFINE f == filled[k - 1]
  <2> HIDE DEF n, f
  <2>3. n \in Nat /\ base + n <= KvSets
        /\ (\A s \in base + 1 .. base + n : m.pos[s] = 0 /\ m.kv[s] = <<>>)
        /\ (shared => \A i \in 1 .. n : prompts[i] = prompts[1])
    BY DEF n
  <2>4. FilledTo(f, m, base, prompts, k - 1)
    BY <1>6 DEF f
  <2>5. FilledTo(FillStep(f, base, prompts, shared, k), m, base, prompts, k)
    BY <2>3, <2>4, FillsOne
  <2> QED
    BY <2>2, <2>5 DEF f
<1>7. T \in SUBSET (0 .. n) /\ 0 \in T /\ \A k \in 1 .. n : k - 1 \in T => k \in T
  BY <1>5, <1>6
<1>8. T = 0 .. n
  <2> HIDE DEF T, n
  <2>1. n \in Nat
    BY DEF n
  <2> QED
    BY <1>7, <2>1, Induction
<1>9. FilledTo(filled[n], m, base, prompts, n)
  BY <1>8
<1> QED
  BY <1>1, <1>9

\* The sets base + 1 .. base + n hold their prompts alone.
Prompted(g, base, prompts, n) ==
    \A i \in 1 .. n : g.pos[base + i] = 1 /\ g.kv[base + i] = <<prompts[i]>>

FilledBoth(g, cond, uncond) ==
    /\ LmOK(g)
    /\ Prompted(g, 0, cond, Len(cond))
    /\ Prompted(g, Len(cond), uncond, Len(uncond))

LEMMA PrefillsAll ==
  ASSUME LmOK(lm), NEW cond, NEW sharedCond, NEW uncond, NEW sharedUncond,
         Len(cond) \in Nat, Len(uncond) \in Nat, Len(cond) + Len(uncond) <= KvSets,
         sharedCond => \A i \in 1 .. Len(cond) : cond[i] = cond[1],
         sharedUncond => \A i \in 1 .. Len(uncond) : uncond[i] = uncond[1]
  PROVE  FilledBoth(Prefilled(cond, sharedCond, uncond, sharedUncond), cond, uncond)
<1> DEFINE n == Len(cond)
           k == Len(uncond)
           r == ResetSets(lm, n + k)
           f == Filling(r, 0, cond, sharedCond)
           g == Filling(f, n, uncond, sharedUncond)
<1>1. n \in Nat /\ k \in Nat /\ n + k \in Nat /\ n + k <= KvSets /\ KvSets \in Nat /\ 0 \in Nat
  BY LmAssumption
<1>2. LmOK(r) /\ \A s \in 1 .. KvSets : s <= n + k => r.pos[s] = 0 /\ r.kv[s] = <<>>
  BY <1>1, ResetsSets
<1>3. Prefilled(cond, sharedCond, uncond, sharedUncond) = g
  BY Zenon DEF Prefilled
<1>4. FilledTo(f, r, 0, cond, n)
  <2>1. \A s \in 0 + 1 .. 0 + n : r.pos[s] = 0 /\ r.kv[s] = <<>>
    BY <1>1, <1>2
  <2>2. 0 + n <= KvSets
    BY <1>1
  <2> HIDE DEF r
  <2> QED
    BY <1>1, <1>2, <2>1, <2>2, Fills
<1> HIDE DEF r, f
<1>5. LmOK(f) /\ \A s \in n + 1 .. n + k : f.pos[s] = 0 /\ f.kv[s] = <<>>
  <2>1. LmOK(f)
    BY <1>4 DEF FilledTo
  <2>2. ASSUME NEW s \in n + 1 .. n + k PROVE f.pos[s] = 0 /\ f.kv[s] = <<>>
    <3>1. s \in 1 .. KvSets /\ s \notin 0 + 1 .. 0 + n /\ s <= n + k
      BY <1>1
    <3>2. f.pos[s] = r.pos[s] /\ f.kv[s] = r.kv[s]
      BY <3>1, <1>4 DEF FilledTo
    <3> QED
      BY <3>1, <3>2, <1>2
  <2> QED
    BY <2>1, <2>2
<1>6. FilledTo(g, f, n, uncond, k)
  BY <1>1, <1>5, Fills
<1> HIDE DEF g
<1>7. LmOK(g)
  BY <1>6 DEF FilledTo
<1>8. Prompted(g, 0, cond, n)
  <2>1. ASSUME NEW i \in 1 .. n PROVE g.pos[0 + i] = 1 /\ g.kv[0 + i] = <<cond[i]>>
    <3>1. /\ i \in 1 .. KvSets /\ i \in 0 + 1 .. 0 + n /\ i \notin n + 1 .. n + k
          /\ 0 + i = i /\ i - 0 = i
      BY <1>1
    <3>2. f.pos[i] = 1 /\ f.kv[i] = <<cond[i - 0]>>
      BY <3>1, <1>4 DEF FilledTo
    <3>3. g.pos[i] = f.pos[i] /\ g.kv[i] = f.kv[i]
      BY <3>1, <1>6 DEF FilledTo
    <3> QED
      BY <3>1, <3>2, <3>3
  <2> QED
    BY <2>1 DEF Prompted
<1>9. Prompted(g, n, uncond, k)
  <2>1. ASSUME NEW i \in 1 .. k PROVE g.pos[n + i] = 1 /\ g.kv[n + i] = <<uncond[i]>>
    <3> DEFINE s == n + i
    <3>1. s \in 1 .. KvSets /\ s \in n + 1 .. n + k /\ s - n = i
      BY <1>1
    <3> HIDE DEF s
    <3>2. g.pos[s] = 1 /\ g.kv[s] = <<uncond[s - n]>>
      BY <3>1, <1>6 DEF FilledTo
    <3> QED
      BY <3>1, <3>2 DEF s
  <2> QED
    BY <2>1 DEF Prompted
<1>10. FilledBoth(g, cond, uncond)
  BY <1>7, <1>8, <1>9 DEF FilledBoth
<1> QED
  BY <1>3, <1>10

-----------------------------------------------------------------------------
(* A batched forward of sets that have all got equally far.                  *)

BatchOf(g, m, sets, toks, n, p) ==
    /\ LmOK(g)
    /\ \A s \in 1 .. KvSets :
        /\ g.pos[s] = IF \E i \in 1 .. n : sets[i] = s THEN m.pos[s] + 1 ELSE m.pos[s]
        /\ g.kv[s] = IF s \in sets[1] .. sets[1] + n - 1
                     THEN WrittenRows(m.kv[s], p + 1, <<toks[s - sets[1] + 1]>>) ELSE m.kv[s]

LEMMA Batches ==
  ASSUME NEW m, LmOK(m), NEW p \in Nat, p < MaxSeq,
         NEW sets, Len(sets) \in Nat \ {0}, DOMAIN sets = 1 .. Len(sets),
         \A i \in 1 .. Len(sets) : sets[i] \in 1 .. KvSets /\ m.pos[sets[i]] = p,
         NEW toks, NEW head, NEW direct \in BOOLEAN
  PROVE  BatchOf(ForwardBatch(m, sets, toks, head, direct), m, sets, toks, Len(sets), p)
<1> DEFINE n == Len(sets)
           g == ForwardBatch(m, sets, toks, head, direct)
           rows == [i \in 1 .. n |-> m.pos[sets[i]] + 1]
           at == CHOOSE i \in 1 .. n : \A j \in 1 .. n : rows[j] <= rows[i]
           longest == rows[at]
           shape == <<Padded(longest), n, sets[1], head>>
           key == Key(shape[1], shape[2], shape[3], shape[4])
           builds == ~m.graph.built \/ m.graph.key # key
           graph == IF builds THEN [built |-> TRUE, key |-> key, direct |-> direct] ELSE m.graph
           sched == IF ~builds THEN m.sched
                    ELSE IF direct THEN Released(m).sched ELSE "batch"
           target(s) == s - sets[1] + 1
           feed(s) == s \in sets[1] .. sets[1] + n - 1
           kv == [s \in DOMAIN m.kv |->
                     IF feed(s) THEN WrittenRows(m.kv[s], rows[target(s)], <<toks[target(s)]>>)
                     ELSE m.kv[s]]
           pos == [s \in DOMAIN m.pos |-> m.pos[s] + IF s \in ToSet(sets) THEN 1 ELSE 0]
           ran == [shape |-> shape, key |-> graph.key, own |-> graph.direct \/ sched = "batch"]
<1>1. MaxSeq \in Nat /\ KvSets \in Nat
  BY LmAssumption
<1>2. /\ DOMAIN m = Parts /\ DOMAIN m.kv = 1 .. KvSets /\ DOMAIN m.pos = 1 .. KvSets
      /\ m.pos \in [1 .. KvSets -> Nat] /\ ~m.exited
      /\ m.graph.built => m.graph.direct \/ m.sched = "batch"
  BY DEF LmOK
<1>3. g = IF longest > MaxSeq THEN [m EXCEPT !.exited = TRUE]
          ELSE [m EXCEPT !.kv = kv, !.pos = pos, !.graph = graph, !.sched = sched, !.ran = ran]
  BY Zenon DEF ForwardBatch
<1>4. \A i \in 1 .. n : rows[i] = p + 1
  OBVIOUS
<1>5. longest = p + 1 /\ ~(longest > MaxSeq)
  <2>1. \E i \in 1 .. n : \A j \in 1 .. n : rows[j] <= rows[i]
    <3>1. 1 \in 1 .. n /\ p + 1 <= p + 1
      OBVIOUS
    <3> HIDE DEF rows
    <3> QED
      BY <3>1, <1>4
  <2> HIDE DEF rows
  <2>2. at \in 1 .. n
    BY <2>1, Zenon
  <2> HIDE DEF at
  <2> QED
    BY <2>2, <1>1, <1>4
<1>6. g = [m EXCEPT !.kv = kv, !.pos = pos, !.graph = graph, !.sched = sched, !.ran = ran]
  <2> HIDE DEF g, longest, kv, pos, graph, sched, ran
  <2> QED
    BY <1>3, <1>5
<1>7. /\ DOMAIN g = Parts /\ g.kv = kv /\ g.pos = pos /\ g.graph = graph /\ g.sched = sched
      /\ g.ran = ran /\ g.exited = m.exited
  <2> HIDE DEF g, kv, pos, graph, sched, ran
  <2> QED
    BY <1>2, <1>6 DEF Parts
<1>8. graph.key = shape /\ (graph.built => graph.direct \/ sched = "batch")
  <2>1. key = shape
    BY DEF Key
  <2> HIDE DEF shape, key
  <2>2. CASE builds
    BY <2>1, <2>2
  <2>3. CASE ~builds
    BY <2>1, <2>3, <1>2
  <2> QED
    BY <2>2, <2>3
<1>9. graph.built
  <2> HIDE DEF key
  <2>1. CASE builds
    BY <2>1
  <2>2. CASE ~builds
    BY <2>2
  <2> QED
    BY <2>1, <2>2
<1>10. ran.key = ran.shape /\ ran.own
  <2> HIDE DEF graph, sched, shape
  <2> QED
    BY <1>8, <1>9
<1>11. /\ pos \in [1 .. KvSets -> Nat]
       /\ \A s \in 1 .. KvSets :
             pos[s] = IF \E i \in 1 .. n : sets[i] = s THEN m.pos[s] + 1 ELSE m.pos[s]
  <2>1. \A s : s \in ToSet(sets) <=> \E i \in 1 .. n : sets[i] = s
    BY DEF ToSet
  <2>2. pos = [s \in 1 .. KvSets |-> m.pos[s] + IF s \in ToSet(sets) THEN 1 ELSE 0]
    BY <1>2
  <2> HIDE DEF pos
  <2>3. \A s \in 1 .. KvSets : m.pos[s] \in Nat
    BY <1>2
  <2>4. \A k \in Nat : k + 0 = k /\ k + 1 \in Nat
    OBVIOUS
  <2>5. ASSUME NEW s \in 1 .. KvSets
        PROVE  /\ pos[s] \in Nat
               /\ pos[s] = IF s \in ToSet(sets) THEN m.pos[s] + 1 ELSE m.pos[s]
    BY <2>2, <2>3, <2>4
  <2> QED
    BY <2>1, <2>2, <2>5
<1>12. \A s \in 1 .. KvSets :
         kv[s] = IF s \in sets[1] .. sets[1] + n - 1
                 THEN WrittenRows(m.kv[s], p + 1, <<toks[s - sets[1] + 1]>>) ELSE m.kv[s]
  <2>1. ASSUME NEW s \in 1 .. KvSets, feed(s) PROVE rows[target(s)] = p + 1
    <3>1. target(s) \in 1 .. n
      <4>1. 1 \in 1 .. n
        OBVIOUS
      <4>2. sets[1] \in Int
        BY <4>1
      <4> QED
        BY <2>1, <4>2
    <3> HIDE DEF rows, target
    <3> QED
      BY <3>1, <1>4
  <2>2. kv = [s \in 1 .. KvSets |->
                IF feed(s) THEN WrittenRows(m.kv[s], rows[target(s)], <<toks[target(s)]>>)
                ELSE m.kv[s]]
    BY <1>2
  <2> HIDE DEF kv, rows
  <2> QED
    BY <2>1, <2>2
<1>13. DOMAIN kv = 1 .. KvSets
  <2>1. kv = [s \in 1 .. KvSets |->
                IF feed(s) THEN WrittenRows(m.kv[s], rows[target(s)], <<toks[target(s)]>>)
                ELSE m.kv[s]]
    BY <1>2
  <2> HIDE DEF kv, feed, target, rows
  <2> QED
    BY ONLY <2>1
<1> HIDE DEF g, kv, pos, graph, sched, ran, shape, key, builds, longest, at, rows
<1>14. LmOK(g)
  BY <1>2, <1>7, <1>8, <1>10, <1>11, <1>13 DEF LmOK
<1>15. BatchOf(g, m, sets, toks, n, p)
  BY <1>7, <1>11, <1>12, <1>14, Zenon DEF BatchOf
<1> QED
  BY <1>15 DEF g

-----------------------------------------------------------------------------
(* The order of the sequences.                                               *)

\* The sequences of the set, each once.
Lists(o, seqs) ==
    /\ Len(o) \in Nat \ {0} /\ DOMAIN o = 1 .. Len(o)
    /\ \A k \in 1 .. Len(o) : o[k] \in seqs
    /\ \A i \in seqs : \E k \in 1 .. Len(o) : o[k] = i

LEMMA FewerOf ==
  ASSUME NEW v, IsFiniteSet(v), NEW u \in SUBSET v, NEW y \in v, y \notin u
  PROVE  Cardinality(v) # Cardinality(u)
<1>1. Cardinality(v) = Cardinality(u) => v = u
  BY FS_Subset, Zenon
<1>2. v # u
  OBVIOUS
<1> QED
  BY <1>1, <1>2

LEMMA OrderLists ==
  ASSUME NEW n \in Nat, NEW seqs \in SUBSET (1 .. n), seqs # {}
  PROVE  /\ Lists(InOrder(seqs), seqs)
         /\ \A a, b \in 1 .. n :
                seqs = a .. b =>
                    /\ Len(InOrder(seqs)) = b - a + 1
                    /\ \A k \in 1 .. b - a + 1 : InOrder(seqs)[k] = a + (k - 1)
<1> DEFINE upTo(x) == {j \in seqs : j <= x}
           c == Cardinality(seqs)
           r == [x \in seqs |-> Cardinality(upTo(x))]
           o == InOrder(seqs)
<1>1. IsFiniteSet(1 .. n)
  BY FS_Interval
<1>2. IsFiniteSet(seqs)
  BY <1>1, FS_Subset
<1>3. c \in Nat /\ c # 0
  BY <1>2, FS_CardinalityType, FS_EmptySet
<1>4. ASSUME NEW x \in seqs
      PROVE  IsFiniteSet(upTo(x)) /\ Cardinality(upTo(x)) \in 1 .. c
  <2> DEFINE u == upTo(x)
  <2>1. u \in SUBSET seqs /\ x \in u
    OBVIOUS
  <2> HIDE DEF u
  <2>2. IsFiniteSet(u) /\ Cardinality(u) <= c
    BY <2>1, <1>2, FS_Subset
  <2>3. Cardinality(u) \in Nat /\ Cardinality(u) # 0
    BY <2>1, <2>2, FS_CardinalityType, FS_EmptySet
  <2>4. Cardinality(u) \in 1 .. c
    BY <2>2, <2>3, <1>3
  <2> QED
    BY <2>2, <2>4 DEF u
<1>5. ASSUME NEW x \in seqs, NEW y \in seqs, x < y
      PROVE  Cardinality(upTo(x)) # Cardinality(upTo(y))
  <2> DEFINE u == upTo(x)
             v == upTo(y)
  <2>1. u \in SUBSET v /\ y \in v /\ y \notin u
    <3>1. x \in Int /\ y \in Int /\ \A j \in seqs : j \in Int
      OBVIOUS
    <3>2. \A j \in seqs : j <= x => j <= y
      BY <1>5, <3>1
    <3>3. y <= y /\ ~(y <= x)
      BY <1>5, <3>1
    <3> QED
      BY <3>2, <3>3
  <2>2. IsFiniteSet(v)
    BY <1>4
  <2> HIDE DEF u, v
  <2>4. Cardinality(v) # Cardinality(u)
    BY <2>1, <2>2, FewerOf
  <2> QED
    BY <2>4 DEF u, v
<1>6. \A x, y \in seqs : r[x] = r[y] => x = y
  <2>1. \A x, y \in seqs : x = y \/ x < y \/ y < x
    OBVIOUS
  <2>2. \A x \in seqs : r[x] = Cardinality(upTo(x))
    OBVIOUS
  <2> HIDE DEF r, upTo
  <2> QED
    BY <1>5, <2>1, <2>2
<1>7. r \in Injection(seqs, 1 .. c)
  <2>1. r \in [seqs -> 1 .. c]
    BY <1>4
  <2> HIDE DEF r
  <2> QED
    BY <1>6, <2>1 DEF Injection, IsInjective
<1>8. IsFiniteSet(1 .. c) /\ Cardinality(1 .. c) = c
  <2> HIDE DEF c
  <2>1. 1 \in Int /\ c \in Int
    BY <1>3
  <2>2. IsFiniteSet(1 .. c) /\ Cardinality(1 .. c) = IF 1 > c THEN 0 ELSE c - 1 + 1
    BY <2>1, FS_Interval
  <2> QED
    BY <2>2, <1>3
<1>9. r \in Surjection(seqs, 1 .. c)
  <2> HIDE DEF r
  <2> QED
    BY <1>7, <1>8, FS_Injection
<1>10. \A k \in 1 .. c : \E x \in seqs : r[x] = k
  <2> HIDE DEF r, c
  <2> QED
    BY <1>9 DEF Surjection
<1>11. \A k \in 1 .. c : o[k] = CHOOSE x \in seqs : Cardinality(upTo(x)) = k
  BY DEF InOrder
<1>12. ASSUME NEW k \in 1 .. c PROVE o[k] \in seqs /\ r[o[k]] = k
  <2>1. \E x \in seqs : Cardinality(upTo(x)) = k
    BY <1>10
  <2> HIDE DEF upTo, o
  <2>2. o[k] \in seqs /\ Cardinality(upTo(o[k])) = k
    BY <2>1, <1>11
  <2> QED
    BY <2>2
<1>13. Len(o) = c /\ DOMAIN o = 1 .. c
  <2>1. o = [k \in 1 .. c |-> o[k]]
    <3> DEFINE e(k) == CHOOSE x \in seqs : Cardinality(upTo(x)) = k
    <3>1. o = [k \in 1 .. c |-> e(k)]
      BY Zenon DEF InOrder
    <3> HIDE DEF e, o, c
    <3> QED
      BY <3>1
  <2>2. DOMAIN o = 1 .. c
    BY DEF InOrder
  <2> HIDE DEF o, c
  <2> QED
    BY <2>1, <2>2, <1>3, FunctionIsSeq
<1>14. ASSUME NEW i \in seqs PROVE \E k \in 1 .. c : o[k] = i
  <2> DEFINE k == r[i]
  <2>1. k \in 1 .. c
    BY <1>4
  <2> HIDE DEF o, r
  <2>2. o[k] \in seqs /\ r[o[k]] = r[i]
    BY <2>1, <1>12
  <2>3. o[k] = i
    BY <2>2, <1>6
  <2> QED
    BY <2>1, <2>3
<1>15. Lists(o, seqs)
  <2> HIDE DEF o, r, c
  <2> QED
    BY <1>3, <1>12, <1>13, <1>14 DEF Lists
<1>16. ASSUME NEW a \in 1 .. n, NEW b \in 1 .. n, seqs = a .. b
       PROVE  c = b - a + 1 /\ \A k \in 1 .. b - a + 1 : o[k] = a + (k - 1)
  <2>1. ASSUME NEW x \in a .. b PROVE Cardinality(a .. x) = x - a + 1
    <3>1. Cardinality(a .. x) = IF a > x THEN 0 ELSE x - a + 1
      <4>1. a \in Int /\ x \in Int
        OBVIOUS
      <4> QED
        BY <4>1, FS_Interval
    <3> QED
      BY <3>1
  <2>2. a <= b /\ b \in a .. b
    <3>1. seqs # {}
      OBVIOUS
    <3> QED
      BY <3>1, <1>16
  <2>3. c = b - a + 1
    BY <2>1, <2>2, <1>16
  <2>4. ASSUME NEW x \in a .. b PROVE r[x] = x - a + 1
    <3>1. upTo(x) = a .. x
      BY <1>16
    <3>2. r[x] = Cardinality(upTo(x))
      BY <1>16
    <3> HIDE DEF r, upTo
    <3> QED
      BY <3>1, <3>2, <2>1
  <2>5. ASSUME NEW k \in 1 .. b - a + 1 PROVE o[k] = a + (k - 1)
    <3>1. k \in 1 .. c
      BY <2>3
    <3>2. o[k] \in a .. b /\ r[o[k]] = k
      BY <3>1, <1>12, <1>16
    <3> HIDE DEF r, o, c
    <3>3. r[o[k]] = o[k] - a + 1
      BY <3>2, <2>4
    <3> QED
      BY <3>2, <3>3
  <2> QED
    BY <2>3, <2>5
<1> HIDE DEF o, c
<1> QED
  BY <1>13, <1>15, <1>16 DEF o

-----------------------------------------------------------------------------
(* The forwards of a decode step.                                            *)

LEMMA ConcatIsSeq ==
  ASSUME NEW x, NEW y, IsSeq(x), IsSeq(y)
  PROVE  /\ IsSeq(x \o y) /\ Len(x \o y) = Len(x) + Len(y)
         /\ \A i \in 1 .. Len(x) : (x \o y)[i] = x[i]
         /\ \A i \in 1 .. Len(y) : (x \o y)[Len(x) + i] = y[i]
<1> DEFINE R == {x[j] : j \in 1 .. Len(x)}
           Q == {y[j] : j \in 1 .. Len(y)}
           S == R \cup Q
           c == x \o y
<1>1. x \in Seq(S) /\ y \in Seq(S)
  <2>1. x \in Seq(R) /\ y \in Seq(Q) /\ R \subseteq S /\ Q \subseteq S
    BY IsSeqInSeq
  <2> HIDE DEF R, Q, S
  <2> QED
    BY <2>1, SeqMonotonic
<1>2. Len(x) \in Nat /\ Len(y) \in Nat
  BY DEF IsSeq
<1> HIDE DEF S
<1>3. /\ c \in Seq(S) /\ Len(c) = Len(x) + Len(y)
      /\ \A i \in 1 .. Len(x) + Len(y) : c[i] = IF i <= Len(x) THEN x[i] ELSE y[i - Len(x)]
  BY <1>1, ConcatProperties, Zenon
<1> HIDE DEF c
<1>4. c = [j \in 1 .. Len(x) + Len(y) |-> c[j]]
  <2>1. c \in [1 .. Len(x) + Len(y) -> S]
    BY <1>3, LenProperties
  <2> QED
    BY <2>1
<1>5. IsSeq(c)
  <2>1. Len(x) + Len(y) \in Nat
    BY <1>2
  <2> QED
    BY <1>4, <2>1, FunctionIsSeq
<1>6. \A i \in 1 .. Len(x) : c[i] = x[i]
  <2>1. \A i \in 1 .. Len(x) : i \in 1 .. Len(x) + Len(y) /\ i <= Len(x)
    BY <1>2
  <2> QED
    BY <1>3, <2>1
<1>7. \A i \in 1 .. Len(y) : c[Len(x) + i] = y[i]
  <2>1. ASSUME NEW i \in 1 .. Len(y) PROVE c[Len(x) + i] = y[i]
    <3> DEFINE k == Len(x) + i
    <3>1. k \in 1 .. Len(x) + Len(y) /\ ~(k <= Len(x)) /\ k - Len(x) = i
      BY <1>2
    <3> HIDE DEF k
    <3>2. c[k] = y[i]
      BY <3>1, <1>3
    <3> QED
      BY <3>2 DEF k
  <2> QED
    BY <2>1
<1> QED
  BY <1>3, <1>5, <1>6, <1>7 DEF c

\* The arguments of a forward.
Args(o, sets, toks, seqs, base) ==
    /\ Lists(o, seqs)
    /\ IsSeq(sets) /\ Len(sets) = Len(o)
    /\ IsSeq(toks) /\ Len(toks) = Len(o)
    /\ \A k \in 1 .. Len(o) : sets[k] = base + o[k] /\ toks[k] = last[o[k]]

LEMMA FedLists ==
  ASSUME NEW n \in Nat, NEW seqs \in SUBSET (1 .. n), seqs # {}, NEW base \in Nat
  PROVE  Args(InOrder(seqs), SetsOf(seqs, base), LastOf(seqs), seqs, base)
<1> DEFINE o == InOrder(seqs)
           s == SetsOf(seqs, base)
           t == LastOf(seqs)
<1>1. Lists(o, seqs)
  BY OrderLists
<1> HIDE DEF o
<1>2. Len(o) \in Nat /\ DOMAIN o = 1 .. Len(o)
  BY <1>1 DEF Lists
<1>3. s = [k \in 1 .. Len(o) |-> base + o[k]] /\ t = [k \in 1 .. Len(o) |-> last[o[k]]]
  BY <1>2 DEF SetsOf, LastOf, o
<1> HIDE DEF s, t
<1>4. /\ \A k \in 1 .. Len(o) : s[k] = base + o[k] /\ t[k] = last[o[k]]
      /\ s = [k \in 1 .. Len(o) |-> s[k]] /\ t = [k \in 1 .. Len(o) |-> t[k]]
  BY <1>3
<1>5. IsSeq(s) /\ Len(s) = Len(o) /\ IsSeq(t) /\ Len(t) = Len(o)
  BY <1>2, <1>4, FunctionIsSeq
<1>6. Args(o, s, t, seqs, base)
  BY <1>1, <1>4, <1>5 DEF Args
<1> QED
  BY <1>6 DEF o, s, t

\* g is m, where the sets of seqs, base apart, that held p rows hold one more;
\* when these sets lie side by side it is the last token, each to its own.
FedInto(g, m, n, seqs, base, p) ==
    /\ LmOK(g)
    /\ \A i \in seqs : g.pos[base + i] = p + 1
    /\ \A s \in 1 .. KvSets : (\A i \in seqs : s # base + i) => g.pos[s] = m.pos[s]
    /\ \A a, b \in 1 .. n : seqs = a .. b =>
          /\ \A i \in seqs : g.kv[base + i] = WrittenRows(m.kv[base + i], p + 1, <<last[i]>>)
          /\ \A s \in 1 .. KvSets : s \notin base + a .. base + b => g.kv[s] = m.kv[s]

LEMMA Feeds ==
  ASSUME NEW m, LmOK(m), NEW n \in Nat, NEW seqs \in SUBSET (1 .. n), seqs # {},
         NEW base \in Nat, base + n <= KvSets, NEW p \in Nat, p < MaxSeq,
         \A i \in seqs : m.pos[base + i] = p, NEW head, batch.direct \in BOOLEAN
  PROVE  FedInto(Fed(m, seqs, base, head), m, n, seqs, base, p)
<1> DEFINE o == InOrder(seqs)
           sets == SetsOf(seqs, base)
           toks == LastOf(seqs)
           c == Len(sets)
           g == ForwardBatch(m, sets, toks, head, batch.direct)
<1>1. Fed(m, seqs, base, head) = g
  BY DEF Fed
<1>2. Lists(o, seqs) /\ c = Len(o) /\ IsSeq(sets)
      /\ \A k \in 1 .. c : sets[k] = base + o[k] /\ toks[k] = last[o[k]]
  <2>1. Args(o, sets, toks, seqs, base)
    BY FedLists
  <2> HIDE DEF o, sets, toks
  <2> QED
    BY <2>1, Zenon DEF Args
<1>3. c \in Nat \ {0} /\ (\A k \in 1 .. c : o[k] \in seqs)
      /\ (\A i \in seqs : \E k \in 1 .. c : o[k] = i)
  BY <1>2 DEF Lists
<1>4. DOMAIN sets = 1 .. c
  <2> HIDE DEF sets
  <2>1. sets = [j \in 1 .. c |-> sets[j]]
    BY <1>2 DEF IsSeq
  <2> HIDE DEF c
  <2> QED
    BY <2>1
<1>5. KvSets \in Nat /\ \A i \in seqs : base + i \in 1 .. KvSets
  BY LmAssumption
<1>6. ASSUME NEW a \in 1 .. n, NEW b \in 1 .. n, seqs = a .. b
      PROVE  c = b - a + 1 /\ \A k \in 1 .. b - a + 1 : o[k] = a + (k - 1)
  BY <1>2, <1>6, OrderLists
<1> HIDE DEF o, sets, toks, c
<1>7. \A k \in 1 .. c : sets[k] \in 1 .. KvSets /\ m.pos[sets[k]] = p
  <2>1. ASSUME NEW k \in 1 .. c PROVE sets[k] \in 1 .. KvSets /\ m.pos[sets[k]] = p
    <3>1. o[k] \in seqs /\ sets[k] = base + o[k]
      BY <1>2, <1>3
    <3> QED
      BY <3>1, <1>5
  <2> QED
    BY <2>1
<1>8. BatchOf(g, m, sets, toks, c, p)
  <2>1. \A i \in 1 .. Len(sets) : sets[i] \in 1 .. KvSets /\ m.pos[sets[i]] = p
    BY <1>7 DEF c
  <2>2. Len(sets) \in Nat \ {0} /\ DOMAIN sets = 1 .. Len(sets)
    BY <1>3, <1>4 DEF c
  <2>3. BatchOf(g, m, sets, toks, Len(sets), p)
    BY <2>1, <2>2, Batches
  <2> QED
    BY <2>3 DEF c
<1> HIDE DEF g
<1>9. LmOK(g)
  BY <1>8 DEF BatchOf
<1>10. ASSUME NEW i \in seqs PROVE g.pos[base + i] = p + 1
  <2> DEFINE s == base + i
  <2>1. \E k \in 1 .. c : sets[k] = s
    BY <1>2, <1>3
  <2>2. s \in 1 .. KvSets /\ m.pos[s] = p
    BY <1>5
  <2> HIDE DEF s
  <2>3. g.pos[s] = p + 1
    BY <2>1, <2>2, <1>8 DEF BatchOf
  <2> QED
    BY <2>3 DEF s
<1>11. ASSUME NEW s \in 1 .. KvSets, \A i \in seqs : s # base + i PROVE g.pos[s] = m.pos[s]
  <2>1. ASSUME NEW k \in 1 .. c PROVE sets[k] # s
    <3>1. o[k] \in seqs /\ sets[k] = base + o[k]
      BY <1>2, <1>3
    <3> QED
      BY <3>1, <1>11
  <2> QED
    BY <2>1, <1>8 DEF BatchOf
<1>12. ASSUME NEW a \in 1 .. n, NEW b \in 1 .. n, seqs = a .. b
       PROVE  /\ \A i \in seqs : g.kv[base + i] = WrittenRows(m.kv[base + i], p + 1, <<last[i]>>)
              /\ \A s \in 1 .. KvSets : s \notin base + a .. base + b => g.kv[s] = m.kv[s]
  <2>1. a \in Nat /\ b \in Nat /\ base \in Nat
    OBVIOUS
  <2>2. a <= b
    <3>1. seqs # {}
      OBVIOUS
    <3> QED
      BY <3>1, <1>12, <2>1
  <2>3. c = b - a + 1 /\ \A k \in 1 .. c : o[k] = a + (k - 1)
    BY <1>6, <1>12
  <2>4. sets[1] = base + a
    BY <1>2, <2>1, <2>2, <2>3
  <2>5. sets[1] .. sets[1] + c - 1 = base + a .. base + b
    BY <2>1, <2>2, <2>3, <2>4
  <2>6. ASSUME NEW i \in seqs
        PROVE  g.kv[base + i] = WrittenRows(m.kv[base + i], p + 1, <<last[i]>>)
    <3> DEFINE s == base + i
               k == s - sets[1] + 1
    <3>1. i \in a .. b
      BY <1>12
    <3>2. s \in base + a .. base + b
      BY <3>1, <2>1
    <3>3. k \in 1 .. c /\ a + (k - 1) = i
      BY <3>1, <2>1, <2>2, <2>3, <2>4
    <3>4. s \in 1 .. KvSets
      BY <1>5
    <3> HIDE DEF k
    <3>5. toks[k] = last[i]
      BY <3>3, <2>3, <1>2
    <3> HIDE DEF s
    <3>6. g.kv[s] = WrittenRows(m.kv[s], p + 1, <<toks[k]>>)
      BY <3>2, <3>4, <2>5, <1>8 DEF BatchOf, k
    <3>7. g.kv[s] = WrittenRows(m.kv[s], p + 1, <<last[i]>>)
      BY <3>5, <3>6
    <3> QED
      BY <3>7 DEF s
  <2>7. ASSUME NEW s \in 1 .. KvSets, s \notin base + a .. base + b PROVE g.kv[s] = m.kv[s]
    BY <2>5, <2>7, <1>8 DEF BatchOf
  <2> QED
    BY <2>6, <2>7
<1>13. FedInto(g, m, n, seqs, base, p)
  BY <1>9, <1>10, <1>11, <1>12, Zenon DEF FedInto
<1> QED
  BY <1>1, <1>13

\* The same of both kinds of sets, n apart, at once; all of them lie side by
\* side only when every sequence is fed.
BothFed(g, m, n, seqs, p) ==
    /\ LmOK(g)
    /\ \A i \in seqs : g.pos[i] = p + 1 /\ g.pos[n + i] = p + 1
    /\ seqs = 1 .. n => \A i \in seqs :
          /\ g.kv[i] = WrittenRows(m.kv[i], p + 1, <<last[i]>>)
          /\ g.kv[n + i] = WrittenRows(m.kv[n + i], p + 1, <<last[i]>>)

\* The arguments of such a forward.
BothArgs(o, sets, toks, seqs, n, c) ==
    /\ c \in Nat \ {0}
    /\ \A k \in 1 .. c : o[k] \in seqs
    /\ \A i \in seqs : \E k \in 1 .. c : o[k] = i
    /\ Len(sets) = c + c /\ DOMAIN sets = 1 .. Len(sets)
    /\ \A k \in 1 .. c :
          /\ sets[k] = o[k] /\ toks[k] = last[o[k]]
          /\ sets[c + k] = n + o[k] /\ toks[c + k] = last[o[k]]

LEMMA BothLists ==
  ASSUME NEW n \in Nat, NEW seqs \in SUBSET (1 .. n), seqs # {}
  PROVE  BothArgs(InOrder(seqs), SetsOf(seqs, 0) \o SetsOf(seqs, n), LastOf(seqs) \o LastOf(seqs),
                  seqs, n, Len(InOrder(seqs)))
<1> DEFINE o == InOrder(seqs)
           c == Len(o)
           x == SetsOf(seqs, 0)
           y == SetsOf(seqs, n)
           t == LastOf(seqs)
           sets == x \o y
           toks == t \o t
<1>1. Args(o, x, t, seqs, 0) /\ Args(o, y, t, seqs, n)
  <2>1. 0 \in Nat
    OBVIOUS
  <2> QED
    BY <2>1, FedLists
<1> HIDE DEF o, x, y, t
<1>2. /\ Lists(o, seqs) /\ IsSeq(x) /\ IsSeq(y) /\ IsSeq(t)
      /\ Len(x) = c /\ Len(y) = c /\ Len(t) = c
      /\ \A k \in 1 .. c : x[k] = 0 + o[k] /\ y[k] = n + o[k] /\ t[k] = last[o[k]]
  BY <1>1, Zenon DEF Args
<1>3. c \in Nat \ {0} /\ (\A k \in 1 .. c : o[k] \in seqs)
      /\ (\A i \in seqs : \E k \in 1 .. c : o[k] = i)
  BY <1>2 DEF Lists
<1>4. /\ IsSeq(sets) /\ Len(sets) = c + c
      /\ \A k \in 1 .. c : sets[k] = x[k] /\ sets[c + k] = y[k]
  <2>1. /\ IsSeq(sets) /\ Len(sets) = Len(x) + Len(y)
        /\ \A k \in 1 .. Len(x) : sets[k] = x[k]
        /\ \A k \in 1 .. Len(y) : sets[Len(x) + k] = y[k]
    BY <1>2, ConcatIsSeq
  <2> HIDE DEF sets, c
  <2> QED
    BY <2>1, <1>2
<1>5. \A k \in 1 .. c : toks[k] = t[k] /\ toks[c + k] = t[k]
  <2>1. /\ \A k \in 1 .. Len(t) : toks[k] = t[k]
        /\ \A k \in 1 .. Len(t) : toks[Len(t) + k] = t[k]
    BY <1>2, ConcatIsSeq
  <2> HIDE DEF toks, c
  <2> QED
    BY <2>1, <1>2
<1>6. DOMAIN sets = 1 .. Len(sets)
  <2> HIDE DEF sets
  <2>1. sets = [j \in 1 .. Len(sets) |-> sets[j]]
    BY <1>4 DEF IsSeq
  <2> QED
    BY <2>1
<1> HIDE DEF sets, toks, c
<1>7. \A k \in 1 .. c : x[k] = o[k]
  <2>1. ASSUME NEW k \in 1 .. c PROVE x[k] = o[k]
    <3>1. o[k] \in seqs /\ x[k] = 0 + o[k]
      BY <1>2, <1>3, Zenon
    <3>2. \A i \in seqs : 0 + i = i
      OBVIOUS
    <3> QED
      BY <3>1, <3>2
  <2> QED
    BY <2>1
<1>8. BothArgs(o, sets, toks, seqs, n, c)
  BY <1>2, <1>3, <1>4, <1>5, <1>6, <1>7 DEF BothArgs
<1> QED
  BY <1>8 DEF o, sets, toks, x, y, t, c

LEMMA BatchesBoth ==
  ASSUME NEW m, LmOK(m), NEW n \in Nat, NEW seqs \in SUBSET (1 .. n), seqs # {},
         n + n <= KvSets, NEW p \in Nat, p < MaxSeq,
         \A i \in seqs : m.pos[i] = p /\ m.pos[n + i] = p,
         NEW head, NEW direct \in BOOLEAN, NEW o, NEW sets, NEW toks, NEW c,
         BothArgs(o, sets, toks, seqs, n, c)
  PROVE  BatchOf(ForwardBatch(m, sets, toks, head, direct), m, sets, toks, c + c, p)
<1>1. c \in Nat \ {0} /\ Len(sets) = c + c /\ DOMAIN sets = 1 .. Len(sets)
  BY DEF BothArgs
<1>2. ASSUME NEW k \in 1 .. c
      PROVE  /\ sets[k] \in 1 .. KvSets /\ m.pos[sets[k]] = p
             /\ sets[c + k] \in 1 .. KvSets /\ m.pos[sets[c + k]] = p
  <2>1. o[k] \in seqs /\ sets[k] = o[k] /\ sets[c + k] = n + o[k]
    BY Zenon DEF BothArgs
  <2>2. KvSets \in Nat
    BY LmAssumption
  <2>3. \A i \in seqs : i \in 1 .. KvSets /\ n + i \in 1 .. KvSets
    BY <2>2
  <2> QED
    BY <2>1, <2>3
<1>3. ASSUME NEW k \in 1 .. Len(sets) PROVE sets[k] \in 1 .. KvSets /\ m.pos[sets[k]] = p
  <2>1. CASE k \in 1 .. c
    BY <2>1, <1>2
  <2>2. CASE k \notin 1 .. c
    <3> DEFINE j == k - c
    <3>1. j \in 1 .. c /\ c + j = k
      BY <2>2, <1>1
    <3> HIDE DEF j
    <3> QED
      BY <3>1, <1>2
  <2> QED
    BY <2>1, <2>2
<1>4. Len(sets) \in Nat \ {0}
  BY <1>1
<1>5. BatchOf(ForwardBatch(m, sets, toks, head, direct), m, sets, toks, Len(sets), p)
  BY <1>1, <1>3, <1>4, Batches
<1> QED
  BY <1>1, <1>5

LEMMA FeedsBoth ==
  ASSUME NEW m, LmOK(m), NEW n \in Nat, N = n, NEW seqs \in SUBSET (1 .. n), seqs # {},
         n + n <= KvSets, NEW p \in Nat, p < MaxSeq,
         \A i \in seqs : m.pos[i] = p /\ m.pos[n + i] = p,
         NEW head, batch.direct \in BOOLEAN
  PROVE  BothFed(FedBoth(m, seqs, head), m, n, seqs, p)
<1> DEFINE o == InOrder(seqs)
           c == Len(o)
           sets == SetsOf(seqs, 0) \o SetsOf(seqs, n)
           toks == LastOf(seqs) \o LastOf(seqs)
           g == ForwardBatch(m, sets, toks, head, batch.direct)
<1>1. FedBoth(m, seqs, head) = g
  BY DEF FedBoth
<1>2. BothArgs(o, sets, toks, seqs, n, c)
  BY BothLists
<1>3. seqs = 1 .. n => c = n /\ \A k \in 1 .. n : o[k] = k
  <2>1. ASSUME seqs = 1 .. n PROVE c = n - 1 + 1 /\ \A k \in 1 .. n - 1 + 1 : o[k] = 1 + (k - 1)
    <3>1. 1 \in 1 .. n /\ n \in 1 .. n
      BY <2>1
    <3>2. \A a, b \in 1 .. n :
            seqs = a .. b =>
                /\ Len(InOrder(seqs)) = b - a + 1
                /\ \A k \in 1 .. b - a + 1 : InOrder(seqs)[k] = a + (k - 1)
      BY OrderLists
    <3> QED
      BY <3>1, <3>2, <2>1
  <2> HIDE DEF c, o
  <2> QED
    BY <2>1
<1> HIDE DEF o, c, sets, toks
<1>4. BatchOf(g, m, sets, toks, c + c, p)
  BY <1>2, BatchesBoth
<1> HIDE DEF g
<1>5. LmOK(g)
  BY <1>4 DEF BatchOf
<1>6. c \in Nat \ {0} /\ KvSets \in Nat
  BY <1>2, LmAssumption DEF BothArgs
<1>7. ASSUME NEW i \in seqs PROVE g.pos[i] = p + 1 /\ g.pos[n + i] = p + 1
  <2>1. PICK k \in 1 .. c : o[k] = i
    BY <1>2 DEF BothArgs
  <2>2. sets[k] = i /\ sets[c + k] = n + i
    BY <2>1, <1>2 DEF BothArgs
  <2>3. k \in 1 .. c + c /\ c + k \in 1 .. c + c
    BY <1>6
  <2>4. i \in 1 .. KvSets /\ n + i \in 1 .. KvSets
    BY <1>6
  <2>5. ASSUME NEW s \in 1 .. KvSets, m.pos[s] = p, NEW j \in 1 .. c + c, sets[j] = s
        PROVE  g.pos[s] = p + 1
    BY <2>5, <1>4, Zenon DEF BatchOf
  <2> QED
    BY <2>2, <2>3, <2>4, <2>5
<1>8. ASSUME seqs = 1 .. n, NEW i \in seqs
      PROVE  /\ g.kv[i] = WrittenRows(m.kv[i], p + 1, <<last[i]>>)
             /\ g.kv[n + i] = WrittenRows(m.kv[n + i], p + 1, <<last[i]>>)
  <2>1. c = n /\ n >= 1 /\ i \in 1 .. c /\ 1 \in 1 .. c
    BY <1>3, <1>6, <1>8
  <2>2. o[i] = i /\ o[1] = 1
    BY <2>1, <1>3, <1>8
  <2>3. toks[i] = last[i] /\ toks[n + i] = last[i] /\ sets[1] = 1
    BY <2>1, <2>2, <1>2 DEF BothArgs
  <2>4. ASSUME NEW s \in 1 .. n + n PROVE g.kv[s] = WrittenRows(m.kv[s], p + 1, <<toks[s]>>)
    <3>1. s \in 1 .. KvSets /\ s \in 1 .. 1 + (c + c) - 1 /\ s - 1 + 1 = s
      BY <1>6, <2>1
    <3>2. g.kv[s] = WrittenRows(m.kv[s], p + 1, <<toks[s - 1 + 1]>>)
      BY <3>1, <2>3, <1>4, Zenon DEF BatchOf
    <3> QED
      BY <3>1, <3>2
  <2>5. i \in 1 .. n + n /\ n + i \in 1 .. n + n
    OBVIOUS
  <2> QED
    BY <2>3, <2>4, <2>5
<1>9. BothFed(g, m, n, seqs, p)
  BY <1>5, <1>7, <1>8, Zenon DEF BothFed
<1> QED
  BY <1>1, <1>9

LEMMA SideBySide ==
  ASSUME NEW n \in Nat, NEW seqs \in SUBSET (1 .. n), seqs # {}, seqs = 1 .. n \/ n <= 2
  PROVE  \E a, b \in 1 .. n : seqs = a .. b
<1>1. CASE seqs = 1 .. n
  <2>1. 1 \in 1 .. n /\ n \in 1 .. n
    BY <1>1
  <2> QED
    BY <1>1, <2>1
<1>2. CASE n <= 2
  <2>1. \A i \in seqs : i = 1 \/ i = 2
    BY <1>2
  <2>2. CASE seqs = {1}
    <3>1. 1 \in 1 .. n /\ {1} = 1 .. 1
      BY <2>2
    <3> QED
      BY <2>2, <3>1
  <2>3. CASE seqs = {2}
    <3>1. 2 \in 1 .. n /\ {2} = 2 .. 2
      BY <2>3
    <3> QED
      BY <2>3, <3>1
  <2>4. CASE 1 \in seqs /\ 2 \in seqs
    <3>1. 1 \in 1 .. n /\ 2 \in 1 .. n
      BY <2>4
    <3>2. seqs = 1 .. 2
      <4>1. \A i \in 1 .. 2 : i = 1 \/ i = 2
        OBVIOUS
      <4>2. 1 \in 1 .. 2 /\ 2 \in 1 .. 2
        OBVIOUS
      <4>3. \A i \in 1 .. 2 : i \in seqs
        BY <2>4, <4>1
      <4>4. \A i \in seqs : i \in 1 .. 2
        BY <2>1, <4>2, Zenon
      <4> QED
        BY <4>3, <4>4
    <3> QED
      BY <3>1, <3>2
  <2> QED
    BY <2>1, <2>2, <2>3, <2>4
<1> QED
  BY <1>1, <1>2

\* One kind of sets in a forward of its own, and the two kinds in turn: a run
\* of sequences makes a run of sets.
AloneFed(g, m, n, seqs, p) ==
    /\ LmOK(g)
    /\ \A i \in seqs : g.pos[i] = p + 1
    /\ seqs = 1 .. n \/ n <= 2 => \A i \in seqs :
          g.kv[i] = WrittenRows(m.kv[i], p + 1, <<last[i]>>)

TwinsFed(g, m, n, seqs, p) ==
    /\ LmOK(g)
    /\ \A i \in seqs : g.pos[i] = p + 1 /\ g.pos[n + i] = p + 1
    /\ seqs = 1 .. n \/ n <= 2 => \A i \in seqs :
          /\ g.kv[i] = WrittenRows(m.kv[i], p + 1, <<last[i]>>)
          /\ g.kv[n + i] = WrittenRows(m.kv[n + i], p + 1, <<last[i]>>)

LEMMA FeedsAlone ==
  ASSUME NEW m, LmOK(m), NEW n \in Nat, NEW seqs \in SUBSET (1 .. n), seqs # {},
         n <= KvSets, NEW p \in Nat, p < MaxSeq, \A i \in seqs : m.pos[i] = p,
         NEW head, batch.direct \in BOOLEAN
  PROVE  AloneFed(Fed(m, seqs, 0, head), m, n, seqs, p)
<1> DEFINE g == Fed(m, seqs, 0, head)
<1>1. FedInto(g, m, n, seqs, 0, p)
  <2>1. 0 \in Nat /\ 0 + n <= KvSets
    OBVIOUS
  <2>2. \A i \in seqs : 0 + i = i
    OBVIOUS
  <2>3. \A i \in seqs : m.pos[0 + i] = p
    BY <2>2
  <2> QED
    BY <2>1, <2>3, Feeds
<1> HIDE DEF g
<1>2. \A i \in seqs : 0 + i = i
  OBVIOUS
<1>3. LmOK(g) /\ \A i \in seqs : g.pos[i] = p + 1
  BY <1>1, <1>2 DEF FedInto
<1>4. ASSUME seqs = 1 .. n \/ n <= 2, NEW i \in seqs PROVE g.kv[i] = WrittenRows(m.kv[i], p + 1, <<last[i]>>)
  <2>1. PICK a, b \in 1 .. n : seqs = a .. b
    BY <1>4, SideBySide
  <2>2. g.kv[0 + i] = WrittenRows(m.kv[0 + i], p + 1, <<last[i]>>)
    BY <1>1, <2>1, Zenon DEF FedInto
  <2> QED
    BY <1>2, <2>2
<1>5. AloneFed(g, m, n, seqs, p)
  BY <1>3, <1>4 DEF AloneFed
<1> QED
  BY <1>5 DEF g

LEMMA TwinsApart ==
  /\ \A n \in Nat : \A i \in 1 .. n : 0 + i = i
  /\ \A n \in Nat : \A i, j \in 1 .. n : n + i # 0 + j /\ i # n + j
  /\ \A n \in Nat : \A a, b, i \in 1 .. n : n + i \notin 0 + a .. 0 + b /\ i \notin n + a .. n + b
  /\ \A n, k \in Nat : n + n <= k => \A i \in 1 .. n : i \in 1 .. k /\ n + i \in 1 .. k
OBVIOUS

LEMMA FeedsInTurn ==
  ASSUME NEW m, LmOK(m), NEW n \in Nat, NEW seqs \in SUBSET (1 .. n), seqs # {},
         n + n <= KvSets, NEW p \in Nat, p < MaxSeq,
         \A i \in seqs : m.pos[i] = p /\ m.pos[n + i] = p,
         NEW head, batch.direct \in BOOLEAN
  PROVE  TwinsFed(Fed(Fed(m, seqs, 0, head), seqs, n, head), m, n, seqs, p)
<1> DEFINE f == Fed(m, seqs, 0, head)
           g == Fed(f, seqs, n, head)
<1>1. KvSets \in Nat
  BY LmAssumption
<1>2. \A i \in seqs : /\ 0 + i = i /\ i \in 1 .. KvSets /\ n + i \in 1 .. KvSets
                      /\ \A j \in seqs : n + i # 0 + j /\ i # n + j
  BY <1>1, TwinsApart, Zenon
<1>3. FedInto(f, m, n, seqs, 0, p)
  <2>1. 0 \in Nat /\ 0 + n <= KvSets
    BY <1>1
  <2>2. \A i \in seqs : m.pos[0 + i] = p
    BY <1>2
  <2> QED
    BY <2>1, <2>2, Feeds
<1> HIDE DEF f
<1>4. LmOK(f) /\ \A i \in seqs : f.pos[i] = p + 1 /\ f.pos[n + i] = p
  <2>1. \A i \in seqs : f.pos[n + i] = m.pos[n + i]
    BY <1>2, <1>3, Zenon DEF FedInto
  <2> QED
    BY <1>2, <1>3, <2>1 DEF FedInto
<1>5. FedInto(g, f, n, seqs, n, p)
  <2>1. \A i \in seqs : f.pos[n + i] = p
    BY <1>4
  <2> QED
    BY <1>4, <2>1, Feeds
<1> HIDE DEF g
<1>6. LmOK(g) /\ \A i \in seqs : g.pos[i] = p + 1 /\ g.pos[n + i] = p + 1
  <2>1. \A i \in seqs : g.pos[i] = f.pos[i]
    BY <1>2, <1>5, Zenon DEF FedInto
  <2> QED
    BY <1>4, <1>5, <2>1 DEF FedInto
<1>7. ASSUME seqs = 1 .. n \/ n <= 2, NEW i \in seqs
      PROVE  /\ g.kv[i] = WrittenRows(m.kv[i], p + 1, <<last[i]>>)
             /\ g.kv[n + i] = WrittenRows(m.kv[n + i], p + 1, <<last[i]>>)
  <2>1. PICK a, b \in 1 .. n : seqs = a .. b
    BY <1>7, SideBySide
  <2>2. f.kv[0 + i] = WrittenRows(m.kv[0 + i], p + 1, <<last[i]>>)
    BY <1>3, <2>1, Zenon DEF FedInto
  <2>3. f.kv[n + i] = m.kv[n + i]
    <3>1. n + i \notin 0 + a .. 0 + b
      BY TwinsApart, Zenon
    <3>2. \A s \in 1 .. KvSets : s \notin 0 + a .. 0 + b => f.kv[s] = m.kv[s]
      BY <1>3, <2>1, Zenon DEF FedInto
    <3> QED
      BY <3>1, <3>2, <1>2, Zenon
  <2>4. g.kv[n + i] = WrittenRows(f.kv[n + i], p + 1, <<last[i]>>)
    BY <1>5, <2>1, Zenon DEF FedInto
  <2>5. g.kv[i] = f.kv[i]
    <3>1. i \notin n + a .. n + b
      BY TwinsApart, Zenon
    <3>2. \A s \in 1 .. KvSets : s \notin n + a .. n + b => g.kv[s] = f.kv[s]
      BY <1>5, <2>1, Zenon DEF FedInto
    <3> QED
      BY <3>1, <3>2, <1>2, Zenon
  <2> QED
    BY <1>2, <2>2, <2>3, <2>4, <2>5
<1>8. TwinsFed(g, m, n, seqs, p)
  BY <1>6, <1>7, Zenon DEF TwinsFed
<1> QED
  BY <1>8 DEF f, g

-----------------------------------------------------------------------------
(* The phases of a call.                                                     *)

\* There is room for every sequence and its twin.
LEMMA SizeOf ==
  ASSUME NEW b \in LmCalls, Accepted(b)
  PROVE  LET n == Len(b.reqs)
         IN  /\ n \in Nat /\ n >= 1 /\ n + n <= KvSets /\ n <= KvSets
             /\ DOMAIN b.reqs = 1 .. n /\ b.direct \in BOOLEAN
<1>1. Len(b.reqs) \in 1 .. MaxBatch
  BY DEF Accepted
<1>2. MaxBatch \in Nat /\ KvSets = MaxBatch + MaxBatch
  <2>1. MaxBatch \in Nat /\ KvSets = 2 * MaxBatch
    BY BoundsAssumption, SetsAssumption
  <2> QED
    BY <2>1
<1>3. DOMAIN b.reqs = 1 .. Len(b.reqs)
  <2>1. b.reqs \in Seq(LmRequests)
    BY DEF LmCalls
  <2> QED
    BY <2>1, LenProperties
<1>4. b.direct \in BOOLEAN
  BY DEF LmCalls
<1> QED
  BY <1>1, <1>2, <1>3, <1>4

LEMMA CallSize ==
  ASSUME CallInv, stage \in Phases
  PROVE  /\ N \in Nat /\ N >= 1 /\ N + N <= KvSets /\ N <= KvSets /\ Seqs = 1 .. N
         /\ batch.direct \in BOOLEAN
<1>1. batch \in LmCalls /\ Accepted(batch)
  BY DEF CallInv
<1> QED
  BY <1>1, SizeOf DEF Seqs, N

InPhase1 == stage \in {"first1", "phase1"}
InPhase2 == stage \in {"first2", "decode2"}
AtFirst == stage \in {"first1", "first2"}

\* The sequences that go on have as many tokens as there were steps.
SeqInv ==
    InPhase1 \/ InPhase2 =>
        /\ done \in [Seqs -> BOOLEAN]
        /\ step \in Nat
        /\ AtFirst => step = 0 /\ \A i \in Seqs : ~done[i] /\ gen[i] = <<>>
        /\ ~AtFirst => \A i \in Active :
              IsSeq(gen[i]) /\ Len(gen[i]) = step + 1 /\ last[i] = gen[i][step + 1]

\* Their sets have a row for the prompt and one for each step.
PosInv ==
    /\ LmOK(lm)
    /\ stage # "exited"
    /\ InPhase1 => \A i \in Seqs :
          lm.pos[i] = step + 1 /\ (FillCfg(batch) => lm.pos[N + i] = step + 1)
    /\ InPhase2 => \A i \in Active :
          lm.pos[i] = step + 1 /\ (batch.cfg => lm.pos[N + i] = step + 1)

\* These rows are their own.
OwnRowsIn(i, set, prompt) ==
    lm.kv[set] = IF AtFirst THEN <<prompt>> ELSE OwnRows(prompt, gen[i])
OwnInv ==
    /\ InPhase1 => \A i \in Active :
          /\ OwnRowsIn(i, i, LmPrompt(batch, Req(i)))
          /\ FillCfg(batch) => OwnRowsIn(i, N + i, LmUncond(Req(i)))
    /\ InPhase2 /\ NamedInOneRun => \A i \in Active :
          /\ OwnRowsIn(i, i, CodesPrompt(aces[i]))
          /\ batch.cfg => OwnRowsIn(i, N + i, CodesUncond)

\* The sequences of seqs have one row more, and both, their unconditional
\* twins; in a run the row is their own last token.
TokensFed(g, m, n, seqs, both, p, run) ==
    /\ LmOK(g)
    /\ \A i \in seqs : g.pos[i] = p + 1 /\ (both => g.pos[n + i] = p + 1)
    /\ run => \A i \in seqs :
          /\ g.kv[i] = WrittenRows(m.kv[i], p + 1, <<last[i]>>)
          /\ both => g.kv[n + i] = WrittenRows(m.kv[n + i], p + 1, <<last[i]>>)

LEMMA Fed1Feeds ==
  ASSUME CallInv, PosInv, stage = "phase1", step \in Nat, step < MaxNew
  PROVE  TokensFed(Fed1, lm, N, Seqs, FillCfg(batch), step + 1, TRUE)
<1>1. /\ N \in Nat /\ N >= 1 /\ N + N <= KvSets /\ N <= KvSets /\ Seqs = 1 .. N
      /\ batch.direct \in BOOLEAN
  BY CallSize DEF Phases
<1>2. LmOK(lm) /\ \A i \in Seqs : lm.pos[i] = step + 1
                                  /\ (FillCfg(batch) => lm.pos[N + i] = step + 1)
  BY DEF PosInv, InPhase1
<1>3. batch.direct \in BOOLEAN
  BY <1>1
<1>4. step + 1 \in Nat /\ step + 1 < MaxSeq
  BY BoundsAssumption, LmAssumption
<1>5. Seqs # {} /\ Seqs \in SUBSET (1 .. N)
  <2>1. 1 \in Seqs
    BY <1>1
  <2> QED
    BY <2>1, <1>1
<1> DEFINE n == N
           p == step + 1
           seqs == Seqs
           both == FillCfg(batch)
<1>6. n \in Nat /\ p \in Nat /\ p < MaxSeq /\ seqs \in SUBSET (1 .. n) /\ seqs # {}
      /\ n + n <= KvSets /\ n <= KvSets /\ N = n
      /\ (\A i \in seqs : lm.pos[i] = p) /\ (both => \A i \in seqs : lm.pos[n + i] = p)
  BY <1>1, <1>2, <1>4, <1>5
<1>7. seqs = 1 .. n
  BY <1>1
<1> HIDE DEF n, p, seqs
<1>8. CASE both
  <2>1. BothFed(FedBoth(lm, seqs, "full"), lm, n, seqs, p)
    <3>1. \A i \in seqs : lm.pos[i] = p /\ lm.pos[n + i] = p
      BY <1>6, <1>8
    <3> QED
      BY <1>2, <1>6, <1>3, <3>1, FeedsBoth
  <2> QED
    BY <1>7, <1>8, <2>1, Zenon DEF Fed1, n, p, seqs, TokensFed, BothFed
<1>9. CASE ~both
  <2>1. AloneFed(Fed(lm, seqs, 0, "full"), lm, n, seqs, p)
    <3>1. \A i \in seqs : lm.pos[i] = p
      BY <1>6
    <3> QED
      BY <1>2, <1>6, <1>3, <3>1, FeedsAlone
  <2>2. both = FALSE
    BY <1>9 DEF FillCfg, GenLyrics
  <2> QED
    BY <1>7, <1>9, <2>1, Zenon DEF Fed1, n, p, seqs, TokensFed, AloneFed
<1> QED
  BY <1>8, <1>9

LEMMA Fed2Feeds ==
  ASSUME CallInv, PosInv, stage = "decode2", step \in Nat, step < MaxCodes, Active # {}
  PROVE  TokensFed(Fed2, lm, N, Active, batch.cfg, step + 1, NamedInOneRun)
<1>1. /\ N \in Nat /\ N >= 1 /\ N + N <= KvSets /\ N <= KvSets /\ Seqs = 1 .. N
      /\ batch.direct \in BOOLEAN
  BY CallSize DEF Phases
<1>2. LmOK(lm) /\ \A i \in Active : lm.pos[i] = step + 1
                                    /\ (batch.cfg => lm.pos[N + i] = step + 1)
  BY DEF PosInv, InPhase2
<1>3. step + 1 \in Nat /\ step + 1 < MaxSeq
  BY BoundsAssumption, LmAssumption
<1>4. Active \in SUBSET (1 .. N)
  BY <1>1 DEF Active
<1> DEFINE n == N
           p == step + 1
           run == NamedInOneRun
           seqs == Active
<1>5. n \in Nat /\ p \in Nat /\ p < MaxSeq /\ seqs \in SUBSET (1 .. n) /\ seqs # {}
      /\ n + n <= KvSets /\ n <= KvSets /\ N = n
      /\ (\A i \in seqs : lm.pos[i] = p) /\ (batch.cfg => \A i \in seqs : lm.pos[n + i] = p)
  BY <1>1, <1>2, <1>3, <1>4
<1>6. /\ run => seqs = 1 .. n \/ n <= 2
      /\ batch.cfg /\ ~batch.split => (run => seqs = 1 .. n)
  BY <1>1 DEF NamedInOneRun
<1> HIDE DEF n, p, run, seqs
<1>7. CASE ~batch.cfg
  <2>1. AloneFed(Fed(lm, seqs, 0, "codes"), lm, n, seqs, p)
    <3>1. \A i \in seqs : lm.pos[i] = p
      BY <1>5
    <3> QED
      BY <1>1, <1>2, <1>5, <3>1, FeedsAlone
  <2> QED
    BY <1>6, <1>7, <2>1, Zenon DEF Fed2, n, p, run, seqs, TokensFed, AloneFed
<1>8. CASE batch.cfg /\ batch.split
  <2>1. TwinsFed(Fed(Fed(lm, seqs, 0, "codes"), seqs, n, "codes"), lm, n, seqs, p)
    <3>1. \A i \in seqs : lm.pos[i] = p /\ lm.pos[n + i] = p
      BY <1>5, <1>8
    <3> QED
      BY <1>1, <1>2, <1>5, <3>1, FeedsInTurn
  <2> QED
    BY <1>6, <1>8, <2>1, Zenon DEF Fed2, n, p, run, seqs, TokensFed, TwinsFed
<1>9. CASE batch.cfg /\ ~batch.split
  <2>1. BothFed(FedBoth(lm, seqs, "codes"), lm, n, seqs, p)
    <3>1. \A i \in seqs : lm.pos[i] = p /\ lm.pos[n + i] = p
      BY <1>5, <1>9
    <3> QED
      BY <1>1, <1>2, <1>5, <3>1, FeedsBoth
  <2> QED
    BY <1>6, <1>9, <2>1, Zenon DEF Fed2, n, p, run, seqs, TokensFed, BothFed
<1> QED
  BY <1>7, <1>8, <1>9

\* Rows grow with the token that is fed, which is the last one so far.
LEMMA OwnRowsGrow ==
  ASSUME NEW prompt, NEW g, IsSeq(g), NEW p \in Nat, p > 0, Len(g) = p, NEW t
  PROVE  WrittenRows(OwnRows(prompt, g), p + 1, <<g[p]>>) = OwnRows(prompt, Append(g, t))
<1> DEFINE r == OwnRows(prompt, g)
           a == Append(g, t)
<1>1. r = [j \in 1 .. p |-> IF j = 1 THEN prompt ELSE g[j - 1]]
  BY DEF OwnRows
<1>2. IsSeq(r) /\ Len(r) = p
  <2> HIDE DEF r
  <2>1. r = [j \in 1 .. p |-> r[j]]
    BY <1>1
  <2> QED
    BY <2>1, FunctionIsSeq
<1>3. Len(a) = p + 1 /\ a = [j \in 1 .. p + 1 |-> IF j = p + 1 THEN t ELSE g[j]]
  <2>1. Len(a) = Len(g) + 1 /\ a = [j \in 1 .. Len(g) + 1 |-> IF j = Len(g) + 1 THEN t ELSE g[j]]
    BY AppendIsSeq
  <2> HIDE DEF a
  <2> QED
    BY <2>1
<1>4. OwnRows(prompt, a) = [j \in 1 .. p + 1 |-> IF j = 1 THEN prompt ELSE a[j - 1]]
  <2> HIDE DEF a
  <2> QED
    BY <1>3 DEF OwnRows
<1> HIDE DEF r, a
<1>5. WrittenRows(r, p + 1, <<g[p]>>) = Append(r, g[p])
  BY <1>2, WrittenBehind
<1>6. Append(r, g[p]) = [j \in 1 .. p + 1 |-> IF j = p + 1 THEN g[p] ELSE r[j]]
  <2>1. Append(r, g[p]) = [j \in 1 .. Len(r) + 1 |-> IF j = Len(r) + 1 THEN g[p] ELSE r[j]]
    BY <1>2, AppendIsSeq
  <2> QED
    BY <2>1, <1>2
<1>7. ASSUME NEW j \in 1 .. p + 1
      PROVE  (IF j = p + 1 THEN g[p] ELSE r[j]) = IF j = 1 THEN prompt ELSE a[j - 1]
  <2>1. CASE j = p + 1
    <3>1. j # 1 /\ j - 1 = p /\ p \in 1 .. p + 1 /\ p # p + 1
      BY <2>1
    <3> QED
      BY <3>1, <2>1, <1>3
  <2>2. CASE j # p + 1
    <3>1. j \in 1 .. p
      BY <2>2
    <3>2. r[j] = IF j = 1 THEN prompt ELSE g[j - 1]
      BY <3>1, <1>1
    <3>3. CASE j = 1
      BY <3>2, <3>3, <2>2
    <3>4. CASE j # 1
      <4>1. j - 1 \in 1 .. p + 1 /\ j - 1 # p + 1
        BY <3>1, <3>4
      <4>2. a[j - 1] = g[j - 1]
        BY <4>1, <1>3
      <4> QED
        BY <3>2, <3>4, <4>2, <2>2
    <3> QED
      BY <3>3, <3>4
  <2> QED
    BY <2>1, <2>2
<1>8. Append(r, g[p]) = OwnRows(prompt, a)
  BY <1>4, <1>6, <1>7
<1> QED
  BY <1>5, <1>8 DEF r, a

LEMMA FirstOwnRow ==
  ASSUME NEW prompt, NEW t
  PROVE  /\ OwnRows(prompt, Append(<<>>, t)) = <<prompt>>
         /\ IsSeq(Append(<<>>, t)) /\ Len(Append(<<>>, t)) = 1 /\ Append(<<>>, t)[1] = t
<1> DEFINE a == Append(<<>>, t)
<1>1. IsSeq(a) /\ Len(a) = 0 + 1 /\ a = [j \in 1 .. 0 + 1 |-> IF j = 0 + 1 THEN t ELSE <<>>[j]]
  <2>1. /\ IsSeq(a) /\ Len(a) = Len(<<>>) + 1
        /\ a = [j \in 1 .. Len(<<>>) + 1 |-> IF j = Len(<<>>) + 1 THEN t ELSE <<>>[j]]
    BY EmptyIsSeq, AppendIsSeq
  <2> HIDE DEF a
  <2> QED
    BY <2>1, EmptyIsSeq
<1> HIDE DEF a
<1>2. Len(a) = 1 /\ a[1] = t
  BY <1>1
<1>3. OwnRows(prompt, a) = [j \in 1 .. 1 |-> IF j = 1 THEN prompt ELSE a[j - 1]]
  BY <1>2 DEF OwnRows
<1>4. \A j \in 1 .. 1 : (IF j = 1 THEN prompt ELSE a[j - 1]) = prompt
  OBVIOUS
<1>5. OwnRows(prompt, a) = [j \in 1 .. 1 |-> prompt]
  BY <1>3, <1>4
<1>6. <<prompt>> = [j \in 1 .. 1 |-> prompt]
  BY SingleIsSeq
<1> QED
  BY <1>1, <1>2, <1>5, <1>6 DEF a

\* The tokens of a step are taken in.
TakenIn ==
    /\ done' \in [Seqs -> BOOLEAN]
    /\ \A i \in Seqs : ~done'[i] =>
          /\ ~done[i]
          /\ gen'[i] = Append(gen[i], last'[i])

LEMMA TakesIn1 ==
  ASSUME done \in [Seqs -> BOOLEAN], NEW tok, Sampled1(tok)
  PROVE  TakenIn
<1> DEFINE ends(i) == tok[i] = EndOfTurn
           closes(i) == tok[i] = EndOfThought /\ ~inCodes[i]
           stops(i) == closes(i) /\ StopAtReasoning(batch)
<1>1. /\ gen' = [i \in Seqs |-> IF done[i] \/ ends(i) THEN gen[i] ELSE Append(gen[i], tok[i])]
      /\ done' = [i \in Seqs |-> done[i] \/ ends(i) \/ stops(i)]
      /\ last' = [i \in Seqs |->
                    IF done[i] \/ (stops(i) /\ stage = "phase1") THEN last[i] ELSE tok[i]]
  BY Zenon DEF Sampled1
<1> HIDE DEF ends, stops
<1>2. ASSUME NEW i \in Seqs, ~done'[i]
      PROVE  ~done[i] /\ ~ends(i) /\ ~stops(i)
  BY <1>1, <1>2
<1>3. \A i \in Seqs : ~done'[i] => ~done[i] /\ gen'[i] = Append(gen[i], last'[i])
  BY <1>1, <1>2
<1>4. done' \in [Seqs -> BOOLEAN]
  <2>1. \A i \in Seqs : (done[i] \/ ends(i) \/ stops(i)) \in BOOLEAN
    BY Zenon
  <2> QED
    BY <2>1, <1>1, Zenon
<1> QED
  BY <1>3, <1>4 DEF TakenIn

LEMMA TakesIn2 ==
  ASSUME done \in [Seqs -> BOOLEAN], NEW tok, Sampled2(tok)
  PROVE  TakenIn
<1>1. /\ gen' = [i \in Seqs |->
                    IF done[i] \/ tok[i] = EndOfTurn THEN gen[i] ELSE Append(gen[i], tok[i])]
      /\ done' = [i \in Seqs |-> done[i] \/ tok[i] = EndOfTurn]
      /\ last' = [i \in Seqs |-> IF done[i] THEN last[i] ELSE tok[i]]
  BY Zenon DEF Sampled2
<1>2. ASSUME NEW i \in Seqs, ~done'[i]
      PROVE  ~done[i] /\ tok[i] # EndOfTurn
  BY <1>1, <1>2
<1>3. \A i \in Seqs : ~done'[i] => ~done[i] /\ gen'[i] = Append(gen[i], last'[i])
  BY <1>1, <1>2
<1>4. done' \in [Seqs -> BOOLEAN]
  <2>1. \A i \in Seqs : (done[i] \/ tok[i] = EndOfTurn) \in BOOLEAN
    BY Zenon
  <2> QED
    BY <2>1, <1>1, Zenon
<1> QED
  BY <1>3, <1>4 DEF TakenIn

\* A sequence never comes back.
LEMMA ActiveShrinks ==
  ASSUME TakenIn, batch' = batch
  PROVE  /\ N' = N /\ Seqs' = Seqs
         /\ \A i \in Active' : i \in Seqs /\ i \in Active /\ ~done'[i] /\ ~done[i]
         /\ NamedInOneRun' => NamedInOneRun
<1>1. N' = N /\ Seqs' = Seqs
  BY DEF N, Seqs
<1>2. \A i \in Active' : i \in Seqs /\ i \in Active /\ ~done'[i] /\ ~done[i]
  BY <1>1 DEF Active, TakenIn
<1>3. Active' = Seqs => Active = Seqs
  <2>1. Active \subseteq Seqs
    BY DEF Active
  <2> QED
    BY <2>1, <1>2
<1> QED
  BY <1>1, <1>2, <1>3 DEF NamedInOneRun

LEMMA FirstTaken ==
  ASSUME CallInv, SeqInv, First1 \/ First2
  PROVE  /\ TakenIn /\ batch' = batch /\ aces' = aces /\ lm' = lm /\ step' = step /\ step = 0
         /\ \/ stage = "first1" /\ stage' = "phase1"
            \/ stage = "first2" /\ stage' = "decode2"
         /\ \A i \in Seqs : gen[i] = <<>>
<1>1. CASE First1
  <2>1. stage = "first1" /\ stage' = "phase1" /\ batch' = batch /\ aces' = aces /\ lm' = lm /\ step' = step
    BY <1>1 DEF First1
  <2>2. done \in [Seqs -> BOOLEAN] /\ step = 0 /\ \A i \in Seqs : gen[i] = <<>>
    BY <2>1 DEF SeqInv, InPhase1, AtFirst
  <2>3. TakenIn
    BY <1>1, <2>2, TakesIn1 DEF First1
  <2> QED
    BY <2>1, <2>2, <2>3
<1>2. CASE First2
  <2>1. stage = "first2" /\ stage' = "decode2" /\ batch' = batch /\ aces' = aces /\ lm' = lm /\ step' = step
    BY <1>2 DEF First2, Sampled2
  <2>2. done \in [Seqs -> BOOLEAN] /\ step = 0 /\ \A i \in Seqs : gen[i] = <<>>
    BY <2>1 DEF SeqInv, InPhase2, AtFirst
  <2>3. TakenIn
    BY <1>2, <2>2, TakesIn2 DEF First2
  <2> QED
    BY <2>1, <2>2, <2>3
<1> QED
  BY <1>1, <1>2

LEMMA FirstKeeps ==
  ASSUME CallInv, SeqInv, PosInv, OwnInv, First1 \/ First2
  PROVE  SeqInv' /\ PosInv' /\ OwnInv'
<1>1. /\ TakenIn /\ batch' = batch /\ aces' = aces /\ lm' = lm /\ step' = step /\ step = 0
      /\ \/ stage = "first1" /\ stage' = "phase1"
         \/ stage = "first2" /\ stage' = "decode2"
      /\ \A i \in Seqs : gen[i] = <<>>
  BY FirstTaken
<1>2. /\ N' = N /\ Seqs' = Seqs
      /\ \A i \in Active' : i \in Seqs /\ i \in Active /\ ~done'[i] /\ ~done[i]
      /\ NamedInOneRun' => NamedInOneRun
  BY <1>1, ActiveShrinks
<1>3. AtFirst /\ ~AtFirst' /\ (InPhase1' => InPhase1) /\ (InPhase2' => InPhase2)
      /\ (InPhase1 \/ InPhase2) /\ stage' # "exited"
  BY <1>1 DEF AtFirst, InPhase1, InPhase2
<1>4. ASSUME NEW i \in Active'
      PROVE  /\ IsSeq(gen'[i]) /\ Len(gen'[i]) = 1 /\ last'[i] = gen'[i][1]
             /\ \A prompt : OwnRows(prompt, gen'[i]) = <<prompt>>
  <2>1. gen'[i] = Append(<<>>, last'[i])
    BY <1>1, <1>2 DEF TakenIn
  <2> QED
    BY <2>1, FirstOwnRow
<1>5. SeqInv'
  <2>1. step' = 0 /\ step' + 1 = 1 /\ step' \in Nat
    BY <1>1
  <2>2. done' \in [Seqs -> BOOLEAN]
    BY <1>1 DEF TakenIn
  <2> QED
    BY <2>1, <2>2, <1>2, <1>3, <1>4 DEF SeqInv
<1>6. PosInv'
  BY <1>1, <1>2, <1>3 DEF PosInv
<1>7. ASSUME NEW i \in Active', NEW set, NEW prompt, OwnRowsIn(i, set, prompt)
      PROVE  lm'.kv[set] = OwnRows(prompt, gen'[i])
  BY <1>1, <1>3, <1>4, <1>7 DEF OwnRowsIn
<1>8. OwnInv'
  <2>1. ASSUME InPhase1', NEW i \in Active'
        PROVE  /\ lm'.kv[i] = OwnRows(LmPrompt(batch, Req(i))', gen'[i])
               /\ FillCfg(batch)' => lm'.kv[N' + i] = OwnRows(LmUncond(Req(i))', gen'[i])
    <3>1. /\ LmPrompt(batch, Req(i))' = LmPrompt(batch, Req(i))
          /\ FillCfg(batch)' = FillCfg(batch) /\ LmUncond(Req(i))' = LmUncond(Req(i))
      BY <1>1 DEF LmPrompt, FillCfg, LmUncond, Req
    <3>2. /\ OwnRowsIn(i, i, LmPrompt(batch, Req(i)))
          /\ FillCfg(batch) => OwnRowsIn(i, N + i, LmUncond(Req(i)))
      BY <1>2, <1>3, <2>1 DEF OwnInv
    <3> QED
      BY <3>1, <3>2, <1>2, <1>7
  <2>2. ASSUME InPhase2', NamedInOneRun', NEW i \in Active'
        PROVE  /\ lm'.kv[i] = OwnRows(CodesPrompt(aces[i])', gen'[i])
               /\ batch'.cfg => lm'.kv[N' + i] = OwnRows(CodesUncond, gen'[i])
    <3>1. CodesPrompt(aces[i])' = CodesPrompt(aces[i]) /\ batch'.cfg = batch.cfg
      BY <1>1 DEF CodesPrompt
    <3>2. /\ OwnRowsIn(i, i, CodesPrompt(aces[i]))
          /\ batch.cfg => OwnRowsIn(i, N + i, CodesUncond)
      BY <1>2, <1>3, <2>2 DEF OwnInv
    <3> QED
      BY <3>1, <3>2, <1>2, <1>7
  <2> QED
    BY <2>1, <2>2, <1>3 DEF OwnInv, OwnRowsIn
<1> QED
  BY <1>5, <1>6, <1>8

\* A decode step: the last tokens are fed, the next ones taken in.
LEMMA DecodeTaken ==
  ASSUME CallInv, SeqInv, PosInv, Decode1 \/ Decode2
  PROVE  /\ TakenIn /\ batch' = batch /\ aces' = aces /\ step' = step + 1 /\ step \in Nat
         /\ \A i \in Active :
               IsSeq(gen[i]) /\ Len(gen[i]) = step + 1 /\ last[i] = gen[i][step + 1]
         /\ stage' = IF lm'.exited THEN "exited" ELSE stage
         /\ \/ stage = "phase1" /\ TokensFed(lm', lm, N, Seqs, FillCfg(batch), step + 1, TRUE)
            \/ stage = "decode2" /\ TokensFed(lm', lm, N, Active, batch.cfg, step + 1, NamedInOneRun)
<1>1. CASE Decode1
  <2>1. /\ stage = "phase1" /\ batch' = batch /\ aces' = aces /\ step' = step + 1
        /\ lm' = Fed1 /\ step < MaxNew /\ stage' = IF lm'.exited THEN "exited" ELSE stage
    BY <1>1 DEF Decode1
  <2>2. /\ done \in [Seqs -> BOOLEAN] /\ step \in Nat
        /\ \A i \in Active :
              IsSeq(gen[i]) /\ Len(gen[i]) = step + 1 /\ last[i] = gen[i][step + 1]
    BY <2>1 DEF SeqInv, InPhase1, AtFirst
  <2>3. TakenIn
    BY <1>1, <2>2, TakesIn1 DEF Decode1
  <2>4. TokensFed(lm', lm, N, Seqs, FillCfg(batch), step + 1, TRUE)
    BY <2>1, <2>2, Fed1Feeds
  <2> QED
    BY <2>1, <2>2, <2>3, <2>4
<1>2. CASE Decode2
  <2>1. /\ stage = "decode2" /\ step' = step + 1 /\ Active # {}
        /\ lm' = Fed2 /\ step < MaxCodes /\ stage' = IF lm'.exited THEN "exited" ELSE stage
    BY <1>2 DEF Decode2
  <2>2. /\ done \in [Seqs -> BOOLEAN] /\ step \in Nat
        /\ \A i \in Active :
              IsSeq(gen[i]) /\ Len(gen[i]) = step + 1 /\ last[i] = gen[i][step + 1]
    BY <2>1 DEF SeqInv, InPhase2, AtFirst
  <2>3. TakenIn /\ batch' = batch /\ aces' = aces
    BY <1>2, <2>2, TakesIn2 DEF Decode2, Sampled2
  <2>4. TokensFed(lm', lm, N, Active, batch.cfg, step + 1, NamedInOneRun)
    BY <2>1, <2>2, Fed2Feeds
  <2> QED
    BY <2>1, <2>2, <2>3, <2>4
<1> QED
  BY <1>1, <1>2

LEMMA DecodeKeeps ==
  ASSUME CallInv, SeqInv, PosInv, OwnInv, Decode1 \/ Decode2
  PROVE  SeqInv' /\ PosInv' /\ OwnInv'
<1>1. /\ TakenIn /\ batch' = batch /\ aces' = aces /\ step' = step + 1 /\ step \in Nat
      /\ \A i \in Active :
            IsSeq(gen[i]) /\ Len(gen[i]) = step + 1 /\ last[i] = gen[i][step + 1]
      /\ stage' = IF lm'.exited THEN "exited" ELSE stage
      /\ \/ stage = "phase1" /\ TokensFed(lm', lm, N, Seqs, FillCfg(batch), step + 1, TRUE)
         \/ stage = "decode2" /\ TokensFed(lm', lm, N, Active, batch.cfg, step + 1, NamedInOneRun)
  BY DecodeTaken
<1>2. /\ N' = N /\ Seqs' = Seqs
      /\ \A i \in Active' : i \in Seqs /\ i \in Active /\ ~done'[i] /\ ~done[i]
      /\ NamedInOneRun' => NamedInOneRun
  BY <1>1, ActiveShrinks
<1>3. LmOK(lm')
  BY <1>1 DEF TokensFed
<1>4. stage' = stage /\ stage # "exited"
  BY <1>1, <1>3 DEF LmOK
<1>5. ~AtFirst /\ ~AtFirst' /\ (InPhase1' => stage = "phase1") /\ (InPhase2' => stage = "decode2")
      /\ (InPhase1 \/ InPhase2)
  BY <1>1, <1>4 DEF AtFirst, InPhase1, InPhase2
<1>6. ASSUME NEW i \in Active'
      PROVE  /\ IsSeq(gen'[i]) /\ Len(gen'[i]) = step' + 1 /\ last'[i] = gen'[i][step' + 1]
             /\ gen'[i] = Append(gen[i], last'[i])
  <2>1. gen'[i] = Append(gen[i], last'[i])
    BY <1>1, <1>2 DEF TakenIn
  <2>2. IsSeq(gen[i]) /\ Len(gen[i]) = step + 1
    BY <1>1, <1>2
  <2>3. /\ IsSeq(gen'[i]) /\ Len(gen'[i]) = Len(gen[i]) + 1
        /\ gen'[i] = [j \in 1 .. Len(gen[i]) + 1 |-> IF j = Len(gen[i]) + 1 THEN last'[i] ELSE gen[i][j]]
    BY <2>1, <2>2, AppendIsSeq
  <2>4. step' + 1 = Len(gen[i]) + 1 /\ step' + 1 \in 1 .. Len(gen[i]) + 1
    BY <2>2, <1>1
  <2>5. gen'[i][step' + 1] = last'[i]
    BY <2>3, <2>4, Zenon
  <2> QED
    BY <2>1, <2>3, <2>4, <2>5
<1>7. SeqInv'
  <2>1. step' \in Nat
    BY <1>1
  <2>2. done' \in [Seqs -> BOOLEAN]
    BY <1>1 DEF TakenIn
  <2> QED
    BY <2>1, <2>2, <1>2, <1>5, <1>6 DEF SeqInv
<1>8. PosInv'
  <2>1. ASSUME InPhase1', NEW i \in Seqs
        PROVE  lm'.pos[i] = step' + 1 /\ (FillCfg(batch)' => lm'.pos[N + i] = step' + 1)
    <3>1. FillCfg(batch)' = FillCfg(batch)
      BY <1>1 DEF FillCfg
    <3>2. TokensFed(lm', lm, N, Seqs, FillCfg(batch), step + 1, TRUE)
      BY <1>1, <1>5, <2>1
    <3> QED
      BY <3>1, <3>2, <1>1 DEF TokensFed
  <2>2. ASSUME InPhase2', NEW i \in Active'
        PROVE  lm'.pos[i] = step' + 1 /\ (batch'.cfg => lm'.pos[N + i] = step' + 1)
    <3>1. TokensFed(lm', lm, N, Active, batch.cfg, step + 1, NamedInOneRun)
      BY <1>1, <1>5, <2>2
    <3> QED
      BY <3>1, <1>1, <1>2 DEF TokensFed
  <2> QED
    BY <2>1, <2>2, <1>2, <1>3, <1>4 DEF PosInv
<1>9. ASSUME NEW i \in Active', NEW set, NEW prompt, OwnRowsIn(i, set, prompt),
             lm'.kv[set] = WrittenRows(lm.kv[set], step + 1 + 1, <<last[i]>>)
      PROVE  lm'.kv[set] = OwnRows(prompt, gen'[i])
  <2> DEFINE g == gen[i]
             p == step + 1
             t == last'[i]
  <2>1. /\ IsSeq(g) /\ Len(g) = p /\ last[i] = g[p] /\ p \in Nat /\ p > 0
        /\ gen'[i] = Append(g, t)
    BY <1>1, <1>2, <1>6
  <2>2. lm.kv[set] = OwnRows(prompt, g)
    BY <1>5, <1>9 DEF OwnRowsIn
  <2> HIDE DEF g, p, t
  <2>3. WrittenRows(OwnRows(prompt, g), p + 1, <<g[p]>>) = OwnRows(prompt, Append(g, t))
    BY <2>1, OwnRowsGrow
  <2>4. lm'.kv[set] = WrittenRows(OwnRows(prompt, g), p + 1, <<g[p]>>)
    BY <1>9, <2>1, <2>2 DEF p
  <2> QED
    BY <2>1, <2>3, <2>4
<1>10. OwnInv'
  <2>1. ASSUME InPhase1', NEW i \in Active'
        PROVE  /\ lm'.kv[i] = OwnRows(LmPrompt(batch, Req(i))', gen'[i])
               /\ FillCfg(batch)' => lm'.kv[N' + i] = OwnRows(LmUncond(Req(i))', gen'[i])
    <3>1. /\ LmPrompt(batch, Req(i))' = LmPrompt(batch, Req(i))
          /\ FillCfg(batch)' = FillCfg(batch) /\ LmUncond(Req(i))' = LmUncond(Req(i))
      BY <1>1 DEF LmPrompt, FillCfg, LmUncond, Req
    <3>2. /\ OwnRowsIn(i, i, LmPrompt(batch, Req(i)))
          /\ FillCfg(batch) => OwnRowsIn(i, N + i, LmUncond(Req(i)))
      BY <1>2, <1>5, <2>1 DEF OwnInv, InPhase1
    <3>3. /\ lm'.kv[i] = WrittenRows(lm.kv[i], step + 1 + 1, <<last[i]>>)
          /\ FillCfg(batch) => lm'.kv[N + i] = WrittenRows(lm.kv[N + i], step + 1 + 1, <<last[i]>>)
      <4>1. TokensFed(lm', lm, N, Seqs, FillCfg(batch), step + 1, TRUE)
        BY <1>1, <1>5, <2>1
      <4>2. i \in Seqs
        BY <1>2
      <4> QED
        BY <4>1, <4>2, Zenon DEF TokensFed
    <3> QED
      BY <3>1, <3>2, <3>3, <1>2, <1>9
  <2>2. ASSUME InPhase2', NamedInOneRun', NEW i \in Active'
        PROVE  /\ lm'.kv[i] = OwnRows(CodesPrompt(aces[i])', gen'[i])
               /\ batch'.cfg => lm'.kv[N' + i] = OwnRows(CodesUncond, gen'[i])
    <3>1. CodesPrompt(aces[i])' = CodesPrompt(aces[i]) /\ batch'.cfg = batch.cfg
      BY <1>1 DEF CodesPrompt
    <3>2. /\ OwnRowsIn(i, i, CodesPrompt(aces[i]))
          /\ batch.cfg => OwnRowsIn(i, N + i, CodesUncond)
      BY <1>2, <1>5, <2>2 DEF OwnInv, InPhase2
    <3>3. /\ lm'.kv[i] = WrittenRows(lm.kv[i], step + 1 + 1, <<last[i]>>)
          /\ batch.cfg => lm'.kv[N + i] = WrittenRows(lm.kv[N + i], step + 1 + 1, <<last[i]>>)
      <4>1. TokensFed(lm', lm, N, Active, batch.cfg, step + 1, NamedInOneRun)
        BY <1>1, <1>5, <2>2
      <4>2. i \in Active /\ NamedInOneRun
        BY <1>2, <2>2
      <4> QED
        BY <4>1, <4>2, Zenon DEF TokensFed
    <3> QED
      BY <3>1, <3>2, <3>3, <1>2, <1>9
  <2> QED
    BY <2>1, <2>2, <1>5 DEF OwnInv, OwnRowsIn
<1> QED
  BY <1>7, <1>8, <1>10

-----------------------------------------------------------------------------
(* The prefills of the phases.                                               *)

LEMMA EqualPrompts ==
  ASSUME NEW prompts, IsSeq(prompts), AllEqual(prompts)
  PROVE  \A i \in 1 .. Len(prompts) : prompts[i] = prompts[1]
<1> DEFINE n == Len(prompts)
<1>1. DOMAIN prompts = 1 .. n
  <2>1. prompts = [j \in 1 .. n |-> prompts[j]]
    BY DEF IsSeq
  <2> HIDE DEF n
  <2> QED
    BY <2>1
<1> QED
  BY <1>1 DEF AllEqual

LEMMA FillsPhase1 ==
  ASSUME LmOK(lm), NEW cond, NEW uncond, IsSeq(cond), IsSeq(uncond),
         Len(cond) + Len(uncond) <= KvSets
  PROVE  FilledBoth(Prefilled(cond, AllEqual(cond), uncond, AllEqual(uncond)), cond, uncond)
<1> DEFINE x == AllEqual(cond)
           y == AllEqual(uncond)
<1>1. /\ x => \A i \in 1 .. Len(cond) : cond[i] = cond[1]
      /\ y => \A i \in 1 .. Len(uncond) : uncond[i] = uncond[1]
  BY EqualPrompts
<1>2. Len(cond) \in Nat /\ Len(uncond) \in Nat
  BY DEF IsSeq
<1> HIDE DEF x, y
<1>3. FilledBoth(Prefilled(cond, x, uncond, y), cond, uncond)
  BY <1>1, <1>2, PrefillsAll
<1> QED
  BY <1>3 DEF x, y

LEMMA FillsPhase2 ==
  ASSUME LmOK(lm), NEW cond, NEW uncond, IsSeq(cond), IsSeq(uncond),
         Len(cond) + Len(uncond) <= KvSets, \A i \in 1 .. Len(uncond) : uncond[i] = uncond[1]
  PROVE  FilledBoth(Prefilled(cond, AllEqual(cond), uncond, AllEqual(cond)), cond, uncond)
<1> DEFINE x == AllEqual(cond)
<1>1. x => \A i \in 1 .. Len(cond) : cond[i] = cond[1]
  BY EqualPrompts
<1>2. x => \A i \in 1 .. Len(uncond) : uncond[i] = uncond[1]
  OBVIOUS
<1>3. Len(cond) \in Nat /\ Len(uncond) \in Nat
  BY DEF IsSeq
<1> HIDE DEF x
<1>4. FilledBoth(Prefilled(cond, x, uncond, x), cond, uncond)
  BY <1>1, <1>2, <1>3, PrefillsAll
<1> QED
  BY <1>4 DEF x

\* What a prefill leaves in the sets.
LEMMA FilledSets ==
  ASSUME NEW g, NEW cond, NEW uncond, FilledBoth(g, cond, uncond), NEW n \in Nat,
         IsSeq(cond), Len(cond) = n, NEW i \in 1 .. n
  PROVE  /\ LmOK(g)
         /\ g.pos[i] = 0 + 1 /\ g.kv[i] = <<cond[i]>>
         /\ Len(uncond) = n => g.pos[n + i] = 0 + 1 /\ g.kv[n + i] = <<uncond[i]>>
<1>1. 0 + i = i /\ 0 + 1 = 1
  OBVIOUS
<1>2. g.pos[0 + i] = 1 /\ g.kv[0 + i] = <<cond[i]>>
  BY Zenon DEF FilledBoth, Prompted
<1>3. Len(uncond) = n => g.pos[n + i] = 1 /\ g.kv[n + i] = <<uncond[i]>>
  BY Zenon DEF FilledBoth, Prompted
<1>4. LmOK(g)
  BY DEF FilledBoth
<1> QED
  BY <1>1, <1>2, <1>3, <1>4

LEMMA Phase1Begins ==
  ASSUME CallInv, PosInv, NEW b, BeginPhase1(b)
  PROVE  SeqInv' /\ PosInv' /\ OwnInv'
<1> DEFINE n == Len(b.reqs)
           cond == [i \in DOMAIN b.reqs |-> LmPrompt(b, b.reqs[i])]
           twins == [i \in DOMAIN b.reqs |-> LmUncond(b.reqs[i])]
           uncond == IF FillCfg(b) THEN twins ELSE <<>>
           g == Prefilled(cond, AllEqual(cond), uncond, AllEqual(uncond))
<1>1. b \in LmCalls /\ Accepted(b) /\ batch' = b
  BY NextCall DEF BeginPhase1, Ready
<1>2. /\ n \in Nat /\ n >= 1 /\ n + n <= KvSets /\ n <= KvSets
      /\ DOMAIN b.reqs = 1 .. n
  BY <1>1, SizeOf
<1>3. /\ lm' = g /\ stage' = "first1" /\ step' = 0
      /\ gen' = [i \in DOMAIN b.reqs |-> <<>>] /\ done' = [i \in DOMAIN b.reqs |-> FALSE]
  BY Zenon DEF BeginPhase1
<1>4. N' = n /\ Seqs' = 1 .. n
  BY <1>1 DEF N, Seqs
<1> HIDE DEF n
<1>5. IsSeq(cond) /\ Len(cond) = n /\ \A i \in 1 .. n : cond[i] = LmPrompt(b, b.reqs[i])
  <2>1. cond = [i \in 1 .. n |-> cond[i]] /\ \A i \in 1 .. n : cond[i] = LmPrompt(b, b.reqs[i])
    BY <1>2
  <2> HIDE DEF cond
  <2> QED
    BY <2>1, <1>2, FunctionIsSeq
<1>6. IsSeq(twins) /\ Len(twins) = n /\ \A i \in 1 .. n : twins[i] = LmUncond(b.reqs[i])
  <2>1. twins = [i \in 1 .. n |-> twins[i]] /\ \A i \in 1 .. n : twins[i] = LmUncond(b.reqs[i])
    BY <1>2
  <2> HIDE DEF twins
  <2> QED
    BY <2>1, <1>2, FunctionIsSeq
<1> HIDE DEF cond, twins
<1>7. IsSeq(uncond) /\ Len(cond) + Len(uncond) <= KvSets /\ (FillCfg(b) => uncond = twins)
  <2>1. CASE FillCfg(b)
    BY <2>1, <1>2, <1>5, <1>6
  <2>2. CASE ~FillCfg(b)
    <3>1. uncond = <<>>
      BY <2>2
    <3> HIDE DEF uncond
    <3>2. IsSeq(uncond) /\ Len(uncond) = 0
      BY <3>1, EmptyIsSeq
    <3>3. n + 0 <= KvSets
      BY <1>2
    <3> QED
      BY <3>2, <3>3, <2>2, <1>5
  <2> QED
    BY <2>1, <2>2
<1>8. FilledBoth(g, cond, uncond)
  <2>1. LmOK(lm)
    BY DEF PosInv
  <2> HIDE DEF uncond
  <2> QED
    BY <2>1, <1>5, <1>7, FillsPhase1
<1> HIDE DEF g, uncond
<1>9. ASSUME NEW i \in 1 .. n
      PROVE  /\ LmOK(g) /\ g.pos[i] = 0 + 1 /\ g.kv[i] = <<LmPrompt(b, b.reqs[i])>>
             /\ FillCfg(b) => g.pos[n + i] = 0 + 1 /\ g.kv[n + i] = <<LmUncond(b.reqs[i])>>
  <2>1. /\ LmOK(g)
        /\ g.pos[i] = 0 + 1 /\ g.kv[i] = <<cond[i]>>
        /\ Len(uncond) = n => g.pos[n + i] = 0 + 1 /\ g.kv[n + i] = <<uncond[i]>>
    BY <1>2, <1>5, <1>8, FilledSets
  <2> QED
    BY <2>1, <1>5, <1>6, <1>7
<1>10. AtFirst' /\ InPhase1' /\ ~InPhase2' /\ stage' # "exited"
  BY <1>3 DEF AtFirst, InPhase1, InPhase2
<1>11. SeqInv'
  <2>1. done' \in [Seqs' -> BOOLEAN] /\ \A i \in Seqs' : ~done'[i] /\ gen'[i] = <<>>
    BY <1>2, <1>3, <1>4
  <2> QED
    BY <2>1, <1>3, <1>10 DEF SeqInv
<1>12. LmOK(g)
  <2>1. 1 \in 1 .. n
    BY <1>2
  <2> QED
    BY <2>1, <1>9
<1>13. PosInv'
  <2>1. ASSUME NEW i \in Seqs'
        PROVE  lm'.pos[i] = step' + 1 /\ (FillCfg(batch)' => lm'.pos[N' + i] = step' + 1)
    <3>1. FillCfg(batch)' = FillCfg(b)
      BY <1>1 DEF FillCfg
    <3> QED
      BY <3>1, <1>3, <1>4, <1>9
  <2> QED
    BY <2>1, <1>3, <1>10, <1>12 DEF PosInv
<1>14. OwnInv'
  <2>1. ASSUME NEW i \in Active'
        PROVE  /\ lm'.kv[i] = <<LmPrompt(batch, Req(i))'>>
               /\ FillCfg(batch)' => lm'.kv[N' + i] = <<LmUncond(Req(i))'>>
    <3>1. FillCfg(batch)' = FillCfg(b)
      BY <1>1 DEF FillCfg
    <3>2. LmPrompt(batch, Req(i))' = LmPrompt(b, b.reqs[i]) /\ LmUncond(Req(i))' = LmUncond(b.reqs[i])
      BY <1>1, Zenon DEF LmPrompt, LmUncond, Req, NeedLyrics
    <3>3. i \in 1 .. n
      BY <1>4 DEF Active
    <3> QED
      BY <3>1, <3>2, <3>3, <1>3, <1>4, <1>9
  <2> QED
    BY <2>1, <1>10 DEF OwnInv, OwnRowsIn
<1> QED
  BY <1>11, <1>13, <1>14

LEMMA Phase2Begins ==
  ASSUME CallInv, PosInv, BeginPhase2
  PROVE  SeqInv' /\ PosInv' /\ OwnInv'
<1> DEFINE n == N
           cond == [i \in Seqs |-> CodesPrompt(aces[i])]
           twins == [i \in Seqs |-> CodesUncond]
           uncond == IF batch.cfg THEN twins ELSE <<>>
           g == Prefilled(cond, AllEqual(cond), uncond, AllEqual(cond))
<1>1. /\ n \in Nat /\ n >= 1 /\ n + n <= KvSets /\ n <= KvSets /\ Seqs = 1 .. n
  BY CallSize DEF BeginPhase2, Phases
<1>2. /\ lm' = g /\ stage' = "first2" /\ step' = 0 /\ batch' = batch /\ aces' = aces
      /\ gen' = [i \in Seqs |-> <<>>] /\ done' = [i \in Seqs |-> FALSE]
  BY Zenon DEF BeginPhase2
<1>3. N' = n /\ Seqs' = 1 .. n
  BY <1>1, <1>2 DEF N, Seqs
<1> HIDE DEF n
<1>4. IsSeq(cond) /\ Len(cond) = n /\ \A i \in 1 .. n : cond[i] = CodesPrompt(aces[i])
  <2>1. cond = [i \in 1 .. n |-> cond[i]] /\ \A i \in 1 .. n : cond[i] = CodesPrompt(aces[i])
    BY <1>1
  <2> HIDE DEF cond
  <2> QED
    BY <2>1, <1>1, FunctionIsSeq
<1>5. IsSeq(twins) /\ Len(twins) = n /\ \A i \in 1 .. n : twins[i] = CodesUncond
  <2>1. twins = [i \in 1 .. n |-> twins[i]] /\ \A i \in 1 .. n : twins[i] = CodesUncond
    BY <1>1
  <2> HIDE DEF twins
  <2> QED
    BY <2>1, <1>1, FunctionIsSeq
<1> HIDE DEF cond, twins
<1>6. /\ IsSeq(uncond) /\ Len(cond) + Len(uncond) <= KvSets /\ (batch.cfg => uncond = twins)
      /\ \A i \in 1 .. Len(uncond) : uncond[i] = uncond[1]
  <2>1. CASE batch.cfg
    <3>1. uncond = twins /\ 1 \in 1 .. n
      BY <2>1, <1>1
    <3> QED
      BY <3>1, <1>1, <1>4, <1>5
  <2>2. CASE ~batch.cfg
    <3>1. uncond = <<>>
      BY <2>2
    <3> HIDE DEF uncond
    <3>2. IsSeq(uncond) /\ Len(uncond) = 0
      BY <3>1, EmptyIsSeq
    <3>3. n + 0 <= KvSets /\ \A i \in 1 .. 0 : FALSE
      BY <1>1
    <3> QED
      BY <3>2, <3>3, <2>2, <1>4
  <2> QED
    BY <2>1, <2>2
<1>7. FilledBoth(g, cond, uncond)
  <2>1. LmOK(lm)
    BY DEF PosInv
  <2> HIDE DEF uncond
  <2> QED
    BY <2>1, <1>4, <1>6, FillsPhase2
<1> HIDE DEF g, uncond
<1>8. ASSUME NEW i \in 1 .. n
      PROVE  /\ LmOK(g) /\ g.pos[i] = 0 + 1 /\ g.kv[i] = <<CodesPrompt(aces[i])>>
             /\ batch.cfg => g.pos[n + i] = 0 + 1 /\ g.kv[n + i] = <<CodesUncond>>
  <2>1. /\ LmOK(g)
        /\ g.pos[i] = 0 + 1 /\ g.kv[i] = <<cond[i]>>
        /\ Len(uncond) = n => g.pos[n + i] = 0 + 1 /\ g.kv[n + i] = <<uncond[i]>>
    BY <1>1, <1>4, <1>7, FilledSets
  <2> QED
    BY <2>1, <1>4, <1>5, <1>6
<1>9. AtFirst' /\ InPhase2' /\ ~InPhase1' /\ stage' # "exited"
  BY <1>2 DEF AtFirst, InPhase1, InPhase2
<1>10. SeqInv'
  <2>1. done' \in [Seqs' -> BOOLEAN] /\ \A i \in Seqs' : ~done'[i] /\ gen'[i] = <<>>
    BY <1>1, <1>2, <1>3
  <2> QED
    BY <2>1, <1>2, <1>9 DEF SeqInv
<1>11. LmOK(g)
  <2>1. 1 \in 1 .. n
    BY <1>1
  <2> QED
    BY <2>1, <1>8
<1>12. \A i \in Active' : i \in 1 .. n
  BY <1>3 DEF Active
<1>13. PosInv'
  <2>1. ASSUME NEW i \in Active'
        PROVE  lm'.pos[i] = step' + 1 /\ (batch'.cfg => lm'.pos[N' + i] = step' + 1)
    BY <1>2, <1>3, <1>8, <1>12
  <2> QED
    BY <2>1, <1>2, <1>9, <1>11 DEF PosInv
<1>14. OwnInv'
  <2>1. ASSUME NEW i \in Active'
        PROVE  /\ lm'.kv[i] = <<CodesPrompt(aces[i])'>>
               /\ batch'.cfg => lm'.kv[N' + i] = <<CodesUncond>>
    <3>1. CodesPrompt(aces[i])' = CodesPrompt(aces[i]) /\ batch'.cfg = batch.cfg
      BY <1>2 DEF CodesPrompt
    <3> QED
      BY <3>1, <1>2, <1>3, <1>8, <1>12
  <2> QED
    BY <2>1, <1>9 DEF OwnInv, OwnRowsIn
<1> QED
  BY <1>10, <1>13, <1>14

-----------------------------------------------------------------------------
(* The understand pass.                                                      *)

LEMMA CommonElements ==
  ASSUME NEW x, NEW y, IsSeq(x), IsSeq(y)
  PROVE  \E S : x \in Seq(S) /\ y \in Seq(S)
<1> DEFINE R == {x[j] : j \in 1 .. Len(x)}
           Q == {y[j] : j \in 1 .. Len(y)}
           S == R \cup Q
<1>1. x \in Seq(R) /\ y \in Seq(Q) /\ R \subseteq S /\ Q \subseteq S
  BY IsSeqInSeq
<1> HIDE DEF R, Q, S
<1> QED
  BY <1>1, SeqMonotonic

LEMMA ConcatGrows ==
  ASSUME NEW x, NEW y, IsSeq(x), IsSeq(y), NEW t
  PROVE  Append(x \o y, t) = x \o Append(y, t)
<1>1. IsSeq(<<t>>)
  BY SingleIsSeq
<1>2. IsSeq(x \o y)
  BY ConcatIsSeq
<1>3. PICK S : x \in Seq(S) /\ y \in Seq(S)
  BY CommonElements
<1> DEFINE U == S \cup {t}
<1>4. x \in Seq(U) /\ y \in Seq(U) /\ t \in U
  <2>1. S \subseteq U /\ t \in U
    OBVIOUS
  <2> HIDE DEF U
  <2> QED
    BY <2>1, <1>3, SeqMonotonic
<1> HIDE DEF U
<1>5. <<t>> \in Seq(U)
  BY <1>4
<1>6. x \o y \in Seq(U)
  BY <1>4, ConcatProperties
<1>7. (x \o y) \o <<t>> = x \o (y \o <<t>>)
  BY <1>4, <1>5, ConcatAssociative
<1>8. Append(x \o y, t) = (x \o y) \o <<t>> /\ Append(y, t) = y \o <<t>>
  BY <1>4, <1>6, AppendIsConcat
<1> QED
  BY <1>7, <1>8

LEMMA ConcatNothing ==
  ASSUME NEW x, IsSeq(x)
  PROVE  x \o <<>> = x
BY IsSeqInSeq, ConcatEmptySeq

\* The answer so far, and the rows it is decoded from.
AnswerInv ==
    stage = "understand" =>
        /\ step \in Nat
        /\ IsSeq(gen[1]) /\ Len(gen[1]) = step
        /\ lm.pos[1] = batch.prompt + step
        /\ lm.kv[1] = SongPrompt(batch) \o gen[1]

LEMMA PromptIsSeq ==
  ASSUME NEW b \in SongCalls
  PROVE  IsSeq(SongPrompt(b)) /\ Len(SongPrompt(b)) = b.prompt /\ b.prompt \in Nat
<1>1. b.prompt \in Nat
  BY DEF SongCalls
<1> DEFINE x == SongPrompt(b)
<1>2. x = [k \in 1 .. b.prompt |-> x[k]]
  BY DEF SongPrompt
<1> HIDE DEF x
<1>3. IsSeq(x) /\ Len(x) = b.prompt
  BY <1>1, <1>2, FunctionIsSeq
<1> QED
  BY <1>1, <1>3 DEF x

LEMMA UnderstandBegins ==
  ASSUME CallInv, PosInv, NEW b, BeginUnderstand(b)
  PROVE  AnswerInv' /\ LmOK(lm')
<1> DEFINE x == SongPrompt(b)
           r == ResetKv(lm, 1)
<1>1. b \in SongCalls /\ batch' = b /\ b.prompt < MaxSeq
  BY NextCall DEF BeginUnderstand, Ready
<1>2. IsSeq(x) /\ Len(x) = b.prompt /\ b.prompt \in Nat
  BY <1>1, PromptIsSeq
<1>3. lm' = Forward(r, 1, x) /\ gen' = << <<>> >> /\ step' = 0
  BY Zenon DEF BeginUnderstand
<1>4. 1 \in 1 .. KvSets /\ MaxSeq \in Nat
  BY LmAssumption
<1>5. LmOK(r) /\ r.pos[1] = 0 /\ r.kv[1] = <<>>
  BY <1>4, ResetsOne DEF PosInv
<1>6. SongPrompt(batch)' = x
  BY <1>1 DEF SongPrompt
<1> HIDE DEF x, r
<1>7. Len(x) <= MaxSeq
  BY <1>1, <1>2, <1>4
<1>8. Put(lm', r, 1, x, Len(x))
  BY <1>2, <1>3, <1>4, <1>5, <1>7, Prefills
<1>9. LmOK(lm') /\ lm'.pos[1] = Len(x) /\ lm'.kv[1] = x
  BY <1>4, <1>8 DEF Put
<1>10. gen'[1] = <<>> /\ IsSeq(gen'[1]) /\ Len(gen'[1]) = 0
  BY <1>3, EmptyIsSeq
<1>11. x \o <<>> = x
  BY <1>2, ConcatNothing
<1>12. b.prompt + 0 = b.prompt /\ batch'.prompt = b.prompt
  BY <1>1, <1>2
<1>13. AnswerInv'
  BY <1>2, <1>3, <1>6, <1>9, <1>10, <1>11, <1>12 DEF AnswerInv
<1> QED
  BY <1>9, <1>13

LEMMA AnswerGoesOn ==
  ASSUME CallInv, PosInv, AnswerInv, AnswerToken
  PROVE  AnswerInv' /\ LmOK(lm') /\ stage' = "understand"
<1>1. /\ stage = "understand" /\ step < Budget(batch) /\ step' = step + 1 /\ batch' = batch
      /\ stage' = IF lm'.exited THEN "exited" ELSE stage
  BY DEF AnswerToken
<1>2. PICK tok : /\ gen' = <<Append(gen[1], tok)>>
                 /\ lm' = ForwardBatch(lm, <<1>>, <<tok>>, "full", batch.direct)
  BY DEF AnswerToken
<1>3. batch \in SongCalls /\ batch.direct \in BOOLEAN
  BY <1>1 DEF CallInv, SongCalls
<1> DEFINE x == SongPrompt(batch)
           g == gen[1]
           p == batch.prompt + step
<1>4. IsSeq(x) /\ Len(x) = batch.prompt /\ batch.prompt \in Nat
  BY <1>3, PromptIsSeq
<1>5. step \in Nat /\ IsSeq(g) /\ Len(g) = step /\ lm.pos[1] = p /\ lm.kv[1] = x \o g
  BY <1>1 DEF AnswerInv
<1>6. p \in Nat /\ p < MaxSeq /\ 1 \in 1 .. KvSets
  <2>1. MaxAnswer \in Nat /\ MaxSeq \in Nat /\ 1 \in 1 .. KvSets
    BY AnswerAssumption, LmAssumption
  <2>2. step < MaxSeq - batch.prompt
    BY <2>1, <1>1, <1>4, <1>5 DEF Budget
  <2> QED
    BY <2>1, <2>2, <1>4, <1>5
<1>7. SongPrompt(batch)' = x
  BY <1>1 DEF SongPrompt
<1> HIDE DEF x, g, p
<1> DEFINE sets == <<1>>
           toks == <<tok>>
<1>8. Len(sets) = 1 /\ sets[1] = 1 /\ DOMAIN sets = 1 .. 1 /\ toks[1] = tok
  <2>1. <<1>> = [j \in 1 .. 1 |-> 1]
    BY SingleIsSeq
  <2>2. DOMAIN <<1>> = 1 .. 1
    BY <2>1
  <2> QED
    BY <2>2, SingleIsSeq
<1> HIDE DEF sets, toks
<1>9. LmOK(lm)
  BY DEF PosInv
<1>10. BatchOf(lm', lm, sets, toks, 1, p)
  <2>1. Len(sets) \in Nat \ {0} /\ DOMAIN sets = 1 .. Len(sets)
    BY <1>8
  <2>2. \A i \in 1 .. Len(sets) : sets[i] \in 1 .. KvSets /\ lm.pos[sets[i]] = p
    BY <1>5, <1>6, <1>8
  <2>3. lm' = ForwardBatch(lm, sets, toks, "full", batch.direct)
    BY <1>2 DEF sets, toks
  <2>4. BatchOf(ForwardBatch(lm, sets, toks, "full", batch.direct), lm, sets, toks, Len(sets), p)
    BY <2>1, <2>2, <1>3, <1>6, <1>9, Batches
  <2> QED
    BY <2>3, <2>4, <1>8
<1>11. LmOK(lm')
  BY <1>10 DEF BatchOf
<1>12. lm'.pos[1] = p + 1
  <2>1. \E i \in 1 .. 1 : sets[i] = 1
    BY <1>8
  <2>2. lm'.pos[1] = lm.pos[1] + 1
    BY <2>1, <1>6, <1>10, Zenon DEF BatchOf
  <2> QED
    BY <2>2, <1>5
<1>13. lm'.kv[1] = WrittenRows(lm.kv[1], p + 1, <<tok>>)
  <2>1. 1 \in sets[1] .. sets[1] + 1 - 1 /\ 1 - sets[1] + 1 = 1
    BY <1>8
  <2>2. lm'.kv[1] = WrittenRows(lm.kv[1], p + 1, <<toks[1 - sets[1] + 1]>>)
    BY <2>1, <1>6, <1>10, Zenon DEF BatchOf
  <2> QED
    BY <2>1, <2>2, <1>8
<1>14. lm'.kv[1] = x \o Append(g, tok)
  <2>1. IsSeq(x \o g) /\ Len(x \o g) = Len(x) + Len(g)
    BY <1>4, <1>5, ConcatIsSeq
  <2>2. Len(x \o g) = p
    BY <2>1, <1>4, <1>5 DEF p
  <2>3. WrittenRows(x \o g, Len(x \o g) + 1, <<tok>>) = Append(x \o g, tok)
    BY <2>1, WrittenBehind
  <2>4. Append(x \o g, tok) = x \o Append(g, tok)
    <3>1. IsSeq(x) /\ IsSeq(g)
      BY <1>4, <1>5
    <3> QED
      BY <3>1, ConcatGrows
  <2> QED
    BY <2>2, <2>3, <2>4, <1>5, <1>13
<1>15. gen'[1] = Append(g, tok) /\ IsSeq(Append(g, tok)) /\ Len(Append(g, tok)) = step + 1
  <2>1. gen'[1] = Append(g, tok)
    BY <1>2 DEF g
  <2> QED
    BY <2>1, <1>5, AppendIsSeq
<1>16. p + 1 = batch'.prompt + step' /\ step' \in Nat
  <2>1. batch.prompt \in Nat /\ step \in Nat /\ batch'.prompt = batch.prompt
    BY <1>1, <1>4, <1>5
  <2>2. \A a, c \in Nat : a + c + 1 = a + (c + 1) /\ c + 1 \in Nat
    OBVIOUS
  <2> QED
    BY <2>1, <2>2, <1>1 DEF p
<1>17. AnswerInv'
  BY <1>1, <1>7, <1>12, <1>14, <1>15, <1>16 DEF AnswerInv
<1>18. stage' = "understand"
  BY <1>1, <1>11 DEF LmOK
<1> QED
  BY <1>11, <1>17, <1>18

-----------------------------------------------------------------------------
(* The LM, call after call.                                                  *)

LmInv == SeqInv /\ PosInv /\ OwnInv /\ AnswerInv

\* Between the passes the LM alone matters.
LEMMA LmAtRest ==
  ASSUME LmOK(lm'), stage' \notin {"first1", "phase1", "first2", "decode2", "understand", "exited"}
  PROVE  LmInv'
<1>1. ~InPhase1' /\ ~InPhase2' /\ stage' # "understand" /\ stage' # "exited"
  BY DEF InPhase1, InPhase2
<1> QED
  BY <1>1 DEF LmInv, SeqInv, PosInv, OwnInv, AnswerInv

LEMMA LmStepPhases ==
  ASSUME CallInv, LmInv,
         \/ First1 \/ First2 \/ Decode1 \/ Decode2 \/ BeginPhase2
         \/ \E b : BeginPhase1(b)
  PROVE  LmInv'
<1>1. SeqInv /\ PosInv /\ OwnInv
  BY DEF LmInv
<1>2. SeqInv' /\ PosInv' /\ OwnInv'
  BY <1>1, FirstKeeps, DecodeKeeps, Phase1Begins, Phase2Begins
<1>3. stage' # "understand"
  BY DEF First1, First2, Decode1, Decode2, BeginPhase1, BeginPhase2
<1> QED
  BY <1>2, <1>3 DEF LmInv, AnswerInv

LEMMA LmStepUnderstand ==
  ASSUME CallInv, LmInv, AnswerToken \/ \E b : BeginUnderstand(b)
  PROVE  LmInv'
<1>1. AnswerInv' /\ LmOK(lm') /\ stage' = "understand"
  <2>1. CASE AnswerToken
    BY <2>1, AnswerGoesOn DEF LmInv
  <2>2. CASE \E b : BeginUnderstand(b)
    <3>1. PICK b : BeginUnderstand(b)
      BY <2>2
    <3>2. stage' = "understand"
      BY <3>1 DEF BeginUnderstand
    <3> QED
      BY <3>1, <3>2, UnderstandBegins DEF LmInv
  <2> QED
    BY <2>1, <2>2
<1>2. ~InPhase1' /\ ~InPhase2' /\ stage' # "exited"
  BY <1>1 DEF InPhase1, InPhase2
<1> QED
  BY <1>1, <1>2 DEF LmInv, SeqInv, PosInv, OwnInv

LEMMA LmStepQuiet ==
  ASSUME CallInv, LmInv,
         \/ \E b : Reject(b) \/ BeginWithout(b) \/ RefuseUnderstand(b)
         \/ Merge \/ EndPhase2 \/ Cancelled \/ EndUnderstand \/ FailUnderstand
  PROVE  LmInv'
<1>1. LmOK(lm)
  BY DEF LmInv, PosInv
<1>2. CASE Merge
  <2>1. lm' = ResetSets(lm, IF FillCfg(batch) THEN 2 * N ELSE N) /\ stage' \in {"returned", "phase2"}
    BY <1>2, Zenon DEF Merge, Return
  <2>2. N \in Nat
    BY <1>2, CallSize DEF Merge, Phases
  <2> DEFINE k == IF FillCfg(batch) THEN 2 * N ELSE N
  <2>3. k \in Nat
    BY <2>2
  <2> HIDE DEF k
  <2>4. LmOK(ResetSets(lm, k))
    BY <1>1, <2>3, ResetsSets
  <2>5. LmOK(lm')
    BY <2>1, <2>4 DEF k
  <2> QED
    BY <2>1, <2>5, LmAtRest
<1>3. CASE EndPhase2 \/ Cancelled \/ EndUnderstand \/ FailUnderstand
  <2>1. lm' = lm /\ stage' \in {"returned", "failed"}
    BY <1>3, Zenon DEF EndPhase2, Cancelled, EndUnderstand, FailUnderstand, Return
  <2> QED
    BY <2>1, <1>1, LmAtRest
<1>4. CASE \E b : Reject(b) \/ BeginWithout(b) \/ RefuseUnderstand(b)
  <2>1. PICK b : Reject(b) \/ BeginWithout(b) \/ RefuseUnderstand(b)
    BY <1>4
  <2>2. lm' = lm /\ stage' \in {"returned", "failed", "phase2"}
    BY <2>1 DEF Reject, BeginWithout, RefuseUnderstand, Return
  <2> QED
    BY <2>2, <1>1, LmAtRest
<1> QED
  BY <1>2, <1>3, <1>4

LEMMA LmStutters ==
  ASSUME LmInv, UNCHANGED vars
  PROVE  LmInv'
<1>1. /\ stage' = stage /\ batch' = batch /\ aces' = aces /\ gen' = gen /\ last' = last
      /\ done' = done /\ step' = step /\ lm' = lm
  BY DEF vars, seqVars
<1>2. N' = N /\ Seqs' = Seqs /\ Active' = Active
  BY <1>1 DEF N, Seqs, Active
<1>3. SeqInv'
  BY <1>1, <1>2 DEF LmInv, SeqInv, InPhase1, InPhase2, AtFirst
<1>4. PosInv'
  BY <1>1, <1>2 DEF LmInv, PosInv, InPhase1, InPhase2, FillCfg, GenLyrics, NeedLyrics, SkipCodes
<1>5. AnswerInv'
  BY <1>1 DEF LmInv, AnswerInv, SongPrompt
<1>6. OwnInv'
  BY <1>1, <1>2 DEF LmInv, OwnInv, OwnRowsIn, InPhase1, InPhase2, AtFirst, NamedInOneRun,
                    LmPrompt, LmUncond, Req, CodesPrompt, FillCfg, GenLyrics, NeedLyrics, SkipCodes
<1> QED
  BY <1>3, <1>4, <1>5, <1>6 DEF LmInv

LEMMA LmStep == CallInv /\ LmInv /\ [UnderstandNext]_vars => LmInv'
<1> SUFFICES ASSUME CallInv, LmInv, [UnderstandNext]_vars PROVE LmInv'
  OBVIOUS
<1>1. CASE Returned \/ UNCHANGED vars
  <2>1. UNCHANGED vars
    BY <1>1 DEF Returned
  <2> QED
    BY <2>1, LmStutters
<1> QED
  BY <1>1, LmStepPhases, LmStepUnderstand, LmStepQuiet, Actions

LEMMA LmStarts == Init => LmInv
<1> SUFFICES ASSUME Init PROVE LmInv
  OBVIOUS
<1>1. stage = "idle" /\ lm = LoadedLm
  BY DEF Init
<1>2. LmOK(lm)
  BY <1>1, LoadedOK
<1>3. ~InPhase1 /\ ~InPhase2
  BY <1>1 DEF InPhase1, InPhase2
<1> QED
  BY <1>1, <1>2, <1>3 DEF LmInv, SeqInv, PosInv, OwnInv, AnswerInv

LEMMA RowsOwn ==
  ASSUME NEW i, NEW set, NEW prompt, ~AtFirst, OwnRowsIn(i, set, prompt),
         IsSeq(gen[i]), step \in Nat, Len(gen[i]) = step + 1, lm.pos[set] = step + 1
  PROVE  OwnTokens(i, set, prompt)
<1> DEFINE g == gen[i]
           r == OwnRows(prompt, g)
<1>1. lm.kv[set] = r
  BY DEF OwnRowsIn
<1>2. Len(g) \in Nat /\ Len(g) > 0 /\ Len(g) = lm.pos[set] /\ IsSeq(g)
  OBVIOUS
<1>3. r = <<prompt>> \o Front(g)
  BY <1>2, OwnRowsAre
<1>4. IsSeq(r) /\ Len(r) = Len(g)
  <2>1. r = [j \in 1 .. Len(g) |-> r[j]]
    BY DEF OwnRows
  <2> HIDE DEF g, r
  <2> QED
    BY <2>1, <1>2, FunctionIsSeq
<1> HIDE DEF g, r
<1>5. IsSeq(lm.kv[set]) /\ Len(lm.kv[set]) = lm.pos[set]
  BY <1>1, <1>2, <1>4
<1>6. RowsOf(lm, set) = lm.kv[set]
  BY <1>5, RowsAreAll
<1>7. RowsOf(lm, set) = <<prompt>> \o Front(g)
  BY <1>1, <1>3, <1>6
<1> QED
  BY <1>7 DEF OwnTokens, g

LEMMA OwnFromInv == LmInv => KvOwnTokens
<1> SUFFICES ASSUME LmInv PROVE KvOwnTokens
  OBVIOUS
<1>1. ASSUME stage \in {"phase1", "decode2"}
      PROVE  /\ ~AtFirst /\ step \in Nat
             /\ \A i \in Active : i \in Seqs /\ IsSeq(gen[i]) /\ Len(gen[i]) = step + 1
  BY <1>1 DEF LmInv, SeqInv, InPhase1, InPhase2, AtFirst, Active
<1>2. ASSUME stage = "phase1", NEW i \in Active
      PROVE  /\ OwnTokens(i, i, LmPrompt(batch, Req(i)))
             /\ FillCfg(batch) => OwnTokens(i, N + i, LmUncond(Req(i)))
  <2>1. /\ OwnRowsIn(i, i, LmPrompt(batch, Req(i)))
        /\ FillCfg(batch) => OwnRowsIn(i, N + i, LmUncond(Req(i)))
    BY <1>2 DEF LmInv, OwnInv, InPhase1
  <2>2. lm.pos[i] = step + 1 /\ (FillCfg(batch) => lm.pos[N + i] = step + 1)
    BY <1>1, <1>2 DEF LmInv, PosInv, InPhase1
  <2> QED
    BY <1>1, <1>2, <2>1, <2>2, RowsOwn
<1>3. ASSUME stage = "decode2", NamedInOneRun, NEW i \in Active
      PROVE  /\ OwnTokens(i, i, CodesPrompt(aces[i]))
             /\ batch.cfg => OwnTokens(i, N + i, CodesUncond)
  <2>1. /\ OwnRowsIn(i, i, CodesPrompt(aces[i]))
        /\ batch.cfg => OwnRowsIn(i, N + i, CodesUncond)
    BY <1>3 DEF LmInv, OwnInv, InPhase2
  <2>2. lm.pos[i] = step + 1 /\ (batch.cfg => lm.pos[N + i] = step + 1)
    BY <1>1, <1>3 DEF LmInv, PosInv, InPhase2
  <2> QED
    BY <1>1, <1>3, <2>1, <2>2, RowsOwn
<1> QED
  BY <1>2, <1>3 DEF KvOwnTokens, KvOwn1, KvOwn2

LEMMA FitFromInv == CallInv /\ LmInv => ForwardsFit
<1> SUFFICES ASSUME CallInv, LmInv PROVE ForwardsFit
  OBVIOUS
<1>1. LmOK(lm) /\ stage # "exited"
  BY DEF LmInv, PosInv
<1>2. GraphFits
  BY <1>1 DEF LmOK, GraphFits
<1>3. ASSUME stage = "understand" PROVE RowsOf(lm, 1) = SongPrompt(batch) \o gen[1]
  <2> DEFINE x == SongPrompt(batch)
             g == gen[1]
  <2>1. /\ step \in Nat /\ IsSeq(g) /\ Len(g) = step
        /\ lm.pos[1] = batch.prompt + step /\ lm.kv[1] = x \o g
    BY <1>3 DEF LmInv, AnswerInv
  <2>2. IsSeq(x) /\ Len(x) = batch.prompt
    BY <1>3, PromptIsSeq DEF CallInv
  <2> HIDE DEF x, g
  <2>3. IsSeq(x \o g) /\ Len(x \o g) = Len(x) + Len(g)
    BY <2>1, <2>2, ConcatIsSeq
  <2>4. IsSeq(lm.kv[1]) /\ Len(lm.kv[1]) = lm.pos[1]
    BY <2>1, <2>2, <2>3
  <2>5. RowsOf(lm, 1) = lm.kv[1]
    BY <2>4, RowsAreAll
  <2> QED
    BY <2>1, <2>5 DEF x, g
<1> QED
  BY <1>1, <1>2, <1>3 DEF ForwardsFit, AnswerFits

\* Call after call, a sequence is decoded from its own prompt and tokens, as
\* long as the sets of its batch lie side by side: that one has ended among
\* three, or with both kinds of sets in a forward, is where the code departs.
THEOREM TokensAreOwn == UnderstandSpec => []KvOwnTokens
<1>1. Init => CallInv /\ LmInv
  BY CallsInit, LmStarts
<1>2. CallInv /\ LmInv /\ [UnderstandNext]_vars => (CallInv /\ LmInv)'
  BY CallsStep, LmStep
<1>3. CallInv /\ LmInv => KvOwnTokens
  BY OwnFromInv
<1> QED
  BY <1>1, <1>2, <1>3, PTL DEF UnderstandSpec

\* No call outgrows the cache, an answer is decoded from its song and what it
\* has said so far, and a graph that is kept from step to step and from call to
\* call computes its own shape in memory that is still its own.
THEOREM AnswersFit == UnderstandSpec => []ForwardsFit
<1>1. Init => CallInv /\ LmInv
  BY CallsInit, LmStarts
<1>2. CallInv /\ LmInv /\ [UnderstandNext]_vars => (CallInv /\ LmInv)'
  BY CallsStep, LmStep
<1>3. CallInv /\ LmInv => ForwardsFit
  BY FitFromInv
<1> QED
  BY <1>1, <1>2, <1>3, PTL DEF UnderstandSpec

-----------------------------------------------------------------------------
(* The decoder of a header.                                                  *)

FsmParts ==
    {"field", "part", "pos", "acc", "queue", "pendingNewline", "ending", "pending",
     "forced", "skip", "genres"}

\* A field that has a tree of values, at its value.
InValue(f) == f.part = "value" /\ f.field \in Constrained

\* The decoder of a request: no genres, and nothing longer than Span allows.  A
\* value that is forced is queued before anything is written for it.
FsmOK(f) ==
    /\ DOMAIN f = FsmParts
    /\ f.field \in Constrained \cup {"caption", "think_end", "codes"}
    /\ f.part \in {"name", "value"}
    /\ f.pos \in Nat /\ (InName(f) => f.pos <= 1)
    /\ ~f.genres
    /\ \A c \in Constrained : IsSeq(f.forced[c]) /\ Len(f.forced[c]) <= Span - 4
    /\ IsSeq(f.queue)
    /\ f.queue # <<>> => InValue(f) /\ Len(f.queue) <= Span - 3
    /\ InValue(f) => /\ IsSeq(f.acc) /\ Len(f.acc) <= Span - 4
                     /\ f.forced[f.field] # <<>> => f.acc = <<>>

LEMMA SeqIsSeq == ASSUME NEW S, NEW x \in Seq(S) PROVE IsSeq(x)
<1>1. Len(x) \in Nat /\ DOMAIN x = 1 .. Len(x) /\ x \in [1 .. Len(x) -> S]
  BY LenProperties
<1>2. x = [j \in 1 .. Len(x) |-> x[j]]
  BY <1>1
<1> QED
  BY <1>1, <1>2 DEF IsSeq

LEMMA NothingIsEmpty == ASSUME NEW x, IsSeq(x), Len(x) = 0 PROVE x = <<>>
<1> DEFINE S == {x[j] : j \in 1 .. Len(x)}
<1>1. x \in Seq(S)
  BY IsSeqInSeq
<1> HIDE DEF S
<1>2. x # <<>> => Len(x) \in Nat \ {0}
  BY <1>1, EmptySeq, Zenon
<1> QED
  BY <1>2

LEMMA TailIsSeq ==
  ASSUME NEW x, IsSeq(x), x # <<>>
  PROVE  IsSeq(Tail(x)) /\ Len(Tail(x)) = Len(x) - 1 /\ Len(x) >= 1 /\ Len(x) \in Nat
<1> DEFINE S == {x[j] : j \in 1 .. Len(x)}
<1>1. x \in Seq(S)
  BY IsSeqInSeq
<1> HIDE DEF S
<1>2. Tail(x) \in Seq(S) /\ Len(Tail(x)) = Len(x) - 1
  BY <1>1, HeadTailProperties
<1>3. Len(x) \in Nat /\ Len(x) # 0
  BY NothingIsEmpty DEF IsSeq
<1>4. IsSeq(Tail(x))
  BY <1>2, SeqIsSeq, Zenon
<1>5. Len(x) >= 1
  BY <1>3
<1> QED
  BY <1>2, <1>3, <1>4, <1>5

LEMMA SpanRoom == Span \in Nat /\ Span > 4
BY ValuesAssumption

\* The measure in its cases.
LEMMA DistanceQueue ==
  ASSUME NEW f, f.queue # <<>>
  PROVE  Distance(f) = Span * FieldsLeft[f.field] + Len(f.queue)
BY DEF Distance

LEMMA DistanceName ==
  ASSUME NEW f, f.queue = <<>>, InName(f)
  PROVE  Distance(f) = Span * FieldsLeft[f.field] + (Span - 1 - f.pos)
<1>1. ~(f.queue # <<>>) /\ f.part = "name" /\ f.field \notin {"think_end", "codes"}
  BY DEF InName, Constrained
<1>2. ~Boundless(f)
  BY <1>1 DEF Boundless
<1> QED
  BY <1>1, <1>2 DEF Distance

LEMMA DistanceEnd ==
  ASSUME NEW f, f.queue = <<>>, f.field \in {"think_end", "codes"}
  PROVE  Distance(f) = Span * FieldsLeft[f.field] + 0
<1>1. ~InName(f)
  BY DEF InName, Constrained
<1> QED
  BY <1>1 DEF Distance

LEMMA DistanceCaption ==
  ASSUME NEW f, f.queue = <<>>, InCaption(f)
  PROVE  Distance(f) = Span * FieldsLeft[f.field] + 0
<1>1. ~InName(f) /\ f.field \notin {"think_end", "codes"} /\ Boundless(f)
  BY DEF InName, InCaption, Boundless
<1> QED
  BY <1>1 DEF Distance

LEMMA DistanceValue ==
  ASSUME NEW f, f.queue = <<>>, InValue(f)
  PROVE  Distance(f) = Span * FieldsLeft[f.field] + (Span - 3 - Len(f.acc))
<1>1. ~InName(f) /\ f.field \notin {"think_end", "codes"} /\ ~Boundless(f)
  BY DEF InName, InValue, Boundless, Constrained
<1> QED
  BY <1>1 DEF Distance

LEMMA LeftOf ==
  /\ \A c \in Constrained \cup {"caption", "think_end", "codes"} : FieldsLeft[c] \in 0 .. 8
  /\ FieldsLeft["caption"] = 7
  /\ \A c \in Constrained \ {"bpm"} : FieldsLeft[c] < 7
  /\ FieldsLeft["think_end"] = 1 /\ FieldsLeft["codes"] = 0
BY DEF FieldsLeft, Constrained

LEMMA Scaled ==
  ASSUME NEW s \in Nat, NEW a \in 0 .. 8, NEW b \in 0 .. 8, b < a
  PROVE  s * b + s <= s * a /\ s * a \in Nat /\ s * b \in Nat
<1>1. s * a = s * b + s * (a - b)
  OBVIOUS
<1>2. s * (a - b) >= s
  OBVIOUS
<1> QED
  BY <1>1, <1>2

LEMMA FieldsScaled ==
  ASSUME NEW f, FsmOK(f)
  PROVE  Span * FieldsLeft[f.field] \in Nat
<1> DEFINE b == FieldsLeft[f.field]
<1>1. b \in 0 .. 8
  BY LeftOf DEF FsmOK
<1> HIDE DEF b
<1>2. Span * b \in Nat
  BY <1>1, SpanRoom
<1> QED
  BY <1>2 DEF b

\* A field is left for the next one.
LEMMA LeaveIs ==
  ASSUME NEW f, FsmOK(f), f.field \notin {"think_end", "codes"}
  PROVE  LET g == Leave(f)
         IN  /\ DOMAIN g = FsmParts
             /\ g.field \in (Constrained \ {"bpm"}) \cup {"caption", "think_end"}
             /\ FieldsLeft[g.field] < FieldsLeft[f.field]
             /\ g.part = "name" /\ g.pos = 0 /\ g.acc = <<>>
             /\ g.queue = f.queue /\ g.forced = f.forced /\ g.genres = f.genres
<1> DEFINE next == NextField(f)
           g == Leave(f)
<1>1. f.field \in Constrained \cup {"caption"} /\ ~f.genres /\ DOMAIN f = FsmParts
  BY DEF FsmOK
<1>2. next = IF f.field = "bpm" /\ f.skip THEN "duration"
             ELSE IF f.field = "duration" THEN "keyscale" ELSE Following[f.field]
  <2>1. CASE f.field = "bpm"
    BY <2>1, <1>1 DEF NextField
  <2>2. CASE f.field # "bpm"
    BY <2>2, <1>1 DEF NextField
  <2> QED
    BY <2>1, <2>2
<1>3. /\ next \in (Constrained \ {"bpm"}) \cup {"caption", "think_end"}
      /\ FieldsLeft[next] < FieldsLeft[f.field]
  BY <1>1, <1>2 DEF Constrained, Following, FieldsLeft
<1>4. g = [f EXCEPT !.field = next, !.part = "name", !.pos = 0, !.acc = <<>>]
  BY DEF Leave
<1> HIDE DEF g, next
<1>5. /\ DOMAIN g = FsmParts /\ g.field = next /\ g.part = "name" /\ g.pos = 0 /\ g.acc = <<>>
      /\ g.queue = f.queue /\ g.forced = f.forced /\ g.genres = f.genres
  BY <1>1, <1>4 DEF FsmParts
<1> QED
  BY <1>3, <1>5 DEF g

\* With nothing queued the next field is nearer to the end.
LEMMA LeaveNears ==
  ASSUME NEW f, FsmOK(f), f.field \notin {"think_end", "codes"}, f.queue = <<>>
  PROVE  /\ FsmOK(Leave(f)) /\ Leave(f).field # "codes"
         /\ Distance(Leave(f)) \in Int
         /\ Distance(Leave(f)) <= Span * FieldsLeft[f.field] - 1
         /\ Span * FieldsLeft[f.field] \in Nat
<1> DEFINE g == Leave(f)
           s == Span
           a == FieldsLeft[f.field]
           b == FieldsLeft[g.field]
<1>1. /\ DOMAIN g = FsmParts
      /\ g.field \in (Constrained \ {"bpm"}) \cup {"caption", "think_end"}
      /\ b < a
      /\ g.part = "name" /\ g.pos = 0 /\ g.acc = <<>>
      /\ g.queue = <<>> /\ g.forced = f.forced /\ g.genres = f.genres
  BY LeaveIs
<1>2. a \in 0 .. 8 /\ b \in 0 .. 8
  BY <1>1, LeftOf DEF FsmOK
<1>3. FsmOK(g)
  <2>1. ~InValue(g)
    BY <1>1 DEF InValue
  <2> HIDE DEF g
  <2> QED
    BY <1>1, <2>1, EmptyIsSeq DEF FsmOK
<1>4. g.field # "codes"
  BY <1>1 DEF Constrained
<1>5. Distance(g) = s * b + (s - 1) \/ Distance(g) = s * b + 0
  <2>1. CASE g.field = "think_end"
    BY <2>1, <1>1, DistanceEnd
  <2>2. CASE g.field # "think_end"
    <3>1. InName(g)
      BY <2>2, <1>1 DEF InName
    <3>2. Distance(g) = s * b + (s - 1 - g.pos)
      BY <3>1, <1>1, DistanceName
    <3>3. s - 1 - g.pos = s - 1
      BY <1>1, SpanRoom
    <3> HIDE DEF s, b, g
    <3> QED
      BY <3>2, <3>3
  <2> QED
    BY <2>1, <2>2
<1>6. s \in Nat /\ s > 4
  BY SpanRoom
<1> HIDE DEF s, a, b, g
<1>7. s * b + s <= s * a /\ s * a \in Nat /\ s * b \in Nat
  BY <1>1, <1>2, <1>6, Scaled
<1>8. Distance(g) \in Int /\ Distance(g) <= s * a - 1
  BY <1>5, <1>6, <1>7
<1> QED
  BY <1>3, <1>4, <1>7, <1>8 DEF s, a, g

\* What a step of the decoder is to do.
Nears(f, g) ==
    /\ FsmOK(g)
    /\ IF Boundless(f) THEN Distance(g) <= Distance(f) ELSE Distance(g) < Distance(f)

LEMMA ConsumeNears ==
  ASSUME NEW f, FsmOK(f), f.queue # <<>>
  PROVE  /\ FsmOK(Consume(f)) /\ Consume(f).field # "codes"
         /\ Distance(Consume(f)) \in Int /\ Distance(Consume(f)) < Distance(f)
<1> DEFINE rest == [f EXCEPT !.queue = Tail(f.queue)]
           k == Len(f.queue)
           a == Span * FieldsLeft[f.field]
<1>1. Consume(f) = IF rest.queue = <<>> THEN Leave(rest) ELSE rest
  BY DEF Consume
<1>2. /\ DOMAIN f = FsmParts /\ IsSeq(f.queue) /\ InValue(f) /\ k <= Span - 3
      /\ f.field \notin {"think_end", "codes"}
  BY DEF FsmOK, InValue, Constrained
<1>3. IsSeq(Tail(f.queue)) /\ Len(Tail(f.queue)) = k - 1 /\ k >= 1 /\ k \in Nat
  BY <1>2, TailIsSeq
<1>4. /\ DOMAIN rest = FsmParts /\ rest.queue = Tail(f.queue) /\ rest.field = f.field
      /\ rest.part = f.part /\ rest.pos = f.pos /\ rest.acc = f.acc
      /\ rest.forced = f.forced /\ rest.genres = f.genres
  BY <1>2 DEF FsmParts
<1>5. Distance(f) = a + k
  BY DistanceQueue
<1> HIDE DEF rest
<1>6. FsmOK(rest)
  <2>1. InValue(rest) /\ ~InName(rest) /\ Len(rest.queue) <= Span - 3
    <3>1. Len(rest.queue) <= Span - 3
      BY <1>2, <1>3, <1>4, SpanRoom
    <3>2. InValue(rest) /\ ~InName(rest)
      BY <1>2, <1>4 DEF InValue, InName
    <3> QED
      BY <3>1, <3>2
  <2>2. /\ f.field \in Constrained \cup {"caption", "think_end", "codes"}
        /\ f.part \in {"name", "value"} /\ f.pos \in Nat /\ ~f.genres
        /\ \A c \in Constrained : IsSeq(f.forced[c]) /\ Len(f.forced[c]) <= Span - 4
        /\ IsSeq(f.acc) /\ Len(f.acc) <= Span - 4
        /\ f.forced[f.field] # <<>> => f.acc = <<>>
    BY <1>2 DEF FsmOK
  <2> QED
    BY <1>3, <1>4, <2>1, <2>2 DEF FsmOK
<1>7. CASE rest.queue = <<>>
  <2>1. /\ FsmOK(Leave(rest)) /\ Leave(rest).field # "codes"
        /\ Distance(Leave(rest)) \in Int
        /\ Distance(Leave(rest)) <= Span * FieldsLeft[rest.field] - 1
        /\ Span * FieldsLeft[rest.field] \in Nat
    BY <1>2, <1>4, <1>6, <1>7, LeaveNears
  <2>2. Distance(Leave(rest)) \in Int /\ Distance(Leave(rest)) <= a - 1 /\ a \in Nat
    BY <1>4, <2>1
  <2>3. Distance(Leave(rest)) < Distance(f)
    <3> HIDE DEF a, k, rest
    <3> QED
      BY <2>2, <1>5, <1>3
  <2> QED
    BY <1>1, <1>7, <2>1, <2>3
<1>8. CASE rest.queue # <<>>
  <2>1. Distance(rest) = a + (k - 1)
    BY <1>3, <1>4, <1>8, DistanceQueue
  <2>2. rest.field # "codes"
    BY <1>2, <1>4
  <2>3. a \in Nat
    BY FieldsScaled
  <2>4. Distance(rest) \in Int /\ Distance(rest) < Distance(f)
    <3> HIDE DEF a, k
    <3> QED
      BY <2>1, <2>3, <1>3, <1>5
  <2> QED
    BY <1>1, <1>6, <1>8, <2>2, <2>4
<1> QED
  BY <1>7, <1>8

\* A forced value that is queued is no longer than what was left for it.
LEMMA InjectNears ==
  ASSUME NEW f, FsmOK(f), f.queue = <<>>, InValue(f), f.forced[f.field] # <<>>
  PROVE  /\ FsmOK(Injected(f)) /\ Injected(f).queue # <<>>
         /\ Distance(Injected(f)) \in Int /\ Distance(f) \in Int
         /\ Distance(Injected(f)) <= Distance(f)
<1> DEFINE v == f.forced[f.field]
           q == Append(v, Newline)
           g == Injected(f)
           a == Span * FieldsLeft[f.field]
<1>1. /\ DOMAIN f = FsmParts /\ f.field \in Constrained /\ f.acc = <<>> /\ f.part = "value"
      /\ IsSeq(v) /\ Len(v) <= Span - 4 /\ f.pos \in Nat /\ ~f.genres
      /\ \A c \in Constrained : IsSeq(f.forced[c]) /\ Len(f.forced[c]) <= Span - 4
  BY DEF FsmOK, InValue
<1>2. g = [f EXCEPT !.queue = q]
  BY <1>1 DEF Injected
<1>3. IsSeq(q) /\ Len(q) = Len(v) + 1 /\ Len(v) \in Nat
  BY <1>1, AppendIsSeq DEF IsSeq
<1>4. q # <<>> /\ Len(q) <= Span - 3
  BY <1>1, <1>3, SpanRoom, EmptyIsSeq
<1> HIDE DEF q, g
<1>5. /\ DOMAIN g = FsmParts /\ g.queue = q /\ g.field = f.field
      /\ g.part = f.part /\ g.pos = f.pos /\ g.acc = f.acc
      /\ g.forced = f.forced /\ g.genres = f.genres
  BY <1>1, <1>2 DEF FsmParts
<1>6. FsmOK(g)
  <2>1. InValue(g) /\ ~InName(g)
    BY <1>1, <1>5 DEF InValue, InName
  <2>2. 0 <= Span - 4
    BY SpanRoom
  <2> QED
    BY <1>1, <1>3, <1>4, <1>5, <2>1, <2>2, EmptyIsSeq DEF FsmOK
<1>7. Distance(g) = a + Len(q)
  BY <1>4, <1>5, DistanceQueue
<1>8. Distance(f) = a + (Span - 3)
  <2>1. Distance(f) = a + (Span - 3 - Len(f.acc))
    BY DistanceValue
  <2>2. Span - 3 - Len(f.acc) = Span - 3
    BY <1>1, EmptyIsSeq, SpanRoom
  <2> HIDE DEF a
  <2> QED
    BY <2>1, <2>2
<1>9. a \in Nat
  BY FieldsScaled
<1>10. Len(q) \in Nat
  BY <1>3 DEF IsSeq
<1> HIDE DEF a
<1>11. Distance(g) \in Int /\ Distance(f) \in Int /\ Distance(g) <= Distance(f)
  BY <1>4, <1>7, <1>8, <1>9, <1>10, SpanRoom
<1> QED
  BY <1>4, <1>5, <1>6, <1>11 DEF g

LEMMA NotInjected ==
  ASSUME NEW f, f.queue # <<>> \/ ~InValue(f) \/ f.forced[f.field] = <<>>
  PROVE  Injected(f) = f
BY DEF Injected, InValue

LEMMA NameNears ==
  ASSUME NEW f, FsmOK(f), f.queue = <<>>, InName(f)
  PROVE  Nears(f, UpdateName(f)) /\ UpdateName(f).field = f.field
<1> DEFINE g == UpdateName(f)
           a == Span * FieldsLeft[f.field]
<1>1. /\ DOMAIN f = FsmParts /\ f.field \in Constrained \cup {"caption"} /\ f.part = "name"
      /\ f.pos \in Nat /\ f.pos <= 1 /\ ~f.genres
      /\ \A c \in Constrained : IsSeq(f.forced[c]) /\ Len(f.forced[c]) <= Span - 4
  BY DEF FsmOK, InName
<1>2. Len(NameTokens(f.field)) = 2
  BY DEF NameTokens
<1>3. Distance(f) = a + (Span - 1 - f.pos)
  BY DistanceName
<1>4. ~Boundless(f)
  BY <1>1 DEF Boundless
<1>5. a \in Nat
  BY FieldsScaled
<1>6. CASE f.pos = 0
  <2>1. g = [f EXCEPT !.pos = 1]
    BY <1>2, <1>6 DEF UpdateName
  <2> HIDE DEF g
  <2>2. /\ DOMAIN g = FsmParts /\ g.queue = f.queue /\ g.field = f.field
        /\ g.part = f.part /\ g.pos = 1 /\ g.forced = f.forced /\ g.genres = f.genres
    BY <1>1, <2>1 DEF FsmParts
  <2>3. InName(g) /\ ~InValue(g)
    BY <1>1, <2>2 DEF InName, InValue
  <2>4. FsmOK(g)
    BY <1>1, <2>2, <2>3, EmptyIsSeq DEF FsmOK
  <2>5. Distance(g) = a + (Span - 1 - 1)
    BY <2>2, <2>3, DistanceName
  <2> HIDE DEF a
  <2>6. Distance(g) < Distance(f)
    BY <1>3, <1>5, <1>6, <2>5, SpanRoom
  <2> QED
    BY <1>4, <2>2, <2>4, <2>6 DEF Nears, g
<1>7. CASE f.pos = 1
  <2>1. g = [f EXCEPT !.pos = 2, !.part = "value", !.acc = <<>>]
    BY <1>2, <1>7 DEF UpdateName
  <2> HIDE DEF g
  <2>2. /\ DOMAIN g = FsmParts /\ g.queue = f.queue /\ g.field = f.field
        /\ g.part = "value" /\ g.pos = 2 /\ g.acc = <<>> /\ g.forced = f.forced
        /\ g.genres = f.genres
    BY <1>1, <2>1 DEF FsmParts
  <2>3. ~InName(g) /\ 0 <= Span - 4
    BY <2>2, SpanRoom DEF InName
  <2>4. FsmOK(g)
    BY <1>1, <2>2, <2>3, EmptyIsSeq DEF FsmOK
  <2>5. Distance(g) = a + 0 \/ Distance(g) = a + (Span - 3)
    <3>1. CASE f.field = "caption"
      <4>1. InCaption(g)
        BY <2>2, <3>1 DEF InCaption
      <4> QED
        BY <2>2, <4>1, DistanceCaption
    <3>2. CASE f.field # "caption"
      <4>1. InValue(g)
        BY <1>1, <2>2, <3>2 DEF InValue
      <4>2. Distance(g) = a + (Span - 3 - Len(g.acc))
        BY <2>2, <4>1, DistanceValue
      <4>3. Span - 3 - Len(g.acc) = Span - 3
        BY <2>2, EmptyIsSeq, SpanRoom
      <4> HIDE DEF a
      <4> QED
        BY <4>2, <4>3
    <3> QED
      BY <3>1, <3>2
  <2> HIDE DEF a
  <2>6. Distance(g) < Distance(f)
    BY <1>3, <1>5, <1>7, <2>5, SpanRoom
  <2> QED
    BY <1>4, <2>2, <2>4, <2>6 DEF Nears, g
<1>8. f.pos = 0 \/ f.pos = 1
  BY <1>1
<1> QED
  BY <1>6, <1>7, <1>8

LEMMA KnownFieldIs ==
  ASSUME NEW f, ~f.genres, NEW name
  PROVE  KnownField(f, name) \in (Constrained \ {"bpm"}) \cup {"none"}
<1>1. CASE name \in {<<c>> : c \in Constrained \ {"bpm"}}
  <2>1. PICK c \in Constrained \ {"bpm"} : name = <<c>>
    BY <1>1
  <2>2. KnownField(f, name) = name[1]
    BY <1>1 DEF KnownField
  <2> QED
    BY <2>1, <2>2
<1>2. CASE name \notin {<<c>> : c \in Constrained \ {"bpm"}}
  BY <1>2 DEF KnownField
<1> QED
  BY <1>1, <1>2

\* The line after a caption goes on, or it names a field that follows.
LEMMA EndCaptionNears ==
  ASSUME NEW f, FsmOK(f), f.queue = <<>>, InCaption(f), NEW line
  PROVE  Nears(f, EndCaption(f, line)) /\ EndCaption(f, line).field # "codes"
<1> DEFINE field == IF Contains(line, ":") THEN KnownField(f, NoTail(BeforeColon(line))) ELSE "none"
           g == EndCaption(f, line)
           a == Span * 7
<1>1. /\ DOMAIN f = FsmParts /\ f.field = "caption" /\ f.part = "value" /\ f.pos \in Nat
      /\ ~f.genres
      /\ \A c \in Constrained : IsSeq(f.forced[c]) /\ Len(f.forced[c]) <= Span - 4
  BY DEF FsmOK, InCaption
<1>2. field \in (Constrained \ {"bpm"}) \cup {"none"}
  BY <1>1, KnownFieldIs
<1>3. g = IF field = "none"
          THEN [f EXCEPT !.pendingNewline = FALSE, !.ending = TRUE, !.pending = line]
          ELSE [f EXCEPT !.pendingNewline = FALSE, !.ending = FALSE, !.pending = <<>>,
                         !.field = field, !.part = "value", !.pos = 0, !.acc = <<>>]
  BY DEF EndCaption
<1>4. Distance(f) = a + 0 /\ Boundless(f)
  BY <1>1, DistanceCaption, LeftOf DEF Boundless
<1> HIDE DEF field, g
<1>5. CASE field = "none"
  <2>1. /\ DOMAIN g = FsmParts /\ g.queue = f.queue /\ g.field = f.field /\ g.part = f.part
        /\ g.pos = f.pos /\ g.acc = f.acc /\ g.forced = f.forced /\ g.genres = f.genres
    BY <1>1, <1>3, <1>5 DEF FsmParts
  <2>2. InCaption(g) /\ ~InName(g) /\ ~InValue(g)
    BY <1>1, <2>1 DEF InCaption, InName, InValue, Constrained
  <2>3. FsmOK(g)
    BY <1>1, <2>1, <2>2, EmptyIsSeq DEF FsmOK
  <2>4. Distance(g) = a + 0
    BY <1>1, <2>1, <2>2, DistanceCaption, LeftOf
  <2>5. a + 0 <= a + 0
    BY SpanRoom
  <2>6. g.field # "codes"
    BY <1>1, <2>1
  <2> HIDE DEF a
  <2> QED
    BY <1>4, <2>3, <2>4, <2>5, <2>6 DEF Nears, g
<1>6. CASE field # "none"
  <2>1. /\ DOMAIN g = FsmParts /\ g.queue = f.queue /\ g.field = field /\ g.part = "value"
        /\ g.pos = 0 /\ g.acc = <<>> /\ g.forced = f.forced /\ g.genres = f.genres
    BY <1>1, <1>3, <1>6 DEF FsmParts
  <2>2. field \in Constrained \ {"bpm"} /\ field # "codes"
    BY <1>2, <1>6 DEF Constrained
  <2>3. InValue(g) /\ ~InName(g) /\ 0 <= Span - 4
    BY <2>1, <2>2, SpanRoom DEF InName, InValue
  <2>4. FsmOK(g)
    BY <1>1, <2>1, <2>2, <2>3, EmptyIsSeq DEF FsmOK
  <2> DEFINE b == FieldsLeft[g.field]
  <2>5. b \in 0 .. 8 /\ b < 7
    BY <2>1, <2>2, LeftOf
  <2>6. Distance(g) = Span * b + (Span - 3)
    <3>1. Distance(g) = Span * b + (Span - 3 - Len(g.acc))
      BY <2>1, <2>3, DistanceValue
    <3>2. Span - 3 - Len(g.acc) = Span - 3
      BY <2>1, EmptyIsSeq, SpanRoom
    <3> HIDE DEF b
    <3> QED
      BY <3>1, <3>2
  <2> HIDE DEF b
  <2>7. Span * b + Span <= Span * 7 /\ Span * 7 \in Nat /\ Span * b \in Nat
    <3>1. 7 \in 0 .. 8
      OBVIOUS
    <3> QED
      BY <2>5, <3>1, SpanRoom, Scaled
  <2>8. Distance(g) <= Distance(f)
    BY <1>4, <2>6, <2>7, SpanRoom
  <2> QED
    BY <1>4, <2>1, <2>2, <2>4, <2>8 DEF Nears, g
<1> QED
  BY <1>5, <1>6

LEMMA CaptionNears ==
  ASSUME NEW f, FsmOK(f), f.queue = <<>>, InCaption(f), NEW tok
  PROVE  Nears(f, UpdateCaption(f, tok)) /\ UpdateCaption(f, tok).field # "codes"
<1>1. /\ DOMAIN f = FsmParts /\ f.field = "caption" /\ f.part = "value" /\ f.pos \in Nat
      /\ ~f.genres
      /\ \A c \in Constrained : IsSeq(f.forced[c]) /\ Len(f.forced[c]) <= Span - 4
  BY DEF FsmOK, InCaption
<1>2. Boundless(f)
  BY <1>1 DEF Boundless
<1>3. ASSUME NEW p
      PROVE  LET g == [f EXCEPT !.pendingNewline = p]
             IN  Nears(f, g) /\ g.field # "codes"
  <2> DEFINE g == [f EXCEPT !.pendingNewline = p]
  <2>1. /\ DOMAIN g = FsmParts /\ g.queue = f.queue /\ g.field = f.field /\ g.part = f.part
        /\ g.pos = f.pos /\ g.acc = f.acc /\ g.forced = f.forced /\ g.genres = f.genres
    BY <1>1 DEF FsmParts
  <2> HIDE DEF g
  <2>2. InCaption(g) /\ ~InName(g) /\ ~InValue(g)
    BY <1>1, <2>1 DEF InCaption, InName, InValue, Constrained
  <2>3. FsmOK(g)
    BY <1>1, <2>1, <2>2, EmptyIsSeq DEF FsmOK
  <2> DEFINE a == Span * 7
  <2>4. Distance(g) = a + 0 /\ Distance(f) = a + 0
    BY <1>1, <2>1, <2>2, DistanceCaption, LeftOf
  <2>5. a + 0 <= a + 0
    BY SpanRoom
  <2> HIDE DEF a
  <2>6. g.field # "codes"
    BY <1>1, <2>1
  <2> QED
    BY <1>2, <2>3, <2>4, <2>5, <2>6 DEF Nears, g
<1>4. \/ UpdateCaption(f, tok) = [f EXCEPT !.pendingNewline = FALSE]
      \/ UpdateCaption(f, tok) = EndCaption(f, tok)
      \/ UpdateCaption(f, tok) = EndCaption(f, f.pending \o tok)
      \/ UpdateCaption(f, tok) = [f EXCEPT !.pendingNewline = Contains(tok, "\n")]
  <2> DEFINE blank == f.pendingNewline /\ Head(tok) = " "
             other == f.pendingNewline /\ Head(tok) # " "
             more == f.ending /\ ~f.pendingNewline
             w == [f EXCEPT !.pendingNewline = FALSE]
             x == EndCaption(f, tok)
             y == EndCaption(f, f.pending \o tok)
             z == [f EXCEPT !.pendingNewline = Contains(tok, "\n")]
  <2>1. UpdateCaption(f, tok) =
          CASE blank -> w [] other -> x [] more -> y [] OTHER -> z
    BY DEF UpdateCaption
  <2> HIDE DEF blank, other, more, w, x, y, z
  <2>2. \/ UpdateCaption(f, tok) = w \/ UpdateCaption(f, tok) = x
        \/ UpdateCaption(f, tok) = y \/ UpdateCaption(f, tok) = z
    BY <2>1
  <2> QED
    BY <2>2 DEF w, x, y, z
<1>5. /\ Nears(f, [f EXCEPT !.pendingNewline = FALSE])
      /\ [f EXCEPT !.pendingNewline = FALSE].field # "codes"
  BY <1>3
<1>6. /\ Nears(f, [f EXCEPT !.pendingNewline = Contains(tok, "\n")])
      /\ [f EXCEPT !.pendingNewline = Contains(tok, "\n")].field # "codes"
  BY <1>3
<1> QED
  BY <1>4, <1>5, <1>6, EndCaptionNears, Zenon

LEMMA EndNears ==
  ASSUME NEW f, FsmOK(f), f.field = "think_end"
  PROVE  Nears(f, [f EXCEPT !.field = "codes"])
<1> DEFINE g == [f EXCEPT !.field = "codes"]
<1>1. /\ DOMAIN f = FsmParts /\ f.part \in {"name", "value"} /\ f.pos \in Nat
      /\ ~f.genres /\ f.queue = <<>>
      /\ \A c \in Constrained : IsSeq(f.forced[c]) /\ Len(f.forced[c]) <= Span - 4
  BY DEF FsmOK, InValue, Constrained
<1>2. /\ DOMAIN g = FsmParts /\ g.queue = f.queue /\ g.field = "codes" /\ g.part = f.part
      /\ g.pos = f.pos /\ g.forced = f.forced /\ g.genres = f.genres
  BY <1>1 DEF FsmParts
<1> HIDE DEF g
<1>3. ~InName(g) /\ ~InValue(g) /\ ~Boundless(f)
  BY <1>2 DEF InName, InValue, Boundless, Constrained
<1>4. FsmOK(g)
  BY <1>1, <1>2, <1>3, EmptyIsSeq DEF FsmOK
<1>5. Distance(f) = Span * 1 + 0 /\ Distance(g) = Span * 0 + 0
  BY <1>1, <1>2, DistanceEnd, LeftOf
<1>6. Distance(g) < Distance(f)
  BY <1>5, SpanRoom
<1> QED
  BY <1>3, <1>4, <1>6 DEF Nears, g

LEMMA IsSeqEqual ==
  ASSUME NEW x, NEW y, IsSeq(x), IsSeq(y), Len(x) = Len(y),
         \A j \in 1 .. Len(x) : x[j] = y[j]
  PROVE  x = y
BY DEF IsSeq

\* A token other than the newline goes on with a legal value.
LEMMA ContinuesValue ==
  ASSUME NEW f, FsmOK(f), InValue(f), f.forced[f.field] = <<>>,
         NEW tok \in Continuations(f), tok # Newline
  PROVE  Len(f.acc) + 1 <= Span - 4 /\ Len(f.acc) \in Nat
<1> DEFINE lines == {Append(v, Newline) : v \in Legal(f, f.field)}
           acc == f.acc
           next == {l[Len(acc) + 1] : l \in {l \in lines : IsStrictPrefix(acc, l)}}
<1>1. IsSeq(acc) /\ Len(acc) \in Nat
  BY DEF FsmOK, IsSeq
<1>2. tok \in next
  BY DEF Continuations
<1>3. PICK l \in lines : IsStrictPrefix(acc, l) /\ tok = l[Len(acc) + 1]
  BY <1>2
<1>4. PICK v \in Legal(f, f.field) : l = Append(v, Newline)
  BY <1>3
<1>5. IsSeq(v) /\ Len(v) <= Span - 4 /\ Len(v) \in Nat
  <2>1. v \in Values[f.field] /\ f.field \in Constrained
    BY <1>4 DEF Legal, InValue
  <2>2. v \in Seq(Seq(STRING)) /\ Len(v) <= Span - 4
    BY <2>1, ValuesAssumption
  <2>3. IsSeq(v)
    BY <2>2, SeqIsSeq
  <2> QED
    BY <2>2, <2>3 DEF IsSeq
<1>6. /\ IsSeq(l) /\ Len(l) = Len(v) + 1
      /\ l[Len(v) + 1] = Newline
  <2>1. /\ IsSeq(Append(v, Newline)) /\ Len(Append(v, Newline)) = Len(v) + 1
        /\ Append(v, Newline) =
             [j \in 1 .. Len(v) + 1 |-> IF j = Len(v) + 1 THEN Newline ELSE v[j]]
    BY <1>5, AppendIsSeq
  <2>2. Len(v) + 1 \in 1 .. Len(v) + 1
    BY <1>5
  <2> QED
    BY <1>4, <2>1, <2>2
<1>7. Len(acc) <= Len(l) /\ SubSeq(acc, 1, Len(acc)) = SubSeq(l, 1, Len(acc)) /\ acc # l
  BY <1>3 DEF IsStrictPrefix, IsPrefix
<1> HIDE DEF acc, lines, next
<1>8. Len(acc) # Len(l)
  <2> SUFFICES ASSUME Len(acc) = Len(l) PROVE FALSE
    OBVIOUS
  <2> DEFINE n == Len(l)
  <2>1. n \in Nat /\ Len(acc) = n
    BY <1>1
  <2>2. \A j \in 1 .. n : SubSeq(acc, 1, n)[j] = acc[j]
    BY <2>1, <1>1, IsSeqInSeq, SubSeqProperties
  <2>3. \A j \in 1 .. n : SubSeq(l, 1, n)[j] = l[j]
    BY <2>1, <1>6, IsSeqInSeq, SubSeqProperties
  <2>4. \A j \in 1 .. n : acc[j] = l[j]
    BY <2>1, <2>2, <2>3, <1>7
  <2> QED
    BY <2>1, <2>4, <1>1, <1>6, <1>7, IsSeqEqual
<1>9. Len(acc) # Len(v)
  <2> SUFFICES ASSUME Len(acc) = Len(v) PROVE FALSE
    OBVIOUS
  <2>1. tok = Newline
    BY <1>3, <1>6
  <2> QED
    BY <2>1
<1>10. Len(acc) + 1 <= Span - 4
  BY <1>1, <1>5, <1>6, <1>7, <1>8, <1>9, SpanRoom
<1> QED
  BY <1>1, <1>10 DEF acc

LEMMA ValueNears ==
  ASSUME NEW f, FsmOK(f), f.queue = <<>>, InValue(f), f.forced[f.field] = <<>>,
         NEW tok \in Continuations(f)
  PROVE  Nears(f, UpdateValue(f, tok)) /\ UpdateValue(f, tok).field # "codes"
<1> DEFINE a == Span * FieldsLeft[f.field]
           k == Len(f.acc)
<1>1. /\ DOMAIN f = FsmParts /\ f.field \in Constrained /\ f.part = "value" /\ f.pos \in Nat
      /\ ~f.genres /\ IsSeq(f.acc) /\ k <= Span - 4
      /\ \A c \in Constrained : IsSeq(f.forced[c]) /\ Len(f.forced[c]) <= Span - 4
  BY DEF FsmOK, InValue
<1>2. ~Boundless(f) /\ f.field \notin {"think_end", "codes"}
  BY <1>1 DEF Boundless, Constrained
<1>3. Distance(f) = a + (Span - 3 - k) /\ k \in Nat
  BY <1>1, DistanceValue DEF IsSeq
<1>4. a \in Nat
  BY FieldsScaled
<1>5. CASE tok = Newline
  <2> DEFINE g == Leave(f)
  <2>1. UpdateValue(f, tok) = g
    BY <1>5 DEF UpdateValue
  <2>2. FsmOK(g) /\ g.field # "codes" /\ Distance(g) \in Int /\ Distance(g) <= a - 1
    BY <1>2, LeaveNears
  <2> HIDE DEF a, g, k
  <2>3. Distance(g) < Distance(f)
    BY <1>1, <1>3, <1>4, <2>2, SpanRoom
  <2> QED
    BY <1>2, <2>1, <2>2, <2>3 DEF Nears
<1>6. CASE tok # Newline
  <2> DEFINE g == UpdateValue(f, tok)
             longer == Append(f.acc, tok)
  <2>1. g = [f EXCEPT !.acc = longer]
    BY <1>6 DEF UpdateValue
  <2>2. IsSeq(longer) /\ Len(longer) = k + 1
    BY <1>1, AppendIsSeq
  <2>3. k + 1 <= Span - 4
    BY <1>6, ContinuesValue
  <2> HIDE DEF g, longer
  <2>4. /\ DOMAIN g = FsmParts /\ g.queue = f.queue /\ g.field = f.field /\ g.part = f.part
        /\ g.pos = f.pos /\ g.acc = longer /\ g.forced = f.forced /\ g.genres = f.genres
    BY <1>1, <2>1 DEF FsmParts
  <2>5. InValue(g) /\ ~InName(g)
    BY <1>1, <2>4 DEF InValue, InName
  <2>6. FsmOK(g)
    BY <1>1, <2>2, <2>3, <2>4, <2>5, EmptyIsSeq DEF FsmOK
  <2>7. Distance(g) = a + (Span - 3 - (k + 1))
    <3>1. Distance(g) = a + (Span - 3 - Len(g.acc))
      BY <2>4, <2>5, DistanceValue
    <3> QED
      BY <3>1, <2>2, <2>4
  <2> HIDE DEF a, k
  <2>8. Distance(g) < Distance(f)
    BY <1>3, <1>4, <2>7, SpanRoom
  <2> QED
    BY <1>2, <2>4, <2>6, <2>8 DEF Nears, g
<1> QED
  BY <1>5, <1>6

\* Whatever the mask leaves, a step of the decoder brings the end nearer, and
\* nothing but </think> ends the header.
LEMMA DecoderNears ==
  ASSUME NEW f, FsmOK(f), f.field # "codes", NEW free, NEW audio,
         NEW tok \in Unmasked(Injected(f), free, audio)
  PROVE  LET g == UpdateFSM(Injected(f), tok)
         IN  Nears(f, g) /\ (g.field = "codes" => tok = EndOfThought)
<1>1. /\ f.field \in Constrained \cup {"caption", "think_end"}
      /\ f.part \in {"name", "value"}
      /\ f.queue # <<>> => InValue(f)
  BY DEF FsmOK
<1>2. CASE f.queue # <<>>
  <2>1. Injected(f) = f /\ ~Boundless(f)
    BY <1>1, <1>2, NotInjected DEF InValue, Boundless, Constrained
  <2>2. UpdateFSM(f, tok) = Consume(f)
    BY <1>2 DEF UpdateFSM
  <2> QED
    BY <1>2, <2>1, <2>2, ConsumeNears DEF Nears
<1>3. CASE f.queue = <<>> /\ InName(f)
  <2>1. Injected(f) = f
    BY <1>3, NotInjected DEF InValue, InName
  <2>2. UpdateFSM(f, tok) = UpdateName(f)
    <3>1. f.part = "name" /\ f.field \notin {"think_end", "codes"}
      BY <1>3 DEF InName, Constrained
    <3> QED
      BY <1>3, <3>1 DEF UpdateFSM, InCaption
  <2> QED
    BY <1>3, <2>1, <2>2, NameNears
<1>4. CASE f.queue = <<>> /\ InCaption(f)
  <2>1. Injected(f) = f /\ ~InName(f) /\ f.field = "caption"
    BY <1>4, NotInjected DEF InValue, InName, InCaption, Constrained
  <2>2. UpdateFSM(f, tok) = UpdateCaption(f, tok)
    BY <1>4, <2>1 DEF UpdateFSM
  <2> QED
    BY <1>4, <2>1, <2>2, CaptionNears
<1>5. CASE f.queue = <<>> /\ f.field = "think_end"
  <2>1. Injected(f) = f /\ ~InName(f) /\ ~InCaption(f)
    BY <1>5, NotInjected DEF InValue, InName, InCaption, Constrained
  <2>2. UpdateFSM(f, tok) = [f EXCEPT !.field = "codes"]
    BY <1>5, <2>1 DEF UpdateFSM
  <2>3. tok = EndOfThought
    BY <1>5, <2>1 DEF Unmasked
  <2> QED
    BY <1>5, <2>1, <2>2, <2>3, EndNears
<1>6. CASE f.queue = <<>> /\ InValue(f) /\ f.forced[f.field] # <<>>
  <2> DEFINE h == Injected(f)
  <2>1. /\ FsmOK(h) /\ h.queue # <<>>
        /\ Distance(h) \in Int /\ Distance(f) \in Int /\ Distance(h) <= Distance(f)
    BY <1>6, InjectNears
  <2>2. UpdateFSM(h, tok) = Consume(h)
    BY <2>1 DEF UpdateFSM
  <2> HIDE DEF h
  <2>3. /\ FsmOK(Consume(h)) /\ Consume(h).field # "codes"
        /\ Distance(Consume(h)) \in Int /\ Distance(Consume(h)) < Distance(h)
    BY <2>1, ConsumeNears
  <2>4. Distance(Consume(h)) < Distance(f)
    BY <2>1, <2>3
  <2>5. ~Boundless(f)
    BY <1>6 DEF InValue, Boundless, Constrained
  <2>6. Nears(f, Consume(h))
    BY <2>3, <2>4, <2>5 DEF Nears
  <2> QED
    BY <2>2, <2>3, <2>6 DEF h
<1>7. CASE f.queue = <<>> /\ InValue(f) /\ f.forced[f.field] = <<>>
  <2>1. /\ Injected(f) = f /\ ~InName(f) /\ ~InCaption(f)
        /\ f.field \notin {"think_end", "codes", "genres"}
    BY <1>7, NotInjected DEF InValue, InName, InCaption, Constrained
  <2>2. UpdateFSM(f, tok) = UpdateValue(f, tok)
    BY <1>7, <2>1 DEF UpdateFSM
  <2>3. tok \in Continuations(f)
    BY <1>7, <2>1 DEF Unmasked
  <2> QED
    BY <1>7, <2>1, <2>2, <2>3, ValueNears
<1>8. f.field = "think_end" \/ InName(f) \/ InCaption(f) \/ InValue(f)
  BY <1>1 DEF InName, InCaption, InValue
<1> QED
  BY <1>2, <1>3, <1>4, <1>5, <1>6, <1>7, <1>8

\* The decoders of phase 1: one that has ended its header masks nothing more.
FsmInv ==
    InPhase1 => \A i \in Seqs :
        /\ FsmOK(fsms[i])
        /\ batch.fsm /\ ~done[i] /\ ~inCodes[i] => fsms[i].field # "codes"

LEMMA SampledNears ==
  ASSUME FsmInv, InPhase1, NEW tok \in Samples1, Sampled1(tok), NEW i \in Seqs
  PROVE  /\ FsmOK(fsms'[i])
         /\ batch.fsm /\ ~done'[i] /\ ~inCodes'[i] => fsms'[i].field # "codes"
         /\ batch.fsm /\ i \in Active /\ ~inCodes[i] /\ gen'[i] # gen[i] =>
                Nears(fsms[i], fsms'[i])
<1> DEFINE f == fsms[i]
           g == UpdateFSM(Injected(f), tok[i])
           ends == tok[i] = EndOfTurn
           closes == tok[i] = EndOfThought /\ ~inCodes[i]
           stops == closes /\ StopAtReasoning(batch)
           taken == ~done[i] /\ ~ends /\ Masked(i)
<1>1. /\ gen'[i] = IF done[i] \/ ends THEN gen[i] ELSE Append(gen[i], tok[i])
      /\ fsms'[i] = IF taken THEN g ELSE f
      /\ inCodes'[i] = (inCodes[i] \/ (~done[i] /\ closes))
      /\ done'[i] = (done[i] \/ ends \/ stops)
  BY DEF Sampled1
<1>2. FsmOK(f) /\ (batch.fsm /\ ~done[i] /\ ~inCodes[i] => f.field # "codes")
  BY DEF FsmInv
<1>3. taken => batch.fsm /\ ~inCodes[i] /\ ~done[i]
  BY DEF Masked
<1>4. taken => Nears(f, g) /\ (g.field = "codes" => tok[i] = EndOfThought)
  <2> SUFFICES ASSUME taken PROVE Nears(f, g) /\ (g.field = "codes" => tok[i] = EndOfThought)
    OBVIOUS
  <2>1. i \in Active
    BY <1>3 DEF Active
  <2>2. tok[i] \in Samplable(i)
    BY <2>1 DEF Samples1
  <2>3. tok[i] \in Unmasked(Injected(f), Written(i), AudioCodes)
    BY <2>2 DEF Samplable
  <2>4. f.field # "codes"
    BY <1>2, <1>3
  <2> HIDE DEF f
  <2> QED
    BY <1>2, <2>3, <2>4, DecoderNears
<1>5. batch.fsm /\ ~done[i] /\ ~inCodes[i] /\ ~ends => taken
  BY DEF Masked
<1>6. Nears(f, g) => FsmOK(g)
  BY DEF Nears
<1>7. g.field = "codes" /\ tok[i] = EndOfThought /\ ~inCodes[i] /\ ~done[i] => inCodes'[i]
  BY <1>1
<1>8. ~done'[i] => ~done[i] /\ ~ends
  BY <1>1
<1>9. ~inCodes'[i] => ~inCodes[i]
  BY <1>1
<1>10. fsms'[i] = IF taken THEN g ELSE f
  BY <1>1
<1>11. gen'[i] # gen[i] => ~done[i] /\ ~ends
  BY <1>1
<1> HIDE DEF f, g, taken, ends, closes
<1>12. FsmOK(fsms'[i])
  BY <1>2, <1>4, <1>6, <1>10
<1>13. batch.fsm /\ ~done'[i] /\ ~inCodes'[i] => fsms'[i].field # "codes"
  <2> SUFFICES ASSUME batch.fsm, ~done'[i], ~inCodes'[i] PROVE fsms'[i].field # "codes"
    OBVIOUS
  <2>1. taken
    BY <1>5, <1>8, <1>9
  <2>2. fsms'[i] = g
    BY <1>10, <2>1
  <2>3. ~(g.field = "codes")
    BY <1>3, <1>4, <1>7, <2>1
  <2> QED
    BY <2>2, <2>3
<1>14. batch.fsm /\ ~done[i] /\ ~inCodes[i] /\ gen'[i] # gen[i] => Nears(f, fsms'[i])
  BY <1>4, <1>5, <1>10, <1>11
<1> QED
  BY <1>12, <1>13, <1>14 DEF f, Active

\* The decoder that a request begins with.
LEMMA FreshOK ==
  ASSUME NEW b, NEW r \in LmRequests
  PROVE  FsmOK(RequestFSM(b, r)) /\ RequestFSM(b, r).field # "codes"
<1> DEFINE forced == [c \in Constrained |-> [k \in DOMAIN r.given[c] |-> <<r.given[c][k]>>]]
           f == RequestFSM(b, r)
<1>1. ASSUME NEW c \in Constrained
      PROVE  IsSeq(forced[c]) /\ Len(forced[c]) <= Span - 4
  <2> DEFINE v == r.given[c]
             w == forced[c]
  <2>1. v \in Seq(STRING) /\ Len(v) <= Span - 4
    BY DEF LmRequests
  <2>2. Len(v) \in Nat /\ DOMAIN v = 1 .. Len(v)
    BY <2>1, LenProperties
  <2>3. w = [k \in 1 .. Len(v) |-> w[k]]
    BY <2>2
  <2> HIDE DEF v, w
  <2>4. IsSeq(w) /\ Len(w) = Len(v)
    BY <2>2, <2>3, FunctionIsSeq
  <2> QED
    BY <2>1, <2>4 DEF v, w
<1>2. /\ DOMAIN f = FsmParts /\ f.field = "bpm" /\ f.part = "name" /\ f.pos = 0
      /\ f.queue = <<>> /\ f.forced = forced /\ ~f.genres
  BY DEF RequestFSM, FreshFSM, FsmParts
<1> HIDE DEF f, forced
<1>3. ~InValue(f) /\ f.field \in Constrained /\ f.field # "codes"
  BY <1>2 DEF InValue, Constrained
<1>4. FsmOK(f)
  BY <1>1, <1>2, <1>3, EmptyIsSeq DEF FsmOK
<1> QED
  BY <1>3, <1>4 DEF f

LEMMA FsmBegins ==
  ASSUME CallInv, NEW b, BeginPhase1(b)
  PROVE  FsmInv'
<1>1. b \in LmCalls /\ Accepted(b) /\ batch' = b
  BY NextCall DEF BeginPhase1, Ready
<1>2. fsms' = [i \in DOMAIN b.reqs |-> RequestFSM(b, b.reqs[i])]
  BY Zenon DEF BeginPhase1
<1>3. Seqs' = DOMAIN b.reqs /\ \A i \in DOMAIN b.reqs : b.reqs[i] \in LmRequests
  <2>1. b.reqs \in Seq(LmRequests)
    BY <1>1 DEF LmCalls
  <2>2. DOMAIN b.reqs = 1 .. Len(b.reqs) /\ \A i \in DOMAIN b.reqs : b.reqs[i] \in LmRequests
    BY <2>1, LenProperties
  <2>3. Seqs' = 1 .. Len(b.reqs)
    BY <1>1 DEF Seqs, N
  <2> QED
    BY <2>2, <2>3
<1>4. ASSUME NEW i \in DOMAIN b.reqs
      PROVE  FsmOK(fsms'[i]) /\ fsms'[i].field # "codes"
  <2>1. b.reqs[i] \in LmRequests
    BY <1>3
  <2>2. fsms'[i] = RequestFSM(b, b.reqs[i])
    BY <1>2
  <2> QED
    BY <2>1, <2>2, FreshOK
<1> QED
  BY <1>3, <1>4 DEF FsmInv

\* First1 and Decode1.
LEMMA PhaseNears ==
  ASSUME FsmInv, InPhase1, batch' = batch, \E tok \in Samples1 : Sampled1(tok)
  PROVE  /\ FsmInv'
         /\ batch.fsm => \A i \in Active : ~inCodes[i] /\ gen'[i] # gen[i] =>
                            Nears(fsms[i], fsms'[i])
<1>1. PICK tok \in Samples1 : Sampled1(tok)
  OBVIOUS
<1>2. Seqs' = Seqs
  BY DEF Seqs, N
<1>3. \A i \in Seqs :
         /\ FsmOK(fsms'[i])
         /\ batch.fsm /\ ~done'[i] /\ ~inCodes'[i] => fsms'[i].field # "codes"
         /\ batch.fsm /\ i \in Active /\ ~inCodes[i] /\ gen'[i] # gen[i] =>
                Nears(fsms[i], fsms'[i])
  BY <1>1, SampledNears
<1>4. FsmInv'
  BY <1>2, <1>3 DEF FsmInv
<1>5. Active \subseteq Seqs
  BY DEF Active
<1> QED
  BY <1>3, <1>4, <1>5

LEMMA InPhase1Comes ==
  ASSUME UnderstandNext, InPhase1'
  PROVE  \/ \E b : BeginPhase1(b)
         \/ First1 \/ Decode1
         \/ UNCHANGED vars
<1>1. CASE \E b : Reject(b) \/ BeginWithout(b) \/ BeginPhase1(b)
  BY <1>1 DEF Reject, BeginWithout, Return, InPhase1
<1>2. CASE \E b : RefuseUnderstand(b) \/ BeginUnderstand(b)
  BY <1>2 DEF RefuseUnderstand, BeginUnderstand, Return, InPhase1
<1>3. CASE Merge \/ EndPhase2 \/ Cancelled \/ EndUnderstand \/ FailUnderstand
  <2>1. stage' \in {"returned", "phase2", "failed"}
    BY <1>3, Zenon DEF Merge, EndPhase2, Cancelled, EndUnderstand, FailUnderstand, Return
  <2> QED
    BY <2>1 DEF InPhase1
<1>4. CASE BeginPhase2 \/ First2
  BY <1>4 DEF BeginPhase2, First2, InPhase1
<1>5. CASE Decode2
  BY <1>5 DEF Decode2, InPhase1
<1>6. CASE AnswerToken
  BY <1>6 DEF AnswerToken, InPhase1
<1>7. CASE Returned
  BY <1>7 DEF Returned
<1> QED
  BY <1>1, <1>2, <1>3, <1>4, <1>5, <1>6, <1>7, Actions

LEMMA FsmStep == CallInv /\ FsmInv /\ [UnderstandNext]_vars => FsmInv'
<1> SUFFICES ASSUME CallInv, FsmInv, [UnderstandNext]_vars, InPhase1' PROVE FsmInv'
  BY DEF FsmInv
<1>1. CASE \E b : BeginPhase1(b)
  BY <1>1, FsmBegins
<1>2. CASE First1 \/ Decode1
  <2>1. InPhase1 /\ batch' = batch /\ \E tok \in Samples1 : Sampled1(tok)
    BY <1>2 DEF First1, Decode1, InPhase1
  <2> QED
    BY <2>1, PhaseNears
<1>3. CASE UNCHANGED vars
  <2>1. stage' = stage /\ batch' = batch /\ fsms' = fsms /\ done' = done /\ inCodes' = inCodes
    BY <1>3 DEF vars, seqVars
  <2>2. Seqs' = Seqs
    BY <2>1 DEF Seqs, N
  <2> QED
    BY <2>1, <2>2 DEF FsmInv, InPhase1
<1> QED
  BY <1>1, <1>2, <1>3, InPhase1Comes

\* The body of HeaderProgress, from the invariant.
LEMMA ProgressStep ==
  ASSUME FsmInv, [UnderstandNext]_vars, stage' = "phase1", batch.fsm,
         NEW i \in Active, ~inCodes[i], gen'[i] # gen[i]
  PROVE  Nears(fsms[i], fsms'[i])
<1>1. InPhase1'
  BY DEF InPhase1
<1>2. ~UNCHANGED vars
  BY DEF vars, seqVars
<1>3. \A b : ~BeginPhase1(b)
  BY DEF BeginPhase1
<1>4. First1 \/ Decode1
  BY <1>1, <1>2, <1>3, InPhase1Comes
<1>5. InPhase1 /\ batch' = batch /\ \E tok \in Samples1 : Sampled1(tok)
  BY <1>4 DEF First1, Decode1, InPhase1
<1> QED
  BY <1>5, PhaseNears

\* Outside of a caption every token that phase 1 writes under the mask brings
\* the end of its header nearer, and within a caption none moves it away, for
\* every vocabulary of values, batch and choice of the LM.
THEOREM HeadersEnd == UnderstandSpec => HeaderProgress
<1>1. Init => CallInv /\ FsmInv
  <2>1. Init => ~InPhase1
    BY DEF Init, InPhase1
  <2> QED
    BY <2>1, CallsInit DEF FsmInv
<1>2. CallInv /\ FsmInv /\ [UnderstandNext]_vars => (CallInv /\ FsmInv)'
  BY CallsStep, FsmStep
<1>3. FsmInv /\ [UnderstandNext]_vars =>
        [stage' = "phase1" /\ batch.fsm =>
           \A i \in Active : ~inCodes[i] /\ gen'[i] # gen[i] =>
              IF Boundless(fsms[i])
              THEN Distance(fsms'[i]) <= Distance(fsms[i])
              ELSE Distance(fsms'[i]) < Distance(fsms[i])]_vars
  BY ProgressStep DEF Nears
<1> QED
  BY <1>1, <1>2, <1>3, PTL DEF UnderstandSpec, HeaderProgress

-----------------------------------------------------------------------------
(* Texts.                                                                    *)

LEMMA PartIsSeq ==
  ASSUME NEW x, IsSeq(x), NEW a \in Nat \ {0}, NEW b \in Nat, a - 1 <= b, b <= Len(x)
  PROVE  /\ IsSeq(SubSeq(x, a, b)) /\ Len(SubSeq(x, a, b)) = b - a + 1
         /\ \A q \in 1 .. b - a + 1 : SubSeq(x, a, b)[q] = x[a + q - 1]
<1> DEFINE S == {x[j] : j \in 1 .. Len(x)}
           y == SubSeq(x, a, b)
<1>1. Len(x) \in Nat
  BY DEF IsSeq
<1>2. \A i \in a .. b : x[i] \in S
  BY <1>1
<1> HIDE DEF S
<1>3. /\ y \in Seq(S) /\ Len(y) = (IF a <= b THEN b - a + 1 ELSE 0)
      /\ \A i \in 1 .. b - a + 1 : y[i] = x[a + i - 1]
  BY <1>2, SubSeqProperties
<1>4. (IF a <= b THEN b - a + 1 ELSE 0) = b - a + 1
  OBVIOUS
<1> HIDE DEF y
<1>5. IsSeq(y)
  BY <1>3, SeqIsSeq
<1> QED
  BY <1>3, <1>4, <1>5 DEF y

\* Two texts that agree up to n.
Agree(x, y, n) == n <= Len(x) /\ n <= Len(y) /\ \A q \in 1 .. n : x[q] = y[q]

LEMMA WholePart ==
  ASSUME NEW x, IsSeq(x)
  PROVE  SubSeq(x, 1, Len(x)) = x
<1> DEFINE n == Len(x)
           y == SubSeq(x, 1, n)
<1>1. n \in Nat /\ 1 - 1 <= n /\ n <= n /\ n - 1 + 1 = n
  BY DEF IsSeq
<1>2. IsSeq(y) /\ Len(y) = n - 1 + 1 /\ \A q \in 1 .. n - 1 + 1 : y[q] = x[1 + q - 1]
  <2> HIDE DEF n
  <2>1. 1 \in Nat \ {0}
    OBVIOUS
  <2>2. n = Len(x)
    BY DEF n
  <2> QED
    BY <1>1, <2>1, <2>2, PartIsSeq
<1> HIDE DEF y
<1>3. \A q \in 1 .. Len(y) : y[q] = x[q]
  <2>1. \A q \in 1 .. n : 1 + q - 1 = q
    BY <1>1
  <2> QED
    BY <1>1, <1>2, <2>1
<1>4. Len(y) = Len(x)
  BY <1>1, <1>2
<1> QED
  BY <1>2, <1>3, <1>4, IsSeqEqual DEF y, n

\* What an appended token leaves.
LEMMA AppendAgrees ==
  ASSUME NEW x, IsSeq(x), NEW t
  PROVE  /\ IsSeq(Append(x, t)) /\ Len(Append(x, t)) = Len(x) + 1 /\ Len(x) \in Nat
         /\ Append(x, t)[Len(x) + 1] = t
         /\ Agree(x, Append(x, t), Len(x))
<1> DEFINE y == Append(x, t)
           n == Len(x)
<1>1. /\ IsSeq(y) /\ Len(y) = n + 1
      /\ y = [j \in 1 .. n + 1 |-> IF j = n + 1 THEN t ELSE x[j]]
  BY AppendIsSeq
<1>2. n \in Nat
  BY DEF IsSeq
<1> HIDE DEF y, n
<1>3. y[n + 1] = t /\ \A q \in 1 .. n : y[q] = x[q]
  BY <1>1, <1>2
<1>4. n <= n /\ n <= n + 1
  BY <1>2
<1> QED
  BY <1>1, <1>2, <1>3, <1>4 DEF Agree, y, n

\* The part from a on of a text with one more token.
LEMMA PartGrows ==
  ASSUME NEW x, IsSeq(x), NEW t, NEW a \in Nat \ {0}, a - 1 <= Len(x)
  PROVE  SubSeq(Append(x, t), a, Len(x) + 1) = Append(SubSeq(x, a, Len(x)), t)
<1> DEFINE y == Append(x, t)
           n == Len(x)
           u == SubSeq(x, a, n)
           v == SubSeq(y, a, n + 1)
           w == Append(u, t)
<1>1. /\ IsSeq(y) /\ Len(y) = n + 1 /\ n \in Nat /\ y[n + 1] = t
      /\ \A q \in 1 .. n : x[q] = y[q]
  BY AppendAgrees DEF Agree
<1> HIDE DEF y
<1>2. IsSeq(u) /\ Len(u) = n - a + 1 /\ \A q \in 1 .. n - a + 1 : u[q] = x[a + q - 1]
  <2> HIDE DEF n
  <2>1. n = Len(x)
    BY DEF n
  <2> QED
    BY <1>1, <2>1, PartIsSeq
<1>3. /\ IsSeq(v) /\ Len(v) = (n + 1) - a + 1
      /\ \A q \in 1 .. (n + 1) - a + 1 : v[q] = y[a + q - 1]
  <2> HIDE DEF n
  <2>1. n + 1 \in Nat /\ a - 1 <= n + 1 /\ n + 1 <= Len(y)
    BY <1>1 DEF n
  <2> QED
    BY <1>1, <2>1, PartIsSeq
<1> HIDE DEF u, v
<1>4. IsSeq(w) /\ Len(w) = Len(u) + 1 /\ w[Len(u) + 1] = t /\ \A q \in 1 .. Len(u) : u[q] = w[q]
  <2>1. IsSeq(w) /\ Len(w) = Len(u) + 1 /\ w[Len(u) + 1] = t /\ Agree(u, w, Len(u))
    BY <1>2, AppendAgrees, Zenon
  <2> QED
    BY <2>1, Zenon DEF Agree
<1> HIDE DEF w
<1>5. a - 1 <= n
  BY DEF n
<1> HIDE DEF n
<1>6. ASSUME NEW q \in 1 .. Len(v) PROVE v[q] = w[q]
  <2>1. CASE q <= n - a + 1
    <3>1. q \in 1 .. n - a + 1 /\ a + q - 1 \in 1 .. n
      BY <1>1, <1>3, <2>1
    <3> QED
      BY <1>1, <1>2, <1>3, <1>4, <3>1
  <2>2. CASE ~(q <= n - a + 1)
    <3>1. q = n - a + 2 /\ a + q - 1 = n + 1
      BY <1>1, <1>3, <2>2
    <3>2. Len(u) + 1 = q
      BY <1>1, <1>2, <3>1
    <3> QED
      BY <1>1, <1>3, <1>4, <3>1, <3>2
  <2> QED
    BY <2>1, <2>2
<1>7. Len(v) = Len(w)
  BY <1>1, <1>2, <1>3, <1>4, <1>5
<1> QED
  BY <1>3, <1>4, <1>6, <1>7, IsSeqEqual DEF u, v, w, y, n

-----------------------------------------------------------------------------
(* The text of tokens.                                                       *)

Joined(f, s, i) == IF i = 1 THEN s[i] ELSE f[i - 1] \o s[i]
JoinOf(s) == CHOOSE f : f = [i \in 1 .. Len(s) |-> IF i = 1 THEN s[i] ELSE f[i - 1] \o s[i]]
Joins(f, s, n) == f = [i \in 1 .. n |-> Joined(f, s, i)]

LEMMA JoinExists ==
  ASSUME NEW s, NEW n \in Nat
  PROVE  \E f : Joins(f, s, n)
<1> DEFINE T == {k \in 0 .. n : \E f : Joins(f, s, k)}
<1>1. \E f : Joins(f, s, 0)
  <2> DEFINE f == [i \in 1 .. 0 |-> 0]
  <2>1. [i \in 1 .. 0 |-> Joined(f, s, i)] = f
    OBVIOUS
  <2> HIDE DEF f
  <2>2. Joins(f, s, 0)
    BY <2>1 DEF Joins
  <2> QED
    BY <2>2
<1>2. ASSUME NEW k \in 1 .. n, \E f : Joins(f, s, k - 1) PROVE \E f : Joins(f, s, k)
  <2>1. PICK g : Joins(g, s, k - 1)
    BY <1>2
  <2> DEFINE e == Joined(g, s, k)
             f == [i \in 1 .. k |-> IF i = k THEN e ELSE g[i]]
  <2>2. k \in Nat /\ k >= 1
    OBVIOUS
  <2>3. \A i \in 1 .. k - 1 : g[i] = Joined(g, s, i)
    BY <2>1 DEF Joins
  <2> HIDE DEF e
  <2>4. f[k] = e /\ \A i \in 1 .. k - 1 : f[i] = g[i]
    BY <2>2
  <2>5. f = [i \in 1 .. k |-> f[i]]
    OBVIOUS
  <2> HIDE DEF f
  <2>6. ASSUME NEW i \in 1 .. k PROVE f[i] = Joined(f, s, i)
    <3>1. CASE i = k
      <4>1. i # 1 => f[i - 1] = g[k - 1]
        BY <3>1, <2>2, <2>4
      <4> QED
        BY <3>1, <4>1, <2>4 DEF e, Joined
    <3>2. CASE i # k
      <4>1. i \in 1 .. k - 1
        BY <3>2, <2>2
      <4>2. i # 1 => i - 1 \in 1 .. k - 1
        BY <4>1, <2>2
      <4>3. f[i] = g[i] /\ (i # 1 => f[i - 1] = g[i - 1])
        BY <4>1, <4>2, <2>4
      <4> QED
        BY <4>1, <4>3, <2>3, Zenon DEF Joined
    <3> QED
      BY <3>1, <3>2
  <2>7. Joins(f, s, k)
    BY <2>5, <2>6 DEF Joins
  <2> QED
    BY <2>7
<1>3. T \in SUBSET (0 .. n) /\ 0 \in T /\ \A k \in 1 .. n : k - 1 \in T => k \in T
  BY <1>1, <1>2
<1>4. T = 0 .. n
  <2> HIDE DEF T
  <2> QED
    BY <1>3, Induction
<1> QED
  BY <1>4

LEMMA JoinIs ==
  ASSUME NEW s, IsSeq(s)
  PROVE  /\ Len(s) # 0 => FlattenSeq(s) = JoinOf(s)[Len(s)]
         /\ \A i \in 1 .. Len(s) : JoinOf(s)[i] = Joined(JoinOf(s), s, i)
<1> DEFINE n == Len(s)
           f == JoinOf(s)
<1>1. n # 0 => FlattenSeq(s) = f[n]
  BY Zenon DEF FlattenSeq, JoinOf
<1>2. n \in Nat
  BY DEF IsSeq
<1>3. Joins(f, s, n)
  <2>1. f = CHOOSE g : g = [i \in 1 .. n |-> IF i = 1 THEN s[i] ELSE g[i - 1] \o s[i]]
    BY Zenon DEF JoinOf
  <2>2. f = CHOOSE g : Joins(g, s, n)
    BY <2>1, Zenon DEF Joins, Joined
  <2> HIDE DEF n, f
  <2> QED
    BY <1>2, <2>2, JoinExists, Zenon
<1> HIDE DEF n, f
<1>4. \A i \in 1 .. n : f[i] = Joined(f, s, i)
  BY <1>3, Zenon DEF Joins
<1> QED
  BY <1>1, <1>4 DEF n, f

\* One more token adds its text.
LEMMA TextGrows ==
  ASSUME NEW s, IsSeq(s), NEW t, IsSeq(t)
  PROVE  FlattenSeq(Append(s, t)) = FlattenSeq(s) \o t
<1> DEFINE n == Len(s)
           y == Append(s, t)
           f == JoinOf(s)
           h == JoinOf(y)
<1>1. /\ IsSeq(y) /\ Len(y) = n + 1 /\ n \in Nat /\ y[n + 1] = t
      /\ \A q \in 1 .. n : s[q] = y[q]
  BY AppendAgrees DEF Agree
<1> HIDE DEF y
<1>2. /\ n # 0 => FlattenSeq(s) = f[n]
      /\ \A i \in 1 .. n : f[i] = Joined(f, s, i)
  BY JoinIs
<1>3. /\ FlattenSeq(y) = h[n + 1]
      /\ \A i \in 1 .. n + 1 : h[i] = Joined(h, y, i)
  BY <1>1, JoinIs
<1> HIDE DEF f, h
<1>4. CASE n = 0
  <2>1. s = <<>>
    BY <1>4, NothingIsEmpty DEF n
  <2>2. FlattenSeq(s) = <<>>
    BY <1>4, <2>1 DEF FlattenSeq, n
  <2>3. FlattenSeq(y) = t
    <3>1. n + 1 = 1 /\ 1 \in 1 .. n + 1
      BY <1>4
    <3>2. h[1] = Joined(h, y, 1)
      BY <1>3, <3>1
    <3>3. h[1] = y[1]
      BY <3>2 DEF Joined
    <3> QED
      BY <1>1, <1>3, <3>1, <3>3
  <2>4. <<>> \o t = t
    BY IsSeqInSeq, ConcatEmptySeq
  <2> QED
    BY <2>2, <2>3, <2>4 DEF y
<1>5. CASE n # 0
  <2> DEFINE T == {k \in 0 .. n : k = 0 \/ h[k] = f[k]}
  <2>1. ASSUME NEW k \in 1 .. n, k - 1 \in T PROVE h[k] = f[k]
    <3>1. /\ f[k] = Joined(f, s, k) /\ h[k] = Joined(h, y, k) /\ s[k] = y[k]
          /\ k # 1 => h[k - 1] = f[k - 1]
      <4>1. k \in 1 .. n + 1 /\ (k # 1 => k - 1 # 0)
        BY <1>1
      <4> QED
        BY <4>1, <1>1, <1>2, <1>3, <2>1
    <3> QED
      BY <3>1, Zenon DEF Joined
  <2>2. T \in SUBSET (0 .. n) /\ 0 \in T /\ \A k \in 1 .. n : k - 1 \in T => k \in T
    BY <1>1, <2>1
  <2>3. T = 0 .. n
    <3> HIDE DEF T
    <3> QED
      BY <1>1, <2>2, Induction
  <2>4. h[n] = f[n]
    BY <1>1, <1>5, <2>3
  <2>5. h[n + 1] = h[n] \o t
    <3>1. n + 1 \in 1 .. n + 1 /\ n + 1 # 1 /\ (n + 1) - 1 = n
      BY <1>1, <1>5
    <3>2. h[n + 1] = Joined(h, y, n + 1)
      BY <3>1, <1>3
    <3> QED
      BY <3>1, <3>2, <1>1 DEF Joined
  <2> QED
    BY <1>2, <1>3, <1>5, <2>4, <2>5 DEF y
<1> QED
  BY <1>4, <1>5

-----------------------------------------------------------------------------
(* Places in a text.                                                         *)

LEMMA MinIs ==
  ASSUME NEW T \in SUBSET Nat, T # {}
  PROVE  Min(T) \in T /\ \A y \in T : Min(T) <= y
<1>1. \E x \in T : \A y \in T : x <= y
  BY SmallestOf
<1>2. Min(T) = CHOOSE x \in T : \A y \in T : x <= y
  BY Zenon DEF Min
<1> QED
  BY <1>1, <1>2, Zenon

LEMMA MaxIs ==
  ASSUME NEW n \in Nat, NEW T \in SUBSET (1 .. n), T # {}
  PROVE  Max(T) \in T /\ \A y \in T : Max(T) >= y
<1> DEFINE R == {n - x : x \in T}
<1>1. R \in SUBSET Nat /\ R # {}
  <2>1. \A x \in T : n - x \in Nat
    OBVIOUS
  <2>2. PICK x \in T : TRUE
    OBVIOUS
  <2>3. n - x \in R
    OBVIOUS
  <2> QED
    BY <2>1, <2>3
<1>2. PICK m \in R : \A y \in R : m <= y
  <2> HIDE DEF R
  <2> QED
    BY <1>1, SmallestOf
<1>3. PICK x \in T : m = n - x
  BY <1>2
<1>4. ASSUME NEW y \in T PROVE x >= y
  <2>1. n - x <= n - y
    BY <1>2, <1>3
  <2>2. x \in Nat /\ y \in Nat
    OBVIOUS
  <2> HIDE DEF R
  <2> QED
    BY <2>1, <2>2
<1>5. Max(T) = CHOOSE u \in T : \A y \in T : u >= y
  BY Zenon DEF Max
<1> QED
  BY <1>4, <1>5, Zenon

\* The first place where something is, and the last.
FirstOf(I) == IF I # {} THEN Min(I) ELSE 0
LastOfThese(I) == IF I # {} THEN Max(I) ELSE 0

LEMMA FirstIs ==
  ASSUME NEW n \in Nat, NEW I \in SUBSET (1 .. n)
  PROVE  /\ I = {} => FirstOf(I) = 0
         /\ I # {} => FirstOf(I) \in I /\ \A y \in I : FirstOf(I) <= y
<1>1. I \in SUBSET Nat
  OBVIOUS
<1> QED
  BY <1>1, MinIs DEF FirstOf

LEMMA LastIs ==
  ASSUME NEW n \in Nat, NEW I \in SUBSET (1 .. n)
  PROVE  /\ I = {} => LastOfThese(I) = 0
         /\ I # {} => LastOfThese(I) \in I /\ \A y \in I : LastOfThese(I) >= y
BY MaxIs DEF LastOfThese

\* The first newline from i on is at b.
LEMMA NewlineAt ==
  ASSUME NEW h, NEW n \in Nat, n = Len(h), NEW i \in Nat \ {0}, NEW b \in i .. n,
         h[b] = Newline, \A q \in i .. b - 1 : h[q] # Newline
  PROVE  NewlineFrom(h, i) = b
<1> DEFINE I == {q \in i .. n : h[q] = Newline}
<1>1. NewlineFrom(h, i) = FirstOf(I)
  BY Zenon DEF NewlineFrom, SelectInSubSeq, FirstOf
<1>2. b \in I /\ I \in SUBSET (1 .. n) /\ \A q \in I : ~(q < b)
  OBVIOUS
<1> HIDE DEF I
<1>3. FirstOf(I) \in I /\ FirstOf(I) <= b
  BY <1>2, FirstIs
<1> DEFINE c == FirstOf(I)
<1>4. c \in 1 .. n /\ c <= b /\ ~(c < b)
  BY <1>2, <1>3
<1> HIDE DEF c
<1>5. c = b
  BY <1>4
<1> QED
  BY <1>1, <1>5 DEF c

\* The pieces that count, by name.
Blank == " "
Break == "\n"
Stop == ":"

\* A text up to the last piece that is no blank.
LastWord(x) == SelectLastInSeq(x, LAMBDA a : a # Blank)

LEMMA LastWordIs ==
  ASSUME NEW x, NEW n \in Nat, n = Len(x)
  PROVE  /\ LastWord(x) \in 0 .. n
         /\ LastWord(x) # 0 => x[LastWord(x)] # Blank
         /\ \A q \in LastWord(x) + 1 .. n : x[q] = Blank
<1> DEFINE I == {q \in 1 .. n : x[q] # Blank}
           m == LastWord(x)
<1>1. m = LastOfThese(I)
  BY Zenon DEF LastWord, SelectLastInSeq, LastOfThese
<1>2. I \in SUBSET (1 .. n)
  OBVIOUS
<1>3. /\ I = {} => m = 0
      /\ I # {} => m \in I /\ \A y \in I : m >= y
  <2> HIDE DEF I, m
  <2> QED
    BY <1>1, <1>2, LastIs, Zenon
<1> HIDE DEF m
<1>4. CASE I = {}
  <2>1. m = 0 /\ \A q \in 1 .. n : x[q] = Blank
    BY <1>3, <1>4
  <2>2. \A q \in 0 + 1 .. n : q \in 1 .. n
    OBVIOUS
  <2> QED
    BY <2>1, <2>2 DEF m
<1>5. CASE I # {}
  <2>1. m \in 1 .. n /\ x[m] # Blank /\ \A q \in 1 .. n : x[q] # Blank => m >= q
    BY <1>3, <1>5
  <2>2. \A q \in m + 1 .. n : q \in 1 .. n /\ ~(m >= q)
    BY <2>1
  <2>3. m \in 0 .. n
    BY <2>1
  <2> QED
    BY <2>1, <2>2, <2>3 DEF m
<1> QED
  BY <1>4, <1>5

LEMMA LastWordAt ==
  ASSUME NEW x, NEW n \in Nat, n = Len(x), NEW m \in 1 .. n, x[m] # Blank,
         \A q \in m + 1 .. n : x[q] = Blank
  PROVE  LastWord(x) = m
<1> DEFINE k == LastWord(x)
<1>1. /\ k \in 0 .. n
      /\ k # 0 => x[k] # Blank
      /\ \A q \in k + 1 .. n : x[q] = Blank
  BY LastWordIs
<1> HIDE DEF k
<1>2. ~(k < m)
  <2>1. k < m => m \in k + 1 .. n
    BY <1>1
  <2> QED
    BY <1>1, <2>1
<1>3. ~(k > m)
  <2>1. k > m => k \in m + 1 .. n /\ k # 0
    BY <1>1
  <2> QED
    BY <1>1, <2>1
<1>4. k = m
  BY <1>1, <1>2, <1>3
<1> QED
  BY <1>4 DEF k

LEMMA NoTailIs == ASSUME NEW x PROVE NoTail(x) = SubSeq(x, 1, LastWord(x))
BY Zenon DEF NoTail, LastWord, Blank

\* Prefixes and suffixes, piece by piece.
LEMMA FrontPart ==
  ASSUME NEW x, IsSeq(x), NEW b \in Nat, b <= Len(x)
  PROVE  IsSeq(SubSeq(x, 1, b)) /\ Len(SubSeq(x, 1, b)) = b
         /\ \A q \in 1 .. b : SubSeq(x, 1, b)[q] = x[q]
<1> DEFINE y == SubSeq(x, 1, b)
<1>1. 1 \in Nat \ {0} /\ 1 - 1 <= b /\ b - 1 + 1 = b
  OBVIOUS
<1>2. /\ IsSeq(y) /\ Len(y) = b - 1 + 1
      /\ \A q \in 1 .. b - 1 + 1 : y[q] = x[1 + q - 1]
  BY <1>1, PartIsSeq
<1>3. \A q \in 1 .. b : 1 + q - 1 = q
  OBVIOUS
<1> HIDE DEF y
<1> QED
  BY <1>1, <1>2, <1>3 DEF y

LEMMA PrefixIs ==
  ASSUME NEW x, NEW y, IsSeq(x), IsSeq(y)
  PROVE  IsPrefix(x, y) <=> Len(x) <= Len(y) /\ \A q \in 1 .. Len(x) : x[q] = y[q]
<1> DEFINE n == Len(x)
           u == SubSeq(x, 1, n)
           v == SubSeq(y, 1, n)
<1>1. IsPrefix(x, y) <=> n <= Len(y) /\ u = v
  BY Zenon DEF IsPrefix
<1>2. n \in Nat /\ n <= n
  BY DEF IsSeq
<1>3. u = x
  BY WholePart
<1>4. n <= Len(y) => IsSeq(v) /\ Len(v) = n /\ \A q \in 1 .. n : v[q] = y[q]
  BY <1>2, FrontPart
<1>5. u = v /\ n <= Len(y) => \A q \in 1 .. n : x[q] = y[q]
  <2> HIDE DEF u, v, n
  <2> QED
    BY <1>3, <1>4
<1>6. n <= Len(y) /\ (\A q \in 1 .. n : x[q] = y[q]) => u = v
  <2> SUFFICES ASSUME n <= Len(y), \A q \in 1 .. n : x[q] = y[q] PROVE u = v
    OBVIOUS
  <2> HIDE DEF u, v
  <2>1. IsSeq(v) /\ Len(v) = Len(x) /\ \A q \in 1 .. Len(x) : x[q] = v[q]
    BY <1>4
  <2> QED
    BY <1>3, <2>1, IsSeqEqual
<1> QED
  BY <1>1, <1>5, <1>6

LEMMA ReverseIs ==
  ASSUME NEW x, IsSeq(x), NEW n, n = Len(x)
  PROVE  /\ IsSeq(Reverse(x)) /\ Len(Reverse(x)) = n /\ n \in Nat
         /\ \A i \in 1 .. n : Reverse(x)[i] = x[n - i + 1]
<1> DEFINE y == Reverse(x)
<1>1. n \in Nat
  BY DEF IsSeq
<1>2. y = [i \in 1 .. n |-> x[(n - i) + 1]]
  BY Zenon DEF Reverse
<1> HIDE DEF y
<1>3. y = [i \in 1 .. n |-> y[i]] /\ \A i \in 1 .. n : y[i] = x[(n - i) + 1]
  BY <1>2
<1>4. IsSeq(y) /\ Len(y) = n
  BY <1>1, <1>3, FunctionIsSeq
<1> QED
  BY <1>1, <1>3, <1>4 DEF y

LEMMA PairIsSeq ==
  ASSUME NEW a, NEW b
  PROVE  IsSeq(<<a, b>>) /\ Len(<<a, b>>) = 2 /\ <<a, b>>[1] = a /\ <<a, b>>[2] = b
<1>1. <<a, b>> = [j \in 1 .. 2 |-> <<a, b>>[j]]
  OBVIOUS
<1>2. <<a, b>>[1] = a /\ <<a, b>>[2] = b
  OBVIOUS
<1> QED
  BY <1>1, <1>2, FunctionIsSeq

LEMMA SuffixOfTwo ==
  ASSUME NEW x, IsSeq(x), NEW a, NEW b, NEW n, n = Len(x)
  PROVE  IsSuffix(<<a, b>>, x) <=> n >= 2 /\ x[n - 1] = a /\ x[n] = b
<1> DEFINE t == <<a, b>>
           r == Reverse(t)
           y == Reverse(x)
<1>1. IsSuffix(t, x) <=> IsPrefix(r, y)
  BY Zenon DEF IsSuffix
<1>2. IsSeq(t) /\ 2 = Len(t) /\ t[1] = a /\ t[2] = b
  BY PairIsSeq
<1> HIDE DEF t
<1>3. IsSeq(r) /\ Len(r) = 2 /\ \A i \in 1 .. 2 : r[i] = t[2 - i + 1]
  BY <1>2, ReverseIs
<1>4. IsSeq(y) /\ Len(y) = n /\ n \in Nat /\ \A i \in 1 .. n : y[i] = x[n - i + 1]
  BY ReverseIs
<1> HIDE DEF r, y
<1>5. IsPrefix(r, y) <=> 2 <= n /\ \A q \in 1 .. 2 : r[q] = y[q]
  <2>1. IsPrefix(r, y) <=> Len(r) <= Len(y) /\ \A q \in 1 .. Len(r) : r[q] = y[q]
    <3>1. IsSeq(r) /\ IsSeq(y)
      BY <1>3, <1>4
    <3> QED
      BY <3>1, PrefixIs
  <2>2. Len(r) = 2 /\ Len(y) = n
    BY <1>3, <1>4
  <2> QED
    BY <2>1, <2>2, Zenon
<1>6. r[1] = b /\ r[2] = a
  <2>1. 1 \in 1 .. 2 /\ 2 \in 1 .. 2 /\ 2 - 1 + 1 = 2 /\ 2 - 2 + 1 = 1
    OBVIOUS
  <2>2. r[1] = t[2] /\ r[2] = t[1]
    BY <1>3, <2>1
  <2> QED
    BY <1>2, <2>2
<1>7. n >= 2 => y[1] = x[n] /\ y[2] = x[n - 1]
  <2> SUFFICES ASSUME n >= 2 PROVE y[1] = x[n] /\ y[2] = x[n - 1]
    OBVIOUS
  <2>1. 1 \in 1 .. n /\ 2 \in 1 .. n /\ n - 1 + 1 = n /\ n - 2 + 1 = n - 1
    BY <1>4
  <2>2. y[1] = x[n - 1 + 1] /\ y[2] = x[n - 2 + 1]
    BY <1>4, <2>1
  <2> QED
    BY <2>1, <2>2
<1>8. (\A q \in 1 .. 2 : r[q] = y[q]) <=> (r[1] = y[1] /\ r[2] = y[2])
  <2>1. 1 .. 2 = {1, 2}
    OBVIOUS
  <2> QED
    BY <2>1
<1>9. 2 <= n <=> n >= 2
  BY <1>4
<1>10. 2 <= n /\ (\A q \in 1 .. 2 : r[q] = y[q]) <=> n >= 2 /\ x[n - 1] = a /\ x[n] = b
  <2>1. CASE n >= 2
    <3>1. (\A q \in 1 .. 2 : r[q] = y[q]) <=> b = x[n] /\ a = x[n - 1]
      BY <2>1, <1>6, <1>7, <1>8
    <3> QED
      BY <2>1, <3>1, <1>9
  <2>2. CASE ~(n >= 2)
    BY <2>2, <1>9
  <2> QED
    BY <2>1, <2>2
<1> QED
  BY <1>1, <1>5, <1>10 DEF t

\* A text that ends with a name on a line of its own, piece by piece.
NamedBy(name, x) ==
    /\ x[Len(x)] = Stop
    /\ \E m \in 2 .. Len(x) - 1 :
        /\ x[m] = name /\ x[m - 1] = Break
        /\ \A q \in m + 1 .. Len(x) - 1 : x[q] = Blank

LEMMA NoTailOf ==
  ASSUME NEW x, IsSeq(x)
  PROVE  /\ IsSeq(NoTail(x)) /\ Len(NoTail(x)) = LastWord(x) /\ LastWord(x) \in 0 .. Len(x)
         /\ \A q \in 1 .. LastWord(x) : NoTail(x)[q] = x[q]
<1>1. Len(x) \in Nat
  BY DEF IsSeq
<1>2. LastWord(x) \in 0 .. Len(x)
  BY <1>1, LastWordIs
<1>3. LastWord(x) \in Nat /\ LastWord(x) <= Len(x)
  BY <1>1, <1>2
<1> QED
  BY <1>2, <1>3, NoTailIs, FrontPart

LEMMA NamedIs ==
  ASSUME NEW x, IsSeq(x), NEW order, NEW k, order[k] # Blank
  PROVE  k \in NamedAtEnd(order, x) <=> k \in DOMAIN order /\ NamedBy(order[k], x)
<1> DEFINE n == Len(x)
           u == Front(x)
           m == LastWord(u)
           v == NoTail(u)
           name == order[k]
<1>1. k \in NamedAtEnd(order, x) <=>
        k \in DOMAIN order /\ x # <<>> /\ x[n] = Stop /\ IsSuffix(<<Break, name>>, v)
  BY Zenon DEF NamedAtEnd, Last, Stop, Break
<1>2. n \in Nat
  BY DEF IsSeq
<1>3. CASE n = 0
  <2>1. x = <<>>
    BY <1>3, NothingIsEmpty
  <2>2. 2 .. n - 1 = {}
    BY <1>3
  <2> QED
    BY <1>1, <2>1, <2>2 DEF NamedBy
<1>4. CASE n # 0
  <2>1. x # <<>>
    BY <1>4, EmptyIsSeq
  <2>2. n - 1 \in Nat /\ n - 1 <= n /\ u = SubSeq(x, 1, n - 1)
    BY <1>2, <1>4 DEF Front
  <2>3. IsSeq(u) /\ Len(u) = n - 1 /\ \A q \in 1 .. n - 1 : u[q] = x[q]
    BY <2>2, FrontPart
  <2> HIDE DEF u
  <2>4. /\ m \in 0 .. n - 1
        /\ m # 0 => u[m] # Blank
        /\ \A q \in m + 1 .. n - 1 : u[q] = Blank
    BY <2>2, <2>3, LastWordIs
  <2>5. IsSeq(v) /\ m = Len(v) /\ \A q \in 1 .. m : v[q] = u[q]
    BY <2>3, NoTailOf
  <2>6. IsSuffix(<<Break, name>>, v) <=> m >= 2 /\ v[m - 1] = Break /\ v[m] = name
    BY <2>5, SuffixOfTwo
  <2>7. m >= 2 => v[m - 1] = x[m - 1] /\ v[m] = x[m]
    <3> HIDE DEF v, m
    <3> SUFFICES ASSUME m >= 2 PROVE v[m - 1] = x[m - 1] /\ v[m] = x[m]
      OBVIOUS
    <3>1. m - 1 \in 1 .. m /\ m \in 1 .. m /\ m - 1 \in 1 .. n - 1 /\ m \in 1 .. n - 1
      BY <2>2, <2>4
    <3> QED
      BY <2>3, <2>5, <3>1
  <2>8. ASSUME m >= 2, x[m - 1] = Break, x[m] = name, x[n] = Stop PROVE NamedBy(name, x)
    <3>1. m \in 2 .. n - 1
      BY <2>2, <2>4, <2>8
    <3>2. \A q \in m + 1 .. n - 1 : x[q] = Blank
      <4>1. \A q \in m + 1 .. n - 1 : q \in 1 .. n - 1
        BY <3>1
      <4> QED
        BY <4>1, <2>3, <2>4
    <3> HIDE DEF v, m, name
    <3> QED
      BY <2>8, <3>1, <3>2 DEF NamedBy
  <2>9. ASSUME NamedBy(name, x) PROVE m >= 2 /\ x[m - 1] = Break /\ x[m] = name /\ x[n] = Stop
    <3> HIDE DEF v, m, name
    <3>1. x[n] = Stop
      BY <2>9 DEF NamedBy
    <3>2. PICK i \in 2 .. n - 1 :
            x[i] = name /\ x[i - 1] = Break /\ \A q \in i + 1 .. n - 1 : x[q] = Blank
      BY <2>9 DEF NamedBy
    <3>3. i \in 1 .. n - 1 /\ u[i] # Blank /\ \A q \in i + 1 .. n - 1 : u[q] = Blank
      <4>1. i \in 1 .. n - 1 /\ \A q \in i + 1 .. n - 1 : q \in 1 .. n - 1
        BY <2>2
      <4>2. u[i] = name
        BY <2>3, <3>2, <4>1
      <4> QED
        BY <4>1, <4>2, <2>3, <3>2 DEF name
    <3>4. LastWord(u) = i
      BY <2>2, <2>3, <3>3, LastWordAt
    <3> QED
      BY <3>1, <3>2, <3>4 DEF m
  <2> QED
    BY <1>1, <2>1, <2>6, <2>7, <2>8, <2>9
<1> QED
  BY <1>3, <1>4

-----------------------------------------------------------------------------
(* The parts of a header that have been written.  What they say of a text    *)
(* goes on to hold when the text is longer.                                  *)

\* What of a decoder no step changes.
Rules(f) == [forced |-> f.forced, skip |-> f.skip, genres |-> f.genres]

\* A field's name, and a value that stands at a .. b - 1 of a line.
Named(g, p, c) == p \in Nat \ {0} /\ p + 1 <= Len(g) /\ g[p] = <<c>> /\ g[p + 1] = Colon
Cell(r, c, g, a, b) ==
    /\ a \in Nat \ {0} /\ b \in a .. Len(g)
    /\ g[b] = Newline /\ \A q \in a .. b - 1 : g[q] # Newline
    /\ InHeader(r, c, SubSeq(g, a, b - 1))

\* The line of bpm, and the caption that begins at j.
Opened(r, g, e) == e \in Nat \ {0} /\ Named(g, 1, "bpm") /\ Cell(r, "bpm", g, 3, e - 1)
CaptionAt(r, g, j) == ~r.skip /\ \E e : Opened(r, g, e) /\ Named(g, e, "caption") /\ j = e + 2

\* The caption has been ended before a by the name of field k, the first time
\* that a name stands at the end of the text.
Unnamed(r, g, j, n) == \A i \in j + 1 .. n : EndingAt(r, g, j, i) = {}
CaptionEnded(r, g, k, a) ==
    \E j : /\ CaptionAt(r, g, j) /\ a \in j + 1 .. Len(g) + 1
           /\ k \in EndingAt(r, g, j, a) /\ Unnamed(r, g, j, a - 1)

\* The lines of the fields that follow, from the k-th on: the c-th begins at p.
Start(r, g, k, p) ==
    IF r.skip THEN k = 1 /\ Opened(r, g, p)
    ELSE /\ k > 1 /\ p \in Nat \ {0}
         /\ \E a : CaptionEnded(r, g, k - 1, a) /\ Cell(r, Order(r)[k - 1], g, a, p - 1)
LineAt(r, g, q, a, b) ==
    b \in Nat \ {0} /\ Named(g, a, Order(r)[q]) /\ Cell(r, Order(r)[q], g, a + 2, b - 1)
LinesAt(r, g, k, n, s) == \A q \in k .. n : LineAt(r, g, q, s[q], s[q + 1])
Lines(r, g, k, c, s) == Start(r, g, k, s[k]) /\ LinesAt(r, g, k, c - 1, s)
Reached(r, g, c, p) ==
    \E k \in 1 .. c : \E s \in [k .. c -> Nat] : Lines(r, g, k, c, s) /\ s[c] = p

\* The value of the c-th field begins at a.
Begun(r, g, c, a) ==
    \/ \E p : Reached(r, g, c, p) /\ Named(g, p, Order(r)[c]) /\ a = p + 2
    \/ ~r.skip /\ CaptionEnded(r, g, c, a)

Longer(g, h) == IsSeq(g) /\ IsSeq(h) /\ Agree(g, h, Len(g))

LEMMA LongerIs ==
  ASSUME NEW g, NEW h, Longer(g, h)
  PROVE  /\ IsSeq(g) /\ IsSeq(h) /\ Len(g) \in Nat /\ Len(h) \in Nat /\ Len(g) <= Len(h)
         /\ \A q \in 1 .. Len(g) : g[q] = h[q]
BY DEF Longer, Agree, IsSeq

LEMMA NamedLasts ==
  ASSUME NEW g, NEW h, Longer(g, h), NEW p, NEW c, Named(g, p, c)
  PROVE  Named(h, p, c)
<1>1. /\ Len(g) \in Nat /\ Len(h) \in Nat /\ Len(g) <= Len(h)
      /\ \A q \in 1 .. Len(g) : g[q] = h[q]
  BY LongerIs
<1>2. p \in Nat \ {0} /\ p + 1 <= Len(g) /\ g[p] = <<c>> /\ g[p + 1] = Colon
  BY DEF Named
<1>3. p \in 1 .. Len(g) /\ p + 1 \in 1 .. Len(g) /\ p + 1 <= Len(h)
  BY <1>1, <1>2
<1>4. h[p] = <<c>> /\ h[p + 1] = Colon
  BY <1>1, <1>2, <1>3
<1> QED
  BY <1>2, <1>3, <1>4 DEF Named

LEMMA PartsLast ==
  ASSUME NEW g, NEW h, Longer(g, h), NEW a \in Nat \ {0}, NEW b \in Nat,
         a - 1 <= b, b <= Len(g)
  PROVE  SubSeq(g, a, b) = SubSeq(h, a, b)
<1> DEFINE u == SubSeq(g, a, b)
           v == SubSeq(h, a, b)
           m == b - a + 1
<1>1. /\ IsSeq(g) /\ IsSeq(h) /\ Len(g) \in Nat /\ Len(h) \in Nat /\ Len(g) <= Len(h)
      /\ \A q \in 1 .. Len(g) : g[q] = h[q]
  BY LongerIs
<1>2. b <= Len(h)
  BY <1>1
<1>3. IsSeq(u) /\ Len(u) = m /\ \A q \in 1 .. m : u[q] = g[a + q - 1]
  BY <1>1, PartIsSeq
<1>4. IsSeq(v) /\ Len(v) = m /\ \A q \in 1 .. m : v[q] = h[a + q - 1]
  BY <1>1, <1>2, PartIsSeq
<1>5. \A q \in 1 .. m : g[a + q - 1] = h[a + q - 1]
  <2>1. \A q \in 1 .. m : a + q - 1 \in 1 .. Len(g)
    BY <1>1
  <2> QED
    BY <1>1, <2>1
<1> HIDE DEF u, v, m
<1>6. \A q \in 1 .. m : u[q] = v[q]
  BY <1>3, <1>4, <1>5
<1>7. Len(u) = Len(v) /\ \A q \in 1 .. Len(u) : u[q] = v[q]
  BY <1>3, <1>4, <1>6
<1> QED
  BY <1>3, <1>4, <1>7, IsSeqEqual DEF u, v

LEMMA CellLasts ==
  ASSUME NEW r, NEW g, NEW h, Longer(g, h), NEW a, NEW b, NEW c, Cell(r, c, g, a, b)
  PROVE  Cell(r, c, h, a, b)
<1>1. /\ Len(g) \in Nat /\ Len(h) \in Nat /\ Len(g) <= Len(h)
      /\ \A q \in 1 .. Len(g) : g[q] = h[q]
  BY LongerIs
<1>2. /\ a \in Nat \ {0} /\ b \in a .. Len(g) /\ g[b] = Newline
      /\ \A q \in a .. b - 1 : g[q] # Newline
      /\ InHeader(r, c, SubSeq(g, a, b - 1))
  BY DEF Cell
<1>3. b \in a .. Len(h) /\ b \in 1 .. Len(g) /\ \A q \in a .. b - 1 : q \in 1 .. Len(g)
  BY <1>1, <1>2
<1>4. SubSeq(g, a, b - 1) = SubSeq(h, a, b - 1)
  <2>1. b - 1 \in Nat /\ a - 1 <= b - 1 /\ b - 1 <= Len(g)
    BY <1>1, <1>2
  <2> QED
    BY <2>1, <1>2, PartsLast
<1>5. h[b] = Newline /\ \A q \in a .. b - 1 : h[q] # Newline
  BY <1>1, <1>2, <1>3
<1> QED
  BY <1>2, <1>3, <1>4, <1>5 DEF Cell

LEMMA OpenedLasts ==
  ASSUME NEW r, NEW g, NEW h, Longer(g, h), NEW e, Opened(r, g, e)
  PROVE  Opened(r, h, e)
BY NamedLasts, CellLasts DEF Opened

LEMMA CaptionAtLasts ==
  ASSUME NEW r, NEW g, NEW h, Longer(g, h), NEW j, CaptionAt(r, g, j)
  PROVE  CaptionAt(r, h, j)
<1>1. PICK e : Opened(r, g, e) /\ Named(g, e, "caption") /\ j = e + 2
  BY DEF CaptionAt
<1>2. Opened(r, h, e) /\ Named(h, e, "caption")
  BY <1>1, OpenedLasts, NamedLasts
<1> QED
  BY <1>1, <1>2 DEF CaptionAt

LEMMA CaptionPlace ==
  ASSUME NEW r, NEW g, NEW j, CaptionAt(r, g, j), IsSeq(g)
  PROVE  j \in Nat \ {0} /\ j - 1 <= Len(g) /\ Len(g) \in Nat
<1>1. PICK e : Named(g, e, "caption") /\ j = e + 2
  BY DEF CaptionAt
<1>2. Len(g) \in Nat
  BY DEF IsSeq
<1> QED
  BY <1>1, <1>2 DEF Named

LEMMA EndingLasts ==
  ASSUME NEW r, NEW g, NEW h, Longer(g, h), NEW j \in Nat \ {0},
         NEW i \in j .. Len(g) + 1
  PROVE  EndingAt(r, g, j, i) = EndingAt(r, h, j, i)
<1>1. i - 1 \in Nat /\ j - 1 <= i - 1 /\ i - 1 <= Len(g)
  BY LongerIs
<1>2. SubSeq(g, j, i - 1) = SubSeq(h, j, i - 1)
  BY <1>1, PartsLast
<1> QED
  BY <1>2 DEF EndingAt

LEMMA CaptionEndedLasts ==
  ASSUME NEW r, NEW g, NEW h, Longer(g, h), NEW k, NEW a, CaptionEnded(r, g, k, a)
  PROVE  CaptionEnded(r, h, k, a)
<1>1. PICK j : /\ CaptionAt(r, g, j) /\ a \in j + 1 .. Len(g) + 1
               /\ k \in EndingAt(r, g, j, a) /\ Unnamed(r, g, j, a - 1)
  BY DEF CaptionEnded
<1>2. Len(g) \in Nat /\ Len(h) \in Nat /\ Len(g) <= Len(h) /\ IsSeq(g)
  BY LongerIs
<1>3. j \in Nat \ {0} /\ CaptionAt(r, h, j)
  BY <1>1, <1>2, CaptionPlace, CaptionAtLasts
<1>4. /\ a \in j .. Len(g) + 1 /\ a \in j + 1 .. Len(h) + 1
      /\ \A i \in j + 1 .. a - 1 : i \in j .. Len(g) + 1
  BY <1>1, <1>2, <1>3
<1>5. k \in EndingAt(r, h, j, a)
  BY <1>1, <1>3, <1>4, EndingLasts
<1>6. Unnamed(r, h, j, a - 1)
  <2>1. \A i \in j + 1 .. a - 1 : EndingAt(r, g, j, i) = {}
    BY <1>1 DEF Unnamed
  <2>2. \A i \in j + 1 .. a - 1 : EndingAt(r, g, j, i) = EndingAt(r, h, j, i)
    BY <1>3, <1>4, EndingLasts
  <2> QED
    BY <2>1, <2>2 DEF Unnamed
<1> QED
  BY <1>3, <1>4, <1>5, <1>6 DEF CaptionEnded

LEMMA StartLasts ==
  ASSUME NEW r, NEW g, NEW h, Longer(g, h), NEW k, NEW p, Start(r, g, k, p)
  PROVE  Start(r, h, k, p)
<1>1. CASE r.skip
  BY <1>1, OpenedLasts, Zenon DEF Start
<1>2. CASE ~r.skip
  <2>1. PICK a : CaptionEnded(r, g, k - 1, a) /\ Cell(r, Order(r)[k - 1], g, a, p - 1)
    BY <1>2, Zenon DEF Start
  <2>2. CaptionEnded(r, h, k - 1, a)
    BY <2>1, CaptionEndedLasts, Zenon
  <2>3. Cell(r, Order(r)[k - 1], h, a, p - 1)
    BY <2>1, CellLasts, Zenon
  <2>4. k > 1 /\ p \in Nat \ {0}
    BY <1>2, Zenon DEF Start
  <2> QED
    BY <1>2, <2>2, <2>3, <2>4, Zenon DEF Start
<1> QED
  BY <1>1, <1>2

LEMMA ReachedLasts ==
  ASSUME NEW r, NEW g, NEW h, Longer(g, h), NEW c, NEW p, Reached(r, g, c, p)
  PROVE  Reached(r, h, c, p)
<1>0. PICK k \in 1 .. c : \E s \in [k .. c -> Nat] : Lines(r, g, k, c, s) /\ s[c] = p
  BY DEF Reached
<1>1. PICK s \in [k .. c -> Nat] : Lines(r, g, k, c, s) /\ s[c] = p
  BY <1>0
<1>2. Start(r, h, k, s[k])
  BY <1>1, StartLasts DEF Lines
<1>3. ASSUME NEW q \in k .. c - 1 PROVE LineAt(r, h, q, s[q], s[q + 1])
  <2>1. LineAt(r, g, q, s[q], s[q + 1])
    BY <1>1 DEF Lines, LinesAt
  <2> QED
    BY <2>1, NamedLasts, CellLasts, Zenon DEF LineAt
<1>4. Lines(r, h, k, c, s)
  BY <1>2, <1>3 DEF Lines, LinesAt
<1> QED
  BY <1>1, <1>4 DEF Reached

LEMMA BegunLasts ==
  ASSUME NEW r, NEW g, NEW h, Longer(g, h), NEW c, NEW a, Begun(r, g, c, a)
  PROVE  Begun(r, h, c, a)
<1>1. CASE \E p : Reached(r, g, c, p) /\ Named(g, p, Order(r)[c]) /\ a = p + 2
  BY <1>1, ReachedLasts, NamedLasts, Zenon DEF Begun
<1>2. CASE ~r.skip /\ CaptionEnded(r, g, c, a)
  BY <1>2, CaptionEndedLasts, Zenon DEF Begun
<1> QED
  BY <1>1, <1>2 DEF Begun

-----------------------------------------------------------------------------
(* The parts make a header.                                                  *)

LEMMA CellValue ==
  ASSUME NEW r, NEW h, IsSeq(h), NEW c, NEW a, NEW b, Cell(r, c, h, a, b)
  PROVE  NewlineFrom(h, a) = b /\ ValueFrom(r, h, c, a) /\ a \in Nat \ {0} /\ b \in a .. Len(h)
<1>1. /\ a \in Nat \ {0} /\ b \in a .. Len(h) /\ h[b] = Newline
      /\ \A q \in a .. b - 1 : h[q] # Newline
      /\ InHeader(r, c, SubSeq(h, a, b - 1))
  BY DEF Cell
<1>2. Len(h) \in Nat
  BY DEF IsSeq
<1>3. NewlineFrom(h, a) = b
  BY <1>1, <1>2, NewlineAt
<1>4. b # 0
  BY <1>1
<1> QED
  BY <1>1, <1>3, <1>4 DEF ValueFrom

LEMMA NameWritten ==
  ASSUME NEW h, IsSeq(h), NEW p, NEW c, Named(h, p, c)
  PROVE  SubSeq(h, p, p + 1) = NameTokens(c) /\ p \in Nat \ {0} /\ p + 1 <= Len(h)
<1> DEFINE u == SubSeq(h, p, p + 1)
           v == NameTokens(c)
<1>1. p \in Nat \ {0} /\ p + 1 <= Len(h) /\ h[p] = <<c>> /\ h[p + 1] = Colon
  BY DEF Named
<1>2. p + 1 \in Nat /\ p - 1 <= p + 1 /\ p + 1 - p + 1 = 2
  BY <1>1
<1>3. /\ IsSeq(u) /\ Len(u) = p + 1 - p + 1
      /\ \A q \in 1 .. p + 1 - p + 1 : u[q] = h[p + q - 1]
  BY <1>1, <1>2, PartIsSeq
<1>4. IsSeq(v) /\ Len(v) = 2 /\ v[1] = <<c>> /\ v[2] = Colon
  BY PairIsSeq DEF NameTokens
<1> HIDE DEF u, v
<1>5. u[1] = h[p] /\ u[2] = h[p + 1]
  <2>1. 1 \in 1 .. 2 /\ 2 \in 1 .. 2 /\ p + 1 - 1 = p /\ p + 2 - 1 = p + 1
    BY <1>1
  <2>2. u[1] = h[p + 1 - 1] /\ u[2] = h[p + 2 - 1]
    BY <1>2, <1>3, <2>1
  <2> QED
    BY <2>1, <2>2
<1>6. \A q \in 1 .. 2 : u[q] = v[q]
  <2>1. 1 .. 2 = {1, 2}
    OBVIOUS
  <2> QED
    BY <1>1, <1>4, <1>5, <2>1
<1>7. Len(u) = 2
  BY <1>2, <1>3
<1>8. u = v
  BY <1>3, <1>4, <1>6, <1>7, IsSeqEqual
<1> QED
  BY <1>1, <1>8 DEF u, v

\* Where lines begin, one behind the other.
LineBegins(h, k, i, s, m) == s[m] = IF m = k THEN i ELSE NewlineFrom(h, s[m - 1] + 2) + 1
InLine(h, k, n, s) == \A q \in k .. n : NewlineFrom(h, s[q] + 2) + 1 = s[q + 1]

LEMMA BeginsAre ==
  ASSUME NEW order, NEW h, NEW n \in Nat, n = Len(order), NEW k \in 1 .. n + 1,
         NEW s \in [k .. n + 1 -> Nat], InLine(h, k, n, s)
  PROVE  \A m \in k .. n + 1 : Begins(order, h, k, s[k])[m] = s[m]
<1> DEFINE Rec(f) ==
             f = [m \in k .. n + 1 |-> IF m = k THEN s[k] ELSE NewlineFrom(h, f[m - 1] + 2) + 1]
           b == Begins(order, h, k, s[k])
<1>1. b = CHOOSE f : Rec(f)
  BY Zenon DEF Begins
<1>2. Rec(s)
  <2>1. \A m \in k .. n + 1 : s[m] = IF m = k THEN s[k] ELSE NewlineFrom(h, s[m - 1] + 2) + 1
    <3> SUFFICES ASSUME NEW m \in k .. n + 1, m # k
                 PROVE  s[m] = NewlineFrom(h, s[m - 1] + 2) + 1
      OBVIOUS
    <3>1. m - 1 \in k .. n /\ (m - 1) + 1 = m
      OBVIOUS
    <3>2. NewlineFrom(h, s[m - 1] + 2) + 1 = s[(m - 1) + 1]
      BY <3>1 DEF InLine
    <3> QED
      BY <3>1, <3>2
  <2>2. s = [m \in k .. n + 1 |-> s[m]]
    OBVIOUS
  <2> QED
    BY <2>1, <2>2
<1>3. Rec(b)
  <2> HIDE DEF Rec, b
  <2> QED
    BY <1>1, <1>2, Zenon
<1>4. \A m \in k .. n + 1 : LineBegins(h, k, s[k], b, m) /\ LineBegins(h, k, s[k], s, m)
  <2> HIDE DEF b
  <2> QED
    BY <1>2, <1>3, Zenon DEF LineBegins
<1> HIDE DEF b, Rec
<1> DEFINE T == {d \in 0 .. n + 1 - k : b[k + d] = s[k + d]}
<1>5. 0 \in T
  <2>1. k \in k .. n + 1 /\ k + 0 = k /\ 0 \in 0 .. n + 1 - k
    OBVIOUS
  <2>2. b[k] = s[k]
    BY <1>4, <2>1 DEF LineBegins
  <2> QED
    BY <2>1, <2>2
<1>6. ASSUME NEW d \in 1 .. n + 1 - k, d - 1 \in T PROVE d \in T
  <2> DEFINE m == k + d
  <2>1. m \in k .. n + 1 /\ m # k /\ k + (d - 1) = m - 1 /\ d \in 0 .. n + 1 - k
    OBVIOUS
  <2>2. b[m - 1] = s[m - 1]
    BY <1>6, <2>1
  <2> HIDE DEF m
  <2>3. b[m] = s[m]
    BY <1>4, <2>1, <2>2 DEF LineBegins
  <2> QED
    BY <2>1, <2>3 DEF m
<1>7. T = 0 .. n + 1 - k
  <2>1. T \in SUBSET (0 .. n + 1 - k) /\ n + 1 - k \in Nat
    OBVIOUS
  <2> HIDE DEF T
  <2> QED
    BY <1>5, <1>6, <2>1, Induction
<1>8. ASSUME NEW m \in k .. n + 1 PROVE b[m] = s[m]
  <2> DEFINE d == m - k
  <2>1. d \in 0 .. n + 1 - k /\ k + d = m
    OBVIOUS
  <2>2. d \in T
    BY <1>7, <2>1
  <2> HIDE DEF d
  <2>3. b[k + d] = s[k + d]
    BY <2>2
  <2> QED
    BY <2>1, <2>3
<1> QED
  BY <1>8 DEF b

\* The lines from the k-th on, and </think>.
LEMMA LinesAre ==
  ASSUME NEW r, NEW h, IsSeq(h), NEW n \in Nat, n = Len(Order(r)), NEW k \in 1 .. n + 1,
         NEW s \in [k .. n + 1 -> Nat],
         LinesAt(r, h, k, n, s),
         s[n + 1] = Len(h), Len(h) > 0, h[Len(h)] = EndOfThought
  PROVE  LinesFrom(r, h, k, s[k])
<1> DEFINE order == Order(r)
           begin == Begins(order, h, k, s[k])
<1>1. ASSUME NEW q \in k .. n
      PROVE  /\ SubSeq(h, s[q], s[q] + 1) = NameTokens(order[q])
             /\ ValueFrom(r, h, order[q], s[q] + 2)
             /\ NewlineFrom(h, s[q] + 2) + 1 = s[q + 1]
  <2>1. /\ s[q + 1] \in Nat \ {0} /\ Named(h, s[q], order[q])
        /\ Cell(r, order[q], h, s[q] + 2, s[q + 1] - 1)
    BY Zenon DEF LineAt, LinesAt
  <2>2. SubSeq(h, s[q], s[q] + 1) = NameTokens(order[q])
    BY <2>1, NameWritten
  <2>3. ValueFrom(r, h, order[q], s[q] + 2) /\ NewlineFrom(h, s[q] + 2) = s[q + 1] - 1
    BY <2>1, CellValue
  <2>4. NewlineFrom(h, s[q] + 2) + 1 = s[q + 1]
    <3> DEFINE x == NewlineFrom(h, s[q] + 2)
               y == s[q + 1]
    <3>1. x = y - 1 /\ y \in Nat
      BY <2>1, <2>3
    <3> HIDE DEF x, y
    <3>2. x + 1 = y
      BY <3>1
    <3> QED
      BY <3>2 DEF x, y
  <2> QED
    BY <2>2, <2>3, <2>4
<1>2. \A m \in k .. n + 1 : begin[m] = s[m]
  <2>1. InLine(h, k, n, s)
    BY <1>1 DEF InLine
  <2>2. n = Len(order) /\ n \in Nat
    OBVIOUS
  <2>3. k \in 1 .. n + 1 /\ s \in [k .. n + 1 -> Nat]
    OBVIOUS
  <2> HIDE DEF order
  <2>4. \A m \in k .. n + 1 : Begins(order, h, k, s[k])[m] = s[m]
    BY ONLY <2>1, <2>2, <2>3, BeginsAre
  <2> QED
    BY ONLY <2>4
<1> HIDE DEF begin
<1>3. \A m \in k .. n : /\ SubSeq(h, begin[m], begin[m] + 1) = NameTokens(order[m])
                        /\ ValueFrom(r, h, order[m], begin[m] + 2)
  <2>1. \A m \in k .. n : m \in k .. n + 1
    OBVIOUS
  <2> QED
    BY <1>1, <1>2, <2>1
<1>4. SubSeq(h, begin[n + 1], Len(h)) = <<EndOfThought>>
  <2> DEFINE m == Len(h)
             u == SubSeq(h, m, m)
  <2>1. n + 1 \in k .. n + 1
    OBVIOUS
  <2>2. begin[n + 1] = m
    BY <1>2, <2>1
  <2>3. m \in Nat \ {0} /\ m - 1 <= m /\ m <= Len(h) /\ m - m + 1 = 1
    BY DEF IsSeq
  <2>4. IsSeq(u) /\ Len(u) = m - m + 1 /\ \A q \in 1 .. m - m + 1 : u[q] = h[m + q - 1]
    <3> HIDE DEF m
    <3> QED
      BY <2>3, PartIsSeq
  <2> HIDE DEF u
  <2>5. u[1] = EndOfThought
    <3>1. 1 \in 1 .. m - m + 1 /\ m + 1 - 1 = m
      BY <2>3
    <3> QED
      BY <2>4, <3>1
  <2>6. IsSeq(<<EndOfThought>>) /\ Len(<<EndOfThought>>) = 1 /\ <<EndOfThought>>[1] = EndOfThought
    BY SingleIsSeq
  <2>7. u = <<EndOfThought>>
    <3>1. Len(u) = 1 /\ 1 .. 1 = {1}
      BY <2>3, <2>4
    <3> DEFINE v == <<EndOfThought>>
    <3> HIDE DEF v
    <3>2. \A q \in 1 .. Len(u) : u[q] = v[q]
      BY <2>5, <2>6, <3>1 DEF v
    <3> QED
      BY <2>4, <2>6, <3>1, <3>2, IsSeqEqual DEF v
  <2> QED
    BY <2>2, <2>7 DEF u
<1> QED
  BY <1>3, <1>4, Zenon DEF LinesFrom, begin

\* The line of bpm opens a header.
LEMMA OpenIs ==
  ASSUME NEW r, NEW h, IsSeq(h), NEW e, Opened(r, h, e)
  PROVE  \E v \in Legal(r, "bpm") :
            LET open == NameTokens("bpm") \o v \o <<Newline>>
            IN  IsPrefix(open, h) /\ Len(open) = e - 1 /\ e \in Nat \ {0} /\ e - 1 <= Len(h)
<1> DEFINE v == SubSeq(h, 3, e - 2)
           name == NameTokens("bpm")
           top == name \o v
           open == top \o <<Newline>>
<1>1. e \in Nat \ {0} /\ Named(h, 1, "bpm") /\ Cell(r, "bpm", h, 3, e - 1)
  BY DEF Opened
<1>2. 2 <= Len(h) /\ h[1] = <<"bpm">> /\ h[2] = Colon
  BY <1>1 DEF Named
<1>3. /\ e - 1 \in 3 .. Len(h) /\ h[e - 1] = Newline
      /\ InHeader(r, "bpm", SubSeq(h, 3, e - 1 - 1))
  BY <1>1 DEF Cell
<1>4. Len(h) \in Nat
  BY DEF IsSeq
<1>5. v \in Legal(r, "bpm")
  <2>1. e - 1 - 1 = e - 2
    BY <1>1
  <2>2. InHeader(r, "bpm", v)
    BY <1>3, <2>1
  <2> QED
    BY <2>2 DEF InHeader
<1>6. IsSeq(v) /\ Len(v) = e - 4 /\ \A q \in 1 .. e - 4 : v[q] = h[3 + q - 1]
  <2>1. 3 \in Nat \ {0} /\ e - 2 \in Nat /\ 3 - 1 <= e - 2 /\ e - 2 <= Len(h) /\ e - 2 - 3 + 1 = e - 4
    BY <1>1, <1>3, <1>4
  <2>2. /\ IsSeq(v) /\ Len(v) = e - 2 - 3 + 1
        /\ \A q \in 1 .. e - 2 - 3 + 1 : v[q] = h[3 + q - 1]
    BY <2>1, PartIsSeq
  <2> HIDE DEF v
  <2> QED
    BY <2>1, <2>2
<1>7. IsSeq(name) /\ Len(name) = 2 /\ name[1] = h[1] /\ name[2] = h[2]
  BY <1>2, PairIsSeq DEF NameTokens
<1> HIDE DEF v, name
<1>8. /\ IsSeq(top) /\ Len(top) = 2 + (e - 4)
      /\ \A i \in 1 .. 2 : top[i] = name[i]
      /\ \A i \in 1 .. e - 4 : top[2 + i] = v[i]
  <2>1. IsSeq(v) /\ IsSeq(name)
    BY <1>6, <1>7
  <2>2. /\ IsSeq(top) /\ Len(top) = Len(name) + Len(v)
        /\ \A i \in 1 .. Len(name) : top[i] = name[i]
        /\ \A i \in 1 .. Len(v) : top[Len(name) + i] = v[i]
    BY <2>1, ConcatIsSeq
  <2>3. Len(name) = 2 /\ Len(v) = e - 4
    BY <1>6, <1>7
  <2> HIDE DEF top
  <2> QED
    BY <2>2, <2>3
<1> HIDE DEF top
<1>9. /\ IsSeq(open) /\ Len(open) = e - 2 + 1
      /\ \A i \in 1 .. e - 2 : open[i] = top[i]
      /\ open[e - 2 + 1] = Newline
  <2>1. IsSeq(<<Newline>>) /\ Len(<<Newline>>) = 1 /\ <<Newline>>[1] = Newline
    BY SingleIsSeq
  <2>2. Len(top) = e - 2
    BY <1>1, <1>8
  <2> DEFINE w == <<Newline>>
  <2> HIDE DEF w
  <2>3. /\ IsSeq(open) /\ Len(open) = Len(top) + Len(w)
        /\ \A i \in 1 .. Len(top) : open[i] = top[i]
        /\ \A i \in 1 .. Len(w) : open[Len(top) + i] = w[i]
    BY <1>8, <2>1, ConcatIsSeq DEF w
  <2>4. Len(w) = 1 /\ w[1] = Newline /\ 1 \in 1 .. 1
    BY <2>1 DEF w
  <2> HIDE DEF open
  <2> QED
    BY <2>2, <2>3, <2>4
<1>10. Len(open) = e - 1 /\ Len(open) <= Len(h)
  BY <1>1, <1>3, <1>9
<1>11. ASSUME NEW q \in 1 .. Len(open) PROVE open[q] = h[q]
  <2> HIDE DEF open
  <2>1. q \in 1 .. e - 1
    BY <1>10
  <2>2. CASE q = e - 1
    BY <1>1, <1>3, <1>9, <2>2
  <2>3. CASE q \in 1 .. 2
    <3>1. q \in 1 .. e - 2 /\ (q = 1 \/ q = 2)
      BY <1>1, <1>3, <2>3
    <3>2. open[q] = top[q] /\ top[q] = name[q]
      BY <1>8, <1>9, <2>3, <3>1
    <3> QED
      BY <3>1, <3>2, <1>7
  <2>4. CASE q \in 3 .. e - 2
    <3> DEFINE i == q - 2
    <3>1. i \in 1 .. e - 4 /\ q = 2 + i /\ 3 + i - 1 = q /\ q \in 1 .. e - 2
      BY <1>1, <2>4
    <3> HIDE DEF i
    <3>2. open[q] = top[q] /\ top[q] = v[i] /\ v[i] = h[q]
      BY <1>6, <1>8, <1>9, <3>1
    <3> QED
      BY <3>2
  <2> QED
    BY <1>1, <2>1, <2>2, <2>3, <2>4
<1>12. IsPrefix(open, h)
  <2> HIDE DEF open
  <2> QED
    BY <1>9, <1>10, <1>11, PrefixIs
<1>13. e - 1 <= Len(h)
  BY <1>10
<1> QED
  BY <1>1, <1>5, <1>10, <1>12, <1>13, Zenon DEF open, top, name

LEMMA HeaderEnds ==
  ASSUME NEW r, NEW h, IsSeq(h), NEW n \in Nat, n = Len(Order(r)),
         Reached(r, h, n + 1, Len(h)), Len(h) > 0, h[Len(h)] = EndOfThought
  PROVE  IsHeader(r, h)
<1>0. PICK k \in 1 .. n + 1 : \E s \in [k .. n + 1 -> Nat] : Lines(r, h, k, n + 1, s) /\ s[n + 1] = Len(h)
  BY DEF Reached
<1>1. PICK s \in [k .. n + 1 -> Nat] : Lines(r, h, k, n + 1, s) /\ s[n + 1] = Len(h)
  BY <1>0
<1>2. LinesAt(r, h, k, n, s)
  <2>1. n + 1 - 1 = n
    OBVIOUS
  <2> QED
    BY <1>1, <2>1 DEF Lines
<1>3. LinesFrom(r, h, k, s[k])
  BY <1>1, <1>2, LinesAre
<1>4. Start(r, h, k, s[k])
  BY <1>1 DEF Lines
<1>5. Len(h) \in Nat
  BY DEF IsSeq
<1>6. CASE r.skip
  <2> DEFINE e == s[1]
  <2>1. k = 1 /\ Opened(r, h, e)
    BY <1>4, <1>6 DEF Start
  <2>2. LinesFrom(r, h, 1, e)
    BY <1>3, <2>1
  <2> HIDE DEF e
  <2>3. PICK v \in Legal(r, "bpm") :
            LET open == NameTokens("bpm") \o v \o <<Newline>>
            IN  IsPrefix(open, h) /\ Len(open) = e - 1 /\ e \in Nat \ {0}
    BY <2>1, OpenIs
  <2> DEFINE open == NameTokens("bpm") \o v \o <<Newline>>
  <2>4. IsPrefix(open, h) /\ Len(open) = e - 1 /\ e \in Nat \ {0}
    BY <2>3
  <2> HIDE DEF open
  <2>5. Len(open) + 1 = e
    BY <2>4
  <2>6. LinesFrom(r, h, 1, Len(open) + 1)
    BY <2>2, <2>5
  <2> QED
    BY <1>6, <2>4, <2>6, Zenon DEF IsHeader, open
<1>7. CASE ~r.skip
  <2>1. PICK a : CaptionEnded(r, h, k - 1, a) /\ Cell(r, Order(r)[k - 1], h, a, s[k] - 1)
    BY <1>4, <1>7 DEF Start
  <2>2. PICK j : /\ CaptionAt(r, h, j) /\ a \in j + 1 .. Len(h) + 1
                 /\ k - 1 \in EndingAt(r, h, j, a) /\ Unnamed(r, h, j, a - 1)
    BY <2>1 DEF CaptionEnded
  <2>3. PICK e : Opened(r, h, e) /\ Named(h, e, "caption") /\ j = e + 2
    BY <2>2 DEF CaptionAt
  <2>4. PICK v \in Legal(r, "bpm") :
            LET open == NameTokens("bpm") \o v \o <<Newline>>
            IN  IsPrefix(open, h) /\ Len(open) = e - 1 /\ e \in Nat \ {0}
    BY <2>3, OpenIs
  <2> DEFINE open == NameTokens("bpm") \o v \o <<Newline>>
             c == Len(open) + 3
             ends == {i \in DOMAIN h : i > c /\ EndingAt(r, h, c, i) # {}}
  <2>5. IsPrefix(open, h) /\ Len(open) = e - 1 /\ e \in Nat \ {0}
    BY <2>4
  <2> HIDE DEF open
  <2>6. c = j /\ j - 2 = e /\ j - 1 = e + 1 /\ j \in Nat
    BY <2>3, <2>5
  <2>7. SubSeq(h, c - 2, c - 1) = NameTokens("caption")
    <3>1. SubSeq(h, e, e + 1) = NameTokens("caption")
      BY <2>3, NameWritten
    <3> QED
      BY <2>6, <3>1
  <2>8. /\ NewlineFrom(h, a) = s[k] - 1 /\ ValueFrom(r, h, Order(r)[k - 1], a)
        /\ a \in Nat \ {0} /\ s[k] - 1 \in a .. Len(h)
    BY <2>1, CellValue
  <2>9. NewlineFrom(h, a) + 1 = s[k]
    <3> DEFINE x == s[k]
    <3>1. x \in Nat
      OBVIOUS
    <3> HIDE DEF x
    <3>2. x - 1 + 1 = x
      BY <3>1
    <3> QED
      BY <2>8, <3>2 DEF x
  <2>10. DOMAIN h = 1 .. Len(h)
    <3>1. h = [q \in 1 .. Len(h) |-> h[q]]
      BY DEF IsSeq
    <3> QED
      BY <3>1
  <2>11. a \in ends
    <3>1. a \in 1 .. Len(h) /\ a > j
      <4> DEFINE x == s[k] - 1
      <4>1. x \in a .. Len(h) /\ a \in j + 1 .. Len(h) + 1
        BY <2>2, <2>8
      <4> HIDE DEF x
      <4> QED
        BY <1>5, <2>6, <2>8, <4>1
    <3>2. EndingAt(r, h, j, a) # {}
      BY <2>2
    <3> QED
      BY <2>6, <2>10, <3>1, <3>2
  <2>12. \A i \in ends : a <= i
    <3> SUFFICES ASSUME NEW i \in ends, ~(a <= i) PROVE FALSE
      OBVIOUS
    <3>1. i \in 1 .. Len(h) /\ i > j /\ EndingAt(r, h, j, i) # {}
      BY <2>6, <2>10
    <3>2. i \in j + 1 .. a - 1
      BY <1>5, <2>6, <2>8, <3>1
    <3> QED
      BY <2>2, <3>1, <3>2 DEF Unnamed
  <2>13. k - 1 + 1 = k
    OBVIOUS
  <2>14. /\ k - 1 \in EndingAt(r, h, c, a)
         /\ ValueFrom(r, h, Order(r)[k - 1], a)
         /\ LinesFrom(r, h, k - 1 + 1, NewlineFrom(h, a) + 1)
    BY <1>3, <2>2, <2>6, <2>8, <2>9, <2>13
  <2> QED
    BY <1>7, <2>5, <2>7, <2>11, <2>12, <2>14, Zenon DEF IsHeader, open, c, ends
<1> QED
  BY <1>6, <1>7

-----------------------------------------------------------------------------
(* One line more.                                                            *)

\* The first line that is fixed.
LEMMA ReachedAtOnce ==
  ASSUME NEW r, NEW h, NEW k \in Nat, NEW p, p \in Nat \ {0}, k > 0, Start(r, h, k, p)
  PROVE  Reached(r, h, k, p)
<1> DEFINE s == [q \in k .. k |-> p]
<1>1. s \in [k .. k -> Nat] /\ s[k] = p /\ k \in 1 .. k
  OBVIOUS
<1> HIDE DEF s
<1>2. k .. k - 1 = {}
  OBVIOUS
<1>3. LinesAt(r, h, k, k - 1, s)
  BY <1>2 DEF LinesAt
<1>4. Lines(r, h, k, k, s)
  BY <1>1, <1>3 DEF Lines
<1> QED
  BY <1>1, <1>4 DEF Reached

LEMMA LineReached ==
  ASSUME NEW r, NEW h, NEW c \in Nat \ {0}, NEW p, NEW e \in Nat \ {0},
         Reached(r, h, c, p), LineAt(r, h, c, p, e)
  PROVE  Reached(r, h, c + 1, e)
<1>0. PICK k \in 1 .. c : \E s \in [k .. c -> Nat] : Lines(r, h, k, c, s) /\ s[c] = p
  BY DEF Reached
<1>1. PICK s \in [k .. c -> Nat] : Lines(r, h, k, c, s) /\ s[c] = p
  BY <1>0
<1> DEFINE t == [q \in k .. c + 1 |-> IF q = c + 1 THEN e ELSE s[q]]
<1>2. /\ t \in [k .. c + 1 -> Nat] /\ t[c + 1] = e
      /\ \A q \in k .. c : t[q] = s[q]
  OBVIOUS
<1> HIDE DEF t
<1>3. k \in k .. c /\ c \in k .. c /\ k \in 1 .. c + 1
  OBVIOUS
<1>4. Start(r, h, k, t[k])
  BY <1>1, <1>2, <1>3 DEF Lines
<1>5. ASSUME NEW q \in k .. c PROVE LineAt(r, h, q, t[q], t[q + 1])
  <2>1. CASE q = c
    BY <1>1, <1>2, <2>1
  <2>2. CASE q # c
    <3>1. q \in k .. c - 1 /\ q + 1 \in k .. c
      BY <2>2
    <3>2. LineAt(r, h, q, s[q], s[q + 1])
      BY <1>1, <3>1 DEF Lines, LinesAt
    <3> QED
      BY <1>2, <3>1, <3>2
  <2> QED
    BY <2>1, <2>2
<1>6. LinesAt(r, h, k, c + 1 - 1, t)
  <2>1. c + 1 - 1 = c
    OBVIOUS
  <2> QED
    BY <1>5, <2>1 DEF LinesAt
<1>7. Lines(r, h, k, c + 1, t)
  BY <1>4, <1>6 DEF Lines
<1> QED
  BY <1>2, <1>3, <1>7 DEF Reached

\* The value of the c-th field has been ended.
LEMMA NextReached ==
  ASSUME NEW r, NEW h, IsSeq(h), NEW c \in Nat \ {0}, NEW a, NEW b, Begun(r, h, c, a),
         Cell(r, Order(r)[c], h, a, b)
  PROVE  Reached(r, h, c + 1, b + 1)
<1>1. a \in Nat \ {0} /\ b \in a .. Len(h) /\ Len(h) \in Nat
  BY DEF Cell, IsSeq
<1>2. b + 1 \in Nat \ {0} /\ (b + 1) - 1 = b
  BY <1>1
<1>3. CASE \E p : Reached(r, h, c, p) /\ Named(h, p, Order(r)[c]) /\ a = p + 2
  <2>1. PICK p : Reached(r, h, c, p) /\ Named(h, p, Order(r)[c]) /\ a = p + 2
    BY <1>3
  <2>2. LineAt(r, h, c, p, b + 1)
    BY <1>2, <2>1, Zenon DEF LineAt
  <2> QED
    BY <1>2, <2>1, <2>2, LineReached
<1>4. CASE ~r.skip /\ CaptionEnded(r, h, c, a)
  <2>1. c + 1 > 1 /\ (c + 1) - 1 = c /\ c + 1 \in Nat /\ c + 1 > 0
    OBVIOUS
  <2>2. CaptionEnded(r, h, (c + 1) - 1, a) /\ Cell(r, Order(r)[(c + 1) - 1], h, a, (b + 1) - 1)
    BY <1>2, <1>4, <2>1
  <2>3. Start(r, h, c + 1, b + 1)
    BY <1>2, <1>4, <2>1, <2>2, Zenon DEF Start
  <2> QED
    BY <1>2, <2>1, <2>3, ReachedAtOnce
<1> QED
  BY <1>3, <1>4 DEF Begun

-----------------------------------------------------------------------------
(* The decoder and what has been written.                                    *)

LEMMA OrderIs ==
  ASSUME NEW r
  PROVE  /\ Len(Order(r)) \in Nat \ {0} /\ Order(r)[1] = "duration"
         /\ DOMAIN Order(r) = 1 .. Len(Order(r))
         /\ \A c \in 1 .. Len(Order(r)) :
                /\ Order(r)[c] \in (Constrained \ {"bpm"}) \cup {"genres"}
                /\ Order(r)[c] = "genres" => r.genres
<1>1. CASE r.genres
  BY <1>1 DEF Order, Constrained
<1>2. CASE ~r.genres
  BY <1>2 DEF Order, Constrained
<1> QED
  BY <1>1, <1>2

\* The next field is the next one in order.
LEMMA NextIs ==
  ASSUME NEW f, NEW c \in 1 .. Len(Order(f)), f.field = Order(f)[c]
  PROVE  NextField(f) = IF c = Len(Order(f)) THEN "think_end" ELSE Order(f)[c + 1]
<1>1. NextField(f) = IF f.field = "duration" /\ ~f.genres THEN "keyscale" ELSE Following[f.field]
  <2>1. f.field # "bpm"
    BY OrderIs DEF Constrained
  <2> QED
    BY <2>1 DEF NextField
<1>2. CASE f.genres
  <2>1. /\ Len(Order(f)) = 5 /\ Order(f)[1] = "duration" /\ Order(f)[2] = "genres"
        /\ Order(f)[3] = "keyscale" /\ Order(f)[4] = "language" /\ Order(f)[5] = "timesignature"
    BY <1>2 DEF Order
  <2>2. c \in {1, 2, 3, 4, 5}
    BY <2>1
  <2> QED
    BY <1>1, <1>2, <2>1, <2>2 DEF Following
<1>3. CASE ~f.genres
  <2>1. /\ Len(Order(f)) = 4 /\ Order(f)[1] = "duration" /\ Order(f)[2] = "keyscale"
        /\ Order(f)[3] = "language" /\ Order(f)[4] = "timesignature"
    BY <1>3 DEF Order
  <2>2. c \in {1, 2, 3, 4}
    BY <2>1
  <2> QED
    BY <1>1, <1>3, <2>1, <2>2 DEF Following
<1> QED
  BY <1>2, <1>3

LEMMA NextOfBpm ==
  ASSUME NEW f, f.field = "bpm"
  PROVE  NextField(f) = IF f.skip THEN "duration" ELSE "caption"
<1>1. CASE f.skip
  BY <1>1 DEF NextField
<1>2. CASE ~f.skip
  BY <1>2 DEF NextField, Following
<1> QED
  BY <1>1, <1>2

LEMMA KnownIs ==
  ASSUME NEW f, NEW name, KnownField(f, name) # "none"
  PROVE  \E c \in 1 .. Len(Order(f)) :
            KnownField(f, name) = Order(f)[c] /\ name = <<Order(f)[c]>>
<1>1. CASE name \in {<<c>> : c \in Constrained \ {"bpm"}}
  <2>1. PICK c \in Constrained \ {"bpm"} : name = <<c>>
    BY <1>1
  <2>2. KnownField(f, name) = c
    BY <1>1, <2>1 DEF KnownField
  <2>3. \E k \in 1 .. Len(Order(f)) : Order(f)[k] = c
    <3>1. CASE f.genres
      <4>1. /\ Len(Order(f)) = 5 /\ Order(f)[1] = "duration"
            /\ Order(f)[3] = "keyscale" /\ Order(f)[4] = "language"
            /\ Order(f)[5] = "timesignature"
        BY <3>1 DEF Order
      <4> QED
        BY <4>1 DEF Constrained
    <3>2. CASE ~f.genres
      <4>1. /\ Len(Order(f)) = 4 /\ Order(f)[1] = "duration" /\ Order(f)[2] = "keyscale"
            /\ Order(f)[3] = "language" /\ Order(f)[4] = "timesignature"
        BY <3>2 DEF Order
      <4> QED
        BY <4>1 DEF Constrained
    <3> QED
      BY <3>1, <3>2
  <2> QED
    BY <2>1, <2>2, <2>3
<1>2. CASE f.genres /\ name = <<"genres">>
  <2>1. KnownField(f, name) = "genres"
    BY <1>2 DEF KnownField
  <2>2. Len(Order(f)) = 5 /\ Order(f)[2] = "genres"
    BY <1>2 DEF Order
  <2> QED
    BY <1>2, <2>1, <2>2
<1>3. CASE name \notin {<<c>> : c \in Constrained \ {"bpm"}} /\ ~(f.genres /\ name = <<"genres">>)
  BY <1>3 DEF KnownField
<1> QED
  BY <1>1, <1>2, <1>3

LEMMA RulesOf ==
  ASSUME NEW f
  PROVE  /\ Rules(f).forced = f.forced /\ Rules(f).skip = f.skip /\ Rules(f).genres = f.genres
         /\ Order(Rules(f)) = Order(f)
         /\ \A c : Legal(Rules(f), c) = Legal(f, c)
         /\ \A name : KnownField(Rules(f), name) = KnownField(f, name)
<1>1. /\ Rules(f).forced = f.forced /\ Rules(f).skip = f.skip /\ Rules(f).genres = f.genres
  BY DEF Rules
<1>2. Order(Rules(f)) = Order(f)
  BY <1>1 DEF Order
<1>3. \A c : Legal(Rules(f), c) = Legal(f, c)
  BY <1>1 DEF Legal
<1>4. \A name : KnownField(Rules(f), name) = KnownField(f, name)
  BY <1>1, Zenon DEF KnownField
<1> QED
  BY <1>1, <1>2, <1>3, <1>4

LEMMA HeaderOfRules == ASSUME NEW f, NEW h, IsHeader(Rules(f), h) PROVE IsHeader(f, h)
<1> DEFINE r == Rules(f)
<1>1. /\ r.skip = f.skip /\ Order(r) = Order(f)
      /\ \A c : Legal(r, c) = Legal(f, c)
  BY RulesOf
<1> HIDE DEF r
<1>2. \A c, v : InHeader(r, c, v) = InHeader(f, c, v)
  BY <1>1, Zenon DEF InHeader
<1>3. \A g, c, i : ValueFrom(r, g, c, i) = ValueFrom(f, g, c, i)
  BY <1>2, Zenon DEF ValueFrom
<1>4. ASSUME NEW g, NEW k, NEW i, LinesFrom(r, g, k, i) PROVE LinesFrom(f, g, k, i)
  <2> DEFINE order == Order(f)
             begin == Begins(order, g, k, i)
  <2>1. order = Order(r)
    BY <1>1
  <2> HIDE DEF order
  <2>2. /\ \A m \in k .. Len(order) :
            /\ SubSeq(g, begin[m], begin[m] + 1) = NameTokens(order[m])
            /\ ValueFrom(r, g, order[m], begin[m] + 2)
        /\ SubSeq(g, begin[Len(order) + 1], Len(g)) = <<EndOfThought>>
    BY <1>4, <2>1, Zenon DEF LinesFrom
  <2> HIDE DEF begin
  <2>3. \A m \in k .. Len(order) : ValueFrom(f, g, order[m], begin[m] + 2)
    BY <1>3, <2>2, Zenon
  <2> QED
    BY <2>2, <2>3, Zenon DEF LinesFrom, begin, order
<1>5. \A g, j, i : EndingAt(r, g, j, i) = EndingAt(f, g, j, i)
  BY <1>1, Zenon DEF EndingAt
<1>6. IsHeader(r, h)
  BY DEF r
<1>7. PICK b \in Legal(r, "bpm") :
        LET open == NameTokens("bpm") \o b \o <<Newline>>
            j == Len(open) + 3
            ends == {i \in DOMAIN h : i > j /\ EndingAt(r, h, j, i) # {}}
        IN  /\ IsPrefix(open, h)
            /\ IF r.skip THEN LinesFrom(r, h, 1, Len(open) + 1)
               ELSE /\ SubSeq(h, j - 2, j - 1) = NameTokens("caption")
                    /\ \E i \in ends :
                        /\ \A n \in ends : i <= n
                        /\ \E k \in EndingAt(r, h, j, i) :
                            /\ ValueFrom(r, h, Order(r)[k], i)
                            /\ LinesFrom(r, h, k + 1, NewlineFrom(h, i) + 1)
  BY <1>6, Zenon DEF IsHeader
<1> DEFINE open == NameTokens("bpm") \o b \o <<Newline>>
           j == Len(open) + 3
           endsR == {i \in DOMAIN h : i > j /\ EndingAt(r, h, j, i) # {}}
           ends == {i \in DOMAIN h : i > j /\ EndingAt(f, h, j, i) # {}}
<1>8. endsR = ends
  BY <1>5
<1>9. IsPrefix(open, h) /\ b \in Legal(f, "bpm")
  BY <1>1, <1>7
<1>10. CASE f.skip
  <2>1. LinesFrom(r, h, 1, Len(open) + 1)
    BY <1>1, <1>7, <1>10
  <2>2. LinesFrom(f, h, 1, Len(open) + 1)
    BY <1>4, <2>1
  <2> QED
    BY <1>9, <1>10, <2>2, Zenon DEF IsHeader
<1>11. CASE ~f.skip
  <2>1. /\ SubSeq(h, j - 2, j - 1) = NameTokens("caption")
        /\ \E i \in endsR :
            /\ \A n \in endsR : i <= n
            /\ \E k \in EndingAt(r, h, j, i) :
                /\ ValueFrom(r, h, Order(r)[k], i)
                /\ LinesFrom(r, h, k + 1, NewlineFrom(h, i) + 1)
    BY <1>1, <1>7, <1>11, Zenon
  <2> HIDE DEF endsR, ends
  <2>2. PICK i \in ends :
            /\ \A n \in ends : i <= n
            /\ \E k \in EndingAt(r, h, j, i) :
                /\ ValueFrom(r, h, Order(r)[k], i)
                /\ LinesFrom(r, h, k + 1, NewlineFrom(h, i) + 1)
    BY <1>8, <2>1, Zenon
  <2>3. PICK k \in EndingAt(r, h, j, i) :
                /\ ValueFrom(r, h, Order(r)[k], i)
                /\ LinesFrom(r, h, k + 1, NewlineFrom(h, i) + 1)
    BY <2>2, Zenon
  <2> HIDE DEF j
  <2>4. /\ k \in EndingAt(f, h, j, i) /\ ValueFrom(f, h, Order(f)[k], i)
        /\ LinesFrom(f, h, k + 1, NewlineFrom(h, i) + 1)
    <3>1. EndingAt(r, h, j, i) = EndingAt(f, h, j, i)
      BY <1>5, Zenon
    <3>2. ValueFrom(f, h, Order(f)[k], i)
      BY <1>1, <1>3, <2>3, Zenon
    <3>3. LinesFrom(f, h, k + 1, NewlineFrom(h, i) + 1)
      BY <1>4, <2>3, Zenon
    <3> QED
      BY <2>3, <3>1, <3>2, <3>3
  <2> QED
    BY <1>9, <1>11, <2>1, <2>2, <2>4, Zenon DEF IsHeader, ends, j
<1> QED
  BY <1>10, <1>11

\* What the steps of a decoder make of its parts.
SameFlags(f, g) ==
    g.pendingNewline = f.pendingNewline /\ g.ending = f.ending /\ g.pending = f.pending

LEMMA LeaveTo ==
  ASSUME NEW f, DOMAIN f = FsmParts
  PROVE  LET g == Leave(f)
         IN  /\ DOMAIN g = FsmParts /\ g.field = NextField(f) /\ g.part = "name" /\ g.pos = 0
             /\ g.queue = f.queue /\ SameFlags(f, g) /\ Rules(g) = Rules(f)
<1> DEFINE g == Leave(f)
           next == NextField(f)
<1>1. g = [f EXCEPT !.field = next, !.part = "name", !.pos = 0, !.acc = <<>>]
  BY DEF Leave
<1> HIDE DEF g, next
<1>2. /\ DOMAIN g = FsmParts /\ g.field = next /\ g.part = "name" /\ g.pos = 0
      /\ g.queue = f.queue /\ g.forced = f.forced /\ g.genres = f.genres /\ g.skip = f.skip
      /\ g.pendingNewline = f.pendingNewline /\ g.ending = f.ending /\ g.pending = f.pending
  BY <1>1 DEF FsmParts
<1> QED
  BY <1>2 DEF g, next, Rules, SameFlags

LEMMA QueueTo ==
  ASSUME NEW f, DOMAIN f = FsmParts, NEW q
  PROVE  LET g == [f EXCEPT !.queue = q]
         IN  /\ DOMAIN g = FsmParts /\ g.field = f.field /\ g.part = f.part /\ g.pos = f.pos
             /\ g.acc = f.acc /\ g.queue = q /\ SameFlags(f, g) /\ Rules(g) = Rules(f)
<1> DEFINE g == [f EXCEPT !.queue = q]
<1>2. /\ DOMAIN g = FsmParts /\ g.field = f.field /\ g.part = f.part /\ g.pos = f.pos
      /\ g.acc = f.acc /\ g.queue = q
      /\ g.forced = f.forced /\ g.genres = f.genres /\ g.skip = f.skip
      /\ g.pendingNewline = f.pendingNewline /\ g.ending = f.ending /\ g.pending = f.pending
  BY DEF FsmParts
<1> HIDE DEF g
<1> QED
  BY <1>2 DEF g, Rules, SameFlags

LEMMA AccTo ==
  ASSUME NEW f, DOMAIN f = FsmParts, NEW x
  PROVE  LET g == [f EXCEPT !.acc = x]
         IN  /\ DOMAIN g = FsmParts /\ g.field = f.field /\ g.part = f.part /\ g.pos = f.pos
             /\ g.acc = x /\ g.queue = f.queue /\ SameFlags(f, g) /\ Rules(g) = Rules(f)
<1> DEFINE g == [f EXCEPT !.acc = x]
<1>2. /\ DOMAIN g = FsmParts /\ g.field = f.field /\ g.part = f.part /\ g.pos = f.pos
      /\ g.acc = x /\ g.queue = f.queue
      /\ g.forced = f.forced /\ g.genres = f.genres /\ g.skip = f.skip
      /\ g.pendingNewline = f.pendingNewline /\ g.ending = f.ending /\ g.pending = f.pending
  BY DEF FsmParts
<1> HIDE DEF g
<1> QED
  BY <1>2 DEF g, Rules, SameFlags

LEMMA NameTo ==
  ASSUME NEW f, DOMAIN f = FsmParts, f.part = "name", f.pos \in {0, 1}
  PROVE  LET g == UpdateName(f)
         IN  /\ DOMAIN g = FsmParts /\ g.field = f.field /\ g.queue = f.queue
             /\ SameFlags(f, g) /\ Rules(g) = Rules(f)
             /\ f.pos = 0 => g.part = "name" /\ g.pos = 1
             /\ f.pos = 1 => g.part = "value" /\ g.acc = <<>>
<1> DEFINE g == UpdateName(f)
<1>1. Len(NameTokens(f.field)) = 2
  BY DEF NameTokens
<1>2. /\ f.pos = 0 => g = [f EXCEPT !.pos = 1]
      /\ f.pos = 1 => g = [f EXCEPT !.pos = 2, !.part = "value", !.acc = <<>>]
  <2>1. CASE f.pos = 0
    BY <1>1, <2>1 DEF UpdateName
  <2>2. CASE f.pos = 1
    BY <1>1, <2>2 DEF UpdateName
  <2> QED
    BY <2>1, <2>2
<1> HIDE DEF g
<1>3. /\ DOMAIN g = FsmParts /\ g.field = f.field /\ g.queue = f.queue
      /\ g.forced = f.forced /\ g.genres = f.genres /\ g.skip = f.skip
      /\ g.pendingNewline = f.pendingNewline /\ g.ending = f.ending /\ g.pending = f.pending
      /\ f.pos = 0 => g.part = "name" /\ g.pos = 1
      /\ f.pos = 1 => g.part = "value" /\ g.acc = <<>>
  <2>1. CASE f.pos = 0
    BY <1>2, <2>1 DEF FsmParts
  <2>2. CASE f.pos = 1
    BY <1>2, <2>2 DEF FsmParts
  <2> QED
    BY <2>1, <2>2
<1> QED
  BY <1>3 DEF g, Rules, SameFlags

LEMMA EndTo ==
  ASSUME NEW f, DOMAIN f = FsmParts
  PROVE  LET g == [f EXCEPT !.field = "codes"]
         IN  DOMAIN g = FsmParts /\ g.field = "codes" /\ Rules(g) = Rules(f)
<1> DEFINE g == [f EXCEPT !.field = "codes"]
<1>2. /\ DOMAIN g = FsmParts /\ g.field = "codes"
      /\ g.forced = f.forced /\ g.genres = f.genres /\ g.skip = f.skip
  BY DEF FsmParts
<1> HIDE DEF g
<1> QED
  BY <1>2 DEF g, Rules

\* The two outcomes of EndCaption.
Found(f, c) ==
    [f EXCEPT !.pendingNewline = FALSE, !.ending = FALSE, !.pending = <<>>,
              !.field = c, !.part = "value", !.pos = 0, !.acc = <<>>]
Pended(f, line) == [f EXCEPT !.pendingNewline = FALSE, !.ending = TRUE, !.pending = line]

LEMMA FoundTo ==
  ASSUME NEW f, DOMAIN f = FsmParts, NEW c, NEW g, g = Found(f, c)
  PROVE  /\ DOMAIN g = FsmParts /\ g.field = c /\ g.part = "value" /\ g.acc = <<>>
         /\ g.queue = f.queue /\ Rules(g) = Rules(f)
<1>1. /\ DOMAIN g = FsmParts /\ g.field = c /\ g.part = "value" /\ g.acc = <<>>
      /\ g.queue = f.queue
      /\ g.forced = f.forced /\ g.genres = f.genres /\ g.skip = f.skip
  BY DEF FsmParts, Found
<1> QED
  BY <1>1 DEF Rules

LEMMA PendingTo ==
  ASSUME NEW f, DOMAIN f = FsmParts, NEW line, NEW g, g = Pended(f, line)
  PROVE  /\ DOMAIN g = FsmParts /\ g.field = f.field /\ g.part = f.part
         /\ g.queue = f.queue /\ Rules(g) = Rules(f)
         /\ ~g.pendingNewline /\ g.ending /\ g.pending = line
<1>1. /\ DOMAIN g = FsmParts /\ g.field = f.field /\ g.part = f.part
      /\ g.queue = f.queue
      /\ g.forced = f.forced /\ g.genres = f.genres /\ g.skip = f.skip
      /\ ~g.pendingNewline /\ g.ending /\ g.pending = line
  BY DEF FsmParts, Pended
<1> QED
  BY <1>1 DEF Rules

Marked(f, b) == [f EXCEPT !.pendingNewline = b]

LEMMA NewlineTo ==
  ASSUME NEW f, DOMAIN f = FsmParts, NEW b, NEW g, g = Marked(f, b)
  PROVE  /\ DOMAIN g = FsmParts /\ g.field = f.field /\ g.part = f.part
         /\ g.queue = f.queue /\ Rules(g) = Rules(f)
         /\ g.pendingNewline = b /\ g.ending = f.ending /\ g.pending = f.pending
<1>1. /\ DOMAIN g = FsmParts /\ g.field = f.field /\ g.part = f.part
      /\ g.queue = f.queue
      /\ g.forced = f.forced /\ g.genres = f.genres /\ g.skip = f.skip
      /\ g.pendingNewline = b /\ g.ending = f.ending /\ g.pending = f.pending
  BY DEF FsmParts, Marked
<1> QED
  BY <1>1 DEF Rules

\* What a request forces is on one line.
OneLine(r) == \A c \in Constrained : IsSeq(r.forced[c]) /\ \A q \in 1 .. Len(r.forced[c]) : r.forced[c][q] # Newline

LEMMA LegalIs ==
  ASSUME NEW r, OneLine(r), NEW c \in Constrained, NEW v \in Legal(r, c)
  PROVE  /\ IsSeq(v) /\ Len(v) \in Nat
         /\ \A q \in 1 .. Len(v) : v[q] # Newline
         /\ r.forced[c] # <<>> => v = r.forced[c]
<1>1. CASE r.forced[c] # <<>>
  <2>1. v = r.forced[c]
    BY <1>1 DEF Legal
  <2> QED
    BY <2>1 DEF OneLine, IsSeq
<1>2. CASE r.forced[c] = <<>>
  <2>1. v \in Values[c]
    BY <1>2 DEF Legal
  <2>2. v \in Seq(Seq(STRING)) /\ \A q \in DOMAIN v : v[q] # Newline
    BY <2>1, ValuesAssumption
  <2>3. IsSeq(v) /\ Len(v) \in Nat /\ DOMAIN v = 1 .. Len(v)
    BY <2>2, SeqIsSeq, LenProperties
  <2> QED
    BY <1>2, <2>2, <2>3
<1> QED
  BY <1>1, <1>2

LEMMA HeadIs ==
  ASSUME NEW x, IsSeq(x), x # <<>>
  PROVE  /\ IsSeq(Tail(x)) /\ Len(Tail(x)) = Len(x) - 1 /\ Len(x) >= 1 /\ Len(x) \in Nat
         /\ Head(x) = x[1]
         /\ \A i \in 1 .. Len(x) - 1 : Tail(x)[i] = x[i + 1]
<1> DEFINE S == {x[j] : j \in 1 .. Len(x)}
<1>1. x \in Seq(S)
  BY IsSeqInSeq
<1> HIDE DEF S
<1>2. Head(x) = x[1] /\ \A i \in 1 .. Len(x) - 1 : Tail(x)[i] = x[i + 1]
  <2>1. /\ Len(Tail(x)) = Len(x) - 1
        /\ \A i \in 1 .. Len(Tail(x)) : Tail(x)[i] = x[i + 1]
    BY <1>1, HeadTailProperties
  <2> QED
    BY <2>1
<1> QED
  BY <1>2, TailIsSeq

\* Of value v, d tokens stand from a on; the rest is queued, or what has been
\* written is kept.
Queued(f, v, d) ==
    /\ IsSeq(f.queue) /\ Len(f.queue) = (Len(v) + 1) - d
    /\ \A q \in 1 .. Len(v) - d : f.queue[q] = v[d + q]
    /\ f.queue[(Len(v) + 1) - d] = Newline
Taken(f, v, d) ==
    f.queue = <<>> /\ IsSeq(f.acc) /\ Len(f.acc) = d /\ \A q \in 1 .. d : f.acc[q] = v[q]
Standing(g, a, v, d) ==
    /\ a \in Nat \ {0} /\ d \in 0 .. Len(v) /\ (a - 1) + d = Len(g)
    /\ \A q \in 1 .. d : g[(a - 1) + q] = v[q]
ValueAt(r, f, g, a, v, d) ==
    /\ v \in Legal(r, f.field) /\ Standing(g, a, v, d)
    /\ Queued(f, v, d) \/ Taken(f, v, d)
    /\ f.queue = <<>> /\ r.forced[f.field] # <<>> => d = 0

\* One more token of it stands.
LEMMA StandsLonger ==
  ASSUME NEW g, IsSeq(g), NEW a, NEW v, NEW d, Len(v) \in Nat, Standing(g, a, v, d), d < Len(v)
  PROVE  Standing(Append(g, v[d + 1]), a, v, d + 1)
<1> DEFINE h == Append(g, v[d + 1])
           n == Len(g)
           m == Len(v)
<1>1. /\ a \in Nat \ {0} /\ d \in 0 .. m /\ (a - 1) + d = n /\ m \in Nat /\ d < m
      /\ \A q \in 1 .. d : g[(a - 1) + q] = v[q]
  BY DEF Standing
<1>2. /\ IsSeq(h) /\ Len(h) = n + 1 /\ n \in Nat /\ h[n + 1] = v[d + 1]
      /\ \A q \in 1 .. n : g[q] = h[q]
  BY AppendAgrees DEF Agree
<1> HIDE DEF h, n, m
<1>3. ASSUME NEW q \in 1 .. d + 1 PROVE h[(a - 1) + q] = v[q]
  <2>1. CASE q = d + 1
    <3>1. (a - 1) + q = n + 1
      BY <1>1, <2>1
    <3> QED
      BY <1>2, <2>1, <3>1
  <2>2. CASE q # d + 1
    <3>1. q \in 1 .. d /\ (a - 1) + q \in 1 .. n
      BY <1>1, <1>2, <2>2
    <3> QED
      BY <1>1, <1>2, <3>1
  <2> QED
    BY <2>1, <2>2
<1>4. d + 1 \in 0 .. m /\ (a - 1) + (d + 1) = n + 1
  BY <1>1, <1>2
<1> QED
  BY <1>1, <1>2, <1>3, <1>4 DEF Standing, h, m

\* All of it stands, and the line is ended.
LEMMA LineStands ==
  ASSUME NEW r, NEW c, NEW v, IsSeq(v), InHeader(r, c, v), \A q \in 1 .. Len(v) : v[q] # Newline,
         NEW g, IsSeq(g), NEW a, Standing(g, a, v, Len(v))
  PROVE  Cell(r, c, Append(g, Newline), a, Len(g) + 1)
<1> DEFINE h == Append(g, Newline)
           n == Len(g)
           m == Len(v)
           u == SubSeq(h, a, n)
<1>1. /\ a \in Nat \ {0} /\ m \in 0 .. m /\ (a - 1) + m = n
      /\ \A q \in 1 .. m : g[(a - 1) + q] = v[q]
  BY DEF Standing
<1>2. /\ IsSeq(h) /\ Len(h) = n + 1 /\ n \in Nat /\ h[n + 1] = Newline
      /\ \A q \in 1 .. n : g[q] = h[q]
  BY AppendAgrees DEF Agree
<1>3. IsSeq(v) /\ m \in Nat /\ \A q \in 1 .. m : v[q] # Newline
  BY DEF IsSeq
<1>4. IsSeq(u) /\ Len(u) = n - a + 1 /\ \A q \in 1 .. n - a + 1 : u[q] = h[a + q - 1]
  <2>1. n \in Nat /\ a - 1 <= n /\ n <= Len(h)
    BY <1>1, <1>2, <1>3
  <2> HIDE DEF h, n
  <2> QED
    BY <1>1, <1>2, <2>1, PartIsSeq
<1> HIDE DEF h, n, m, u
<1>5. n - a + 1 = m
  BY <1>1, <1>2, <1>3
<1>6. ASSUME NEW q \in 1 .. m PROVE u[q] = v[q]
  <2>1. a + q - 1 = (a - 1) + q /\ a + q - 1 \in 1 .. n
    BY <1>1, <1>2, <1>3
  <2> QED
    BY <1>1, <1>2, <1>4, <1>5, <2>1
<1>7. u = v
  <2>1. Len(u) = Len(v) /\ \A q \in 1 .. Len(u) : u[q] = v[q]
    BY <1>4, <1>5, <1>6 DEF m
  <2> QED
    BY <1>3, <1>4, <2>1, IsSeqEqual
<1>8. ASSUME NEW q \in a .. n PROVE h[q] # Newline
  <2> DEFINE i == q - (a - 1)
  <2>1. i \in 1 .. m /\ (a - 1) + i = q /\ q \in 1 .. n
    BY <1>1, <1>2, <1>3
  <2> HIDE DEF i
  <2>2. h[q] = v[i]
    BY <1>1, <1>2, <2>1
  <2> QED
    BY <1>3, <2>1, <2>2
<1>10. n + 1 \in a .. n + 1 /\ (n + 1) - 1 = n
  BY <1>1, <1>2, <1>3
<1>11. InHeader(r, c, SubSeq(h, a, (n + 1) - 1))
  BY <1>7, <1>10 DEF u
<1> QED
  BY <1>1, <1>2, <1>8, <1>10, <1>11 DEF Cell, h, n

LEMMA StandsWhole ==
  ASSUME NEW r, OneLine(r), NEW c \in Constrained, NEW v \in Legal(r, c),
         NEW g, IsSeq(g), NEW a, Standing(g, a, v, Len(v))
  PROVE  Cell(r, c, Append(g, Newline), a, Len(g) + 1)
<1>1. IsSeq(v) /\ \A q \in 1 .. Len(v) : v[q] # Newline
  BY LegalIs
<1>2. InHeader(r, c, v)
  BY DEF InHeader, Constrained
<1> QED
  BY <1>1, <1>2, LineStands, Zenon

-----------------------------------------------------------------------------
(* Where in the header the decoder is.                                       *)

Unmoved(f) == ~f.pendingNewline /\ ~f.ending

\* The name of a field that is being written, from p on, and where it is due.
Naming(f, g, p) ==
    /\ f.part = "name" /\ f.queue = <<>> /\ p \in Nat \ {0} /\ f.pos \in {0, 1}
    /\ (p - 1) + f.pos = Len(g) /\ (f.pos = 1 => g[p] = <<f.field>>)
NameDue(r, f, g, p) ==
    \/ f.field = "bpm" /\ p = 1 /\ Unmoved(f)
    \/ f.field = "caption" /\ ~r.skip /\ Opened(r, g, p) /\ Unmoved(f)
    \/ \E c \in 1 .. Len(Order(r)) : f.field = Order(r)[c] /\ Reached(r, g, c, p)
NameState(r, f, g) == \E p : NameDue(r, f, g, p) /\ Naming(f, g, p)

\* A value is due at a.
ValueDue(r, f, g, a) ==
    \/ f.field = "bpm" /\ a = 3 /\ Named(g, 1, "bpm") /\ Unmoved(f)
    \/ \E c \in 1 .. Len(Order(r)) : f.field = Order(r)[c] /\ Begun(r, g, c, a)
ValueState(r, f, g) ==
    /\ f.part = "value" /\ f.field \in Constrained
    /\ \E a : ValueDue(r, f, g, a) /\ \E v, d : ValueAt(r, f, g, a, v, d)

Closing(r, f, g) ==
    f.field = "think_end" /\ f.queue = <<>> /\ Reached(r, g, Len(Order(r)) + 1, Len(g) + 1)

\* The value of a field stands, and its line is ended: the next one is due.
LEMMA ValueEnds ==
  ASSUME NEW r, NEW f, NEW k, NEW g, NEW h, Longer(g, h), NEW a, ValueDue(r, f, g, a),
         Cell(r, f.field, h, a, Len(h)), Rules(f) = r,
         k.field = NextField(f), k.part = "name", k.pos = 0, k.queue = <<>>, SameFlags(f, k)
  PROVE  NameState(r, k, h) \/ Closing(r, k, h)
<1> DEFINE n == Len(h)
           p == n + 1
           m == Len(Order(r))
<1>1. n \in Nat /\ IsSeq(h) /\ p \in Nat \ {0} /\ (p - 1) + 0 = n /\ p - 1 = n
  BY LongerIs
<1>2. Naming(k, h, p)
  <2>1. k.pos \in {0, 1} /\ (p - 1) + k.pos = Len(h) /\ k.pos # 1
    BY <1>1
  <2> QED
    BY <1>1, <2>1 DEF Naming
<1>3. m \in Nat \ {0} /\ Order(r)[1] = "duration" /\ Order(f) = Order(r) /\ f.skip = r.skip
  BY OrderIs, RulesOf
<1>4. Unmoved(f) => Unmoved(k)
  BY DEF Unmoved, SameFlags
<1> HIDE DEF p, n, m
<1>5. CASE f.field = "bpm" /\ a = 3 /\ Named(g, 1, "bpm") /\ Unmoved(f)
  <2>1. Opened(r, h, p)
    <3>1. Named(h, 1, "bpm")
      BY <1>5, NamedLasts
    <3>2. Cell(r, "bpm", h, 3, p - 1)
      BY <1>1, <1>5 DEF n
    <3> QED
      BY <1>1, <3>1, <3>2 DEF Opened
  <2>2. CASE r.skip
    <3>1. k.field = Order(r)[1]
      BY <1>3, <1>5, <2>2, NextOfBpm
    <3>2. Start(r, h, 1, p)
      BY <2>1, <2>2 DEF Start
    <3>3. Reached(r, h, 1, p)
      BY <1>1, <3>2, ReachedAtOnce
    <3>4. 1 \in 1 .. m
      BY <1>3
    <3>5. NameDue(r, k, h, p)
      BY <3>1, <3>3, <3>4 DEF NameDue, m
    <3> QED
      BY <1>2, <3>5 DEF NameState
  <2>3. CASE ~r.skip
    <3>1. k.field = "caption"
      BY <1>3, <1>5, <2>3, NextOfBpm
    <3>2. NameDue(r, k, h, p)
      BY <1>4, <1>5, <2>1, <2>3, <3>1 DEF NameDue
    <3> QED
      BY <1>2, <3>2 DEF NameState
  <2> QED
    BY <2>2, <2>3
<1>6. CASE \E c \in 1 .. Len(Order(r)) : f.field = Order(r)[c] /\ Begun(r, g, c, a)
  <2>1. PICK c \in 1 .. m : f.field = Order(r)[c] /\ Begun(r, g, c, a)
    BY <1>6 DEF m
  <2>2. c \in Nat \ {0}
    BY <1>3
  <2>3. Begun(r, h, c, a)
    BY <2>1, BegunLasts
  <2>4. Cell(r, Order(r)[c], h, a, n)
    BY <2>1 DEF n
  <2>5. Reached(r, h, c + 1, p)
    BY <1>1, <2>2, <2>3, <2>4, NextReached DEF p
  <2>6. NextField(f) = IF c = m THEN "think_end" ELSE Order(r)[c + 1]
    BY <1>3, <2>1, NextIs DEF m
  <2>7. CASE c = m
    <3>1. k.field = "think_end"
      BY <2>6, <2>7
    <3>2. Reached(r, h, Len(Order(r)) + 1, Len(h) + 1)
      BY <2>5, <2>7 DEF m, n, p
    <3> QED
      BY <3>1, <3>2 DEF Closing
  <2>8. CASE c # m
    <3>1. k.field = Order(r)[c + 1] /\ c + 1 \in 1 .. m
      BY <1>3, <2>1, <2>6, <2>8
    <3>2. NameDue(r, k, h, p)
      BY <2>5, <3>1 DEF NameDue, m
    <3> QED
      BY <1>2, <3>2 DEF NameState
  <2> QED
    BY <2>7, <2>8
<1> QED
  BY <1>5, <1>6 DEF ValueDue

\* While the value is being written it stays due at the same place.
LEMMA ValueStaysDue ==
  ASSUME NEW r, NEW f, NEW k, NEW g, NEW h, Longer(g, h), NEW a, ValueDue(r, f, g, a),
         k.field = f.field, SameFlags(f, k)
  PROVE  ValueDue(r, k, h, a)
<1>1. CASE f.field = "bpm" /\ a = 3 /\ Named(g, 1, "bpm") /\ Unmoved(f)
  <2>1. Named(h, 1, "bpm") /\ Unmoved(k)
    BY <1>1, NamedLasts DEF Unmoved, SameFlags
  <2> QED
    BY <1>1, <2>1 DEF ValueDue
<1>2. CASE \E c \in 1 .. Len(Order(r)) : f.field = Order(r)[c] /\ Begun(r, g, c, a)
  BY <1>2, BegunLasts, Zenon DEF ValueDue
<1> QED
  BY <1>1, <1>2 DEF ValueDue

\* A queued token is written.
LEMMA QueueWrites ==
  ASSUME NEW r, OneLine(r), NEW f, DOMAIN f = FsmParts, Rules(f) = r, NEW g, IsSeq(g),
         ValueState(r, f, g), f.queue # <<>>
  PROVE  LET h == Append(g, Head(f.queue))
             k == Consume(f)
         IN  /\ DOMAIN k = FsmParts /\ Rules(k) = r
             /\ ValueState(r, k, h) \/ NameState(r, k, h) \/ Closing(r, k, h)
<1> DEFINE h == Append(g, Head(f.queue))
           x == f.queue
           rest == [f EXCEPT !.queue = Tail(x)]
           k == Consume(f)
<1>1. f.part = "value" /\ f.field \in Constrained
  BY DEF ValueState
<1>2. PICK a : ValueDue(r, f, g, a) /\ \E v, d : ValueAt(r, f, g, a, v, d)
  BY DEF ValueState
<1>3. PICK v, d : ValueAt(r, f, g, a, v, d)
  BY <1>2
<1>4. v \in Legal(r, f.field) /\ Standing(g, a, v, d) /\ Queued(f, v, d)
  BY <1>3 DEF ValueAt, Taken
<1>5. /\ IsSeq(v) /\ Len(v) \in Nat /\ (r.forced[f.field] # <<>> => v = r.forced[f.field])
  BY <1>1, <1>4, LegalIs
<1>6. d \in 0 .. Len(v)
  BY <1>4 DEF Standing
<1>7. /\ IsSeq(x) /\ Len(x) = (Len(v) + 1) - d
      /\ \A q \in 1 .. Len(v) - d : x[q] = v[d + q]
      /\ x[(Len(v) + 1) - d] = Newline
  BY <1>4 DEF Queued
<1>8. /\ IsSeq(Tail(x)) /\ Len(Tail(x)) = Len(x) - 1 /\ Len(x) \in Nat /\ Head(x) = x[1]
      /\ \A i \in 1 .. Len(x) - 1 : Tail(x)[i] = x[i + 1]
  BY <1>7, HeadIs
<1>9. Longer(g, h) /\ Len(h) = Len(g) + 1
  <2>1. IsSeq(h) /\ Len(h) = Len(g) + 1 /\ Agree(g, h, Len(g))
    BY AppendAgrees
  <2> QED
    BY <2>1 DEF Longer
<1>10. /\ DOMAIN rest = FsmParts /\ rest.field = f.field /\ rest.part = f.part
       /\ rest.queue = Tail(x) /\ SameFlags(f, rest) /\ Rules(rest) = r
  BY QueueTo
<1>11. k = IF rest.queue = <<>> THEN Leave(rest) ELSE rest
  BY DEF Consume
<1> HIDE DEF rest, k, x
<1>12. CASE d = Len(v)
  <2>1. Len(x) = 1 /\ x[1] = Newline
    <3>1. (Len(v) + 1) - d = 1
      BY <1>5, <1>12
    <3> QED
      BY <1>7, <3>1
  <2>2. Tail(x) = <<>>
    <3>1. Len(Tail(x)) = 0
      BY <1>8, <2>1
    <3> QED
      BY <1>8, <3>1, NothingIsEmpty
  <2>3. Head(x) = Newline
    BY <1>8, <2>1
  <2>4. k = Leave(rest)
    BY <1>10, <1>11, <2>2
  <2>5. /\ DOMAIN k = FsmParts /\ k.field = NextField(rest) /\ k.part = "name" /\ k.pos = 0
        /\ k.queue = <<>> /\ SameFlags(rest, k) /\ Rules(k) = r
    BY <1>10, <2>2, <2>4, LeaveTo
  <2>6. Cell(r, f.field, h, a, Len(h))
    <3>1. Cell(r, f.field, Append(g, Newline), a, Len(g) + 1)
      BY <1>1, <1>4, <1>12, StandsWhole
    <3> QED
      BY <1>9, <2>3, <3>1 DEF x
  <2>7. ValueDue(r, rest, g, a)
    <3>1. Longer(g, g)
      BY DEF Longer, Agree, IsSeq
    <3> QED
      BY <1>2, <1>10, <3>1, ValueStaysDue
  <2>8. Cell(r, rest.field, h, a, Len(h))
    BY <1>10, <2>6
  <2> HIDE DEF h
  <2>9. NameState(r, k, h) \/ Closing(r, k, h)
    BY <1>9, <1>10, <2>5, <2>7, <2>8, ValueEnds
  <2> QED
    BY <2>5, <2>9 DEF k, h
<1>13. CASE d # Len(v)
  <2>1. d \in Nat /\ d < Len(v) /\ d + 1 \in Nat
    BY <1>5, <1>6, <1>13
  <2>2. Head(x) = v[d + 1]
    <3>1. 1 \in 1 .. Len(v) - d
      BY <1>5, <2>1
    <3> QED
      BY <1>7, <1>8, <3>1
  <2>3. Len(Tail(x)) = (Len(v) + 1) - (d + 1) /\ Len(Tail(x)) > 0
    BY <1>5, <1>7, <1>8, <2>1
  <2>4. rest.queue # <<>>
    <3>1. ASSUME NEW y, Len(y) > 0 PROVE y # <<>>
      BY <3>1
    <3>2. Tail(x) # <<>>
      BY <2>3, <3>1
    <3> QED
      BY <1>10, <3>2, Zenon
  <2>5. k = rest
    BY <1>11, <2>4
  <2>6. Queued(k, v, d + 1)
    <3> DEFINE y == Tail(x)
    <3>1. ASSUME NEW q \in 1 .. Len(v) - (d + 1) PROVE y[q] = v[(d + 1) + q]
      <4>1. q \in 1 .. Len(x) - 1 /\ q + 1 \in 1 .. Len(v) - d /\ d + (q + 1) = (d + 1) + q
        BY <1>5, <1>7, <2>1
      <4>2. y[q] = x[q + 1] /\ x[q + 1] = v[d + (q + 1)]
        BY <1>7, <1>8, <4>1
      <4> QED
        BY <4>1, <4>2
    <3>2. y[(Len(v) + 1) - (d + 1)] = Newline
      <4> DEFINE q == (Len(v) + 1) - (d + 1)
      <4>1. q \in 1 .. Len(x) - 1 /\ q + 1 = (Len(v) + 1) - d
        BY <1>5, <1>7, <2>1
      <4> HIDE DEF q
      <4>2. y[q] = x[q + 1]
        BY <1>8, <4>1
      <4>3. y[q] = Newline
        BY <1>7, <4>1, <4>2
      <4> QED
        BY <4>3 DEF q
    <3>3. k.queue = y
      BY <1>10, <2>5
    <3> HIDE DEF y
    <3>4. IsSeq(y) /\ Len(y) = (Len(v) + 1) - (d + 1)
      BY <1>8, <2>3 DEF y
    <3> QED
      BY <3>1, <3>2, <3>3, <3>4 DEF Queued
  <2>7. Standing(h, a, v, d + 1)
    BY <1>4, <1>5, <2>1, <2>2, StandsLonger DEF x
  <2>8. ValueAt(r, k, h, a, v, d + 1)
    BY <1>4, <1>10, <2>4, <2>5, <2>6, <2>7 DEF ValueAt
  <2>9. ValueDue(r, k, h, a)
    BY <1>2, <1>9, <1>10, <2>5, ValueStaysDue
  <2>10. ValueState(r, k, h)
    <3>1. k.part = "value" /\ k.field \in Constrained
      BY <1>1, <1>10, <2>5
    <3> QED
      BY <2>8, <2>9, <3>1, Zenon DEF ValueState
  <2> QED
    BY <1>10, <2>5, <2>10 DEF k, h
<1> QED
  BY <1>12, <1>13

\* The mask of a value leaves what goes on with a legal value, or ends one.
GoesOn(w, v, d, tok) ==
    /\ d \in 0 .. Len(w) /\ \A q \in 1 .. d : w[q] = v[q]
    /\ IF d = Len(w) THEN tok = Newline ELSE tok = w[d + 1]

LEMMA ContinuationIs ==
  ASSUME NEW r, OneLine(r), NEW f, Rules(f) = r, f.field \in Constrained,
         NEW v \in Legal(r, f.field), NEW d, d \in 0 .. Len(v), Taken(f, v, d),
         NEW tok \in Continuations(f)
  PROVE  \E w \in Legal(r, f.field) : GoesOn(w, v, d, tok)
<1> DEFINE lines == {Append(w, Newline) : w \in Legal(f, f.field)}
           acc == f.acc
           longer == {l \in lines : IsStrictPrefix(acc, l)}
           next == {l[Len(acc) + 1] : l \in longer}
<1>1. Legal(f, f.field) = Legal(r, f.field)
  BY RulesOf
<1>2. IsSeq(acc) /\ Len(acc) = d /\ \A q \in 1 .. d : acc[q] = v[q]
  BY DEF Taken
<1>3. IsSeq(v) /\ Len(v) \in Nat
  BY LegalIs
<1>4. Append(v, Newline) \in longer
  <2> DEFINE l == Append(v, Newline)
  <2>1. IsSeq(l) /\ Len(l) = Len(v) + 1 /\ \A q \in 1 .. Len(v) : v[q] = l[q]
    BY <1>3, AppendAgrees DEF Agree
  <2>2. l \in lines
    BY <1>1
  <2> HIDE DEF l
  <2>3. Len(acc) <= Len(l) /\ \A q \in 1 .. Len(acc) : acc[q] = l[q]
    BY <1>2, <1>3, <2>1
  <2>4. IsPrefix(acc, l)
    BY <1>2, <2>1, <2>3, PrefixIs
  <2>5. Len(acc) # Len(l)
    BY <1>2, <1>3, <2>1
  <2>6. IsStrictPrefix(acc, l)
    BY <2>4, <2>5, Zenon DEF IsStrictPrefix
  <2> QED
    BY <2>2, <2>6 DEF l
<1>5. next # {}
  BY <1>4
<1>6. tok \in next
  <2>1. Continuations(f) = IF next = {} THEN {Newline} ELSE next
    BY Zenon DEF Continuations
  <2> QED
    BY <1>5, <2>1
<1>7. PICK l \in lines : IsStrictPrefix(acc, l) /\ tok = l[Len(acc) + 1]
  BY <1>6
<1>8. PICK w \in Legal(r, f.field) : l = Append(w, Newline)
  BY <1>1, <1>7
<1>9. IsSeq(w) /\ Len(w) \in Nat
  BY LegalIs
<1>10. /\ IsSeq(l) /\ Len(l) = Len(w) + 1 /\ l[Len(w) + 1] = Newline
       /\ \A q \in 1 .. Len(w) : w[q] = l[q]
  BY <1>8, <1>9, AppendAgrees DEF Agree
<1> HIDE DEF acc, lines, longer, next
<1>11. IsPrefix(acc, l) /\ acc # l
  BY <1>7, Zenon DEF IsStrictPrefix
<1>12. d <= Len(l) /\ \A q \in 1 .. d : acc[q] = l[q]
  BY <1>2, <1>10, <1>11, PrefixIs
<1>13. d # Len(l)
  BY <1>2, <1>10, <1>11, <1>12, IsSeqEqual
<1>14. d \in 0 .. Len(w)
  BY <1>3, <1>9, <1>10, <1>12, <1>13
<1>15. \A q \in 1 .. d : w[q] = v[q]
  <2>1. \A q \in 1 .. d : q \in 1 .. Len(w)
    BY <1>9, <1>14
  <2> QED
    BY <1>2, <1>10, <1>12, <2>1
<1>16. IF d = Len(w) THEN tok = Newline ELSE tok = w[d + 1]
  <2>1. d # Len(w) => d + 1 \in 1 .. Len(w)
    BY <1>9, <1>14
  <2> QED
    BY <1>2, <1>7, <1>10, <2>1
<1> QED
  BY <1>14, <1>15, <1>16, Zenon DEF GoesOn

\* A token that the mask left is written.
LEMMA FreeWrites ==
  ASSUME NEW r, OneLine(r), NEW f, DOMAIN f = FsmParts, Rules(f) = r, NEW g, IsSeq(g),
         ValueState(r, f, g), f.queue = <<>>, r.forced[f.field] = <<>>,
         NEW tok \in Continuations(f)
  PROVE  LET h == Append(g, tok)
             k == UpdateValue(f, tok)
         IN  /\ DOMAIN k = FsmParts /\ Rules(k) = r
             /\ ValueState(r, k, h) \/ NameState(r, k, h) \/ Closing(r, k, h)
<1> DEFINE h == Append(g, tok)
           k == UpdateValue(f, tok)
<1>1. f.part = "value" /\ f.field \in Constrained
  BY DEF ValueState
<1>2. PICK a : ValueDue(r, f, g, a) /\ \E v, d : ValueAt(r, f, g, a, v, d)
  BY DEF ValueState
<1>3. PICK v, d : ValueAt(r, f, g, a, v, d)
  BY <1>2
<1>4. v \in Legal(r, f.field) /\ Standing(g, a, v, d) /\ (Queued(f, v, d) \/ Taken(f, v, d))
  BY <1>3 DEF ValueAt
<1>5. IsSeq(v) /\ Len(v) \in Nat
  BY <1>1, <1>4, LegalIs
<1>6. d \in 0 .. Len(v) /\ a \in Nat \ {0} /\ (a - 1) + d = Len(g)
      /\ \A q \in 1 .. d : g[(a - 1) + q] = v[q]
  BY <1>4 DEF Standing
<1>7. Taken(f, v, d)
  <2>1. Queued(f, v, d) => Len(f.queue) > 0
    <3>1. Queued(f, v, d) => Len(f.queue) = (Len(v) + 1) - d
      BY DEF Queued
    <3> QED
      BY <1>5, <1>6, <3>1
  <2> QED
    BY <1>4, <2>1, EmptyIsSeq
<1>8. PICK w \in Legal(r, f.field) :
        /\ d \in 0 .. Len(w) /\ \A q \in 1 .. d : w[q] = v[q]
        /\ IF d = Len(w) THEN tok = Newline ELSE tok = w[d + 1]
  <2>1. PICK w \in Legal(r, f.field) : GoesOn(w, v, d, tok)
    BY <1>1, <1>4, <1>6, <1>7, ContinuationIs, Zenon
  <2> QED
    BY <2>1, Zenon DEF GoesOn
<1>9. IsSeq(w) /\ Len(w) \in Nat /\ \A q \in 1 .. Len(w) : w[q] # Newline
  BY <1>1, LegalIs
<1>10. Standing(g, a, w, d)
  BY <1>6, <1>8 DEF Standing
<1>11. Longer(g, h) /\ Len(h) = Len(g) + 1
  <2>1. IsSeq(h) /\ Len(h) = Len(g) + 1 /\ Agree(g, h, Len(g))
    BY AppendAgrees
  <2> QED
    BY <2>1 DEF Longer
<1>12. CASE d = Len(w)
  <2>1. tok = Newline
    BY <1>8, <1>12
  <2>2. k = Leave(f)
    BY <2>1 DEF UpdateValue
  <2>3. /\ DOMAIN k = FsmParts /\ k.field = NextField(f) /\ k.part = "name" /\ k.pos = 0
        /\ k.queue = <<>> /\ SameFlags(f, k) /\ Rules(k) = r
    BY <2>2, LeaveTo
  <2>4. Cell(r, f.field, h, a, Len(h))
    <3>1. Cell(r, f.field, Append(g, Newline), a, Len(g) + 1)
      BY <1>1, <1>10, <1>12, StandsWhole
    <3> QED
      BY <1>11, <2>1, <3>1
  <2> HIDE DEF h, k
  <2>5. NameState(r, k, h) \/ Closing(r, k, h)
    BY <1>2, <1>11, <2>3, <2>4, ValueEnds
  <2> QED
    BY <2>3, <2>5 DEF k, h
<1>13. CASE d # Len(w)
  <2>1. tok = w[d + 1] /\ d < Len(w) /\ d + 1 \in 1 .. Len(w) /\ d \in Nat
    BY <1>8, <1>9, <1>13
  <2>2. tok # Newline
    BY <1>9, <2>1
  <2>3. k = [f EXCEPT !.acc = Append(f.acc, tok)]
    BY <2>2 DEF UpdateValue
  <2>4. /\ DOMAIN k = FsmParts /\ k.field = f.field /\ k.part = f.part
        /\ k.acc = Append(f.acc, tok) /\ k.queue = f.queue /\ SameFlags(f, k) /\ Rules(k) = r
    <3> DEFINE y == Append(f.acc, tok)
    <3> HIDE DEF y, k
    <3>1. k = [f EXCEPT !.acc = y]
      BY <2>3 DEF y
    <3>2. DOMAIN f = FsmParts /\ Rules(f) = r
      OBVIOUS
    <3>3. /\ DOMAIN k = FsmParts /\ k.field = f.field /\ k.part = f.part
          /\ k.acc = y /\ k.queue = f.queue /\ SameFlags(f, k) /\ Rules(k) = Rules(f)
      BY ONLY <3>1, <3>2, AccTo
    <3> QED
      BY <3>2, <3>3 DEF y
  <2>5. Standing(h, a, w, d + 1)
    BY <1>9, <1>10, <2>1, StandsLonger
  <2>6. Taken(k, w, d + 1)
    <3>1. IsSeq(f.acc) /\ Len(f.acc) = d /\ \A q \in 1 .. d : f.acc[q] = v[q]
      BY <1>7 DEF Taken
    <3> DEFINE y == Append(f.acc, tok)
    <3>2. /\ IsSeq(y) /\ Len(y) = d + 1 /\ y[d + 1] = tok
          /\ \A q \in 1 .. d : f.acc[q] = y[q]
      BY <3>1, AppendAgrees DEF Agree
    <3> HIDE DEF y
    <3>3. \A q \in 1 .. d + 1 : y[q] = w[q]
      <4>1. \A q \in 1 .. d + 1 : q \in 1 .. d \/ q = d + 1
        BY <2>1
      <4> QED
        BY <1>8, <2>1, <3>1, <3>2, <4>1
    <3> QED
      BY <2>4, <3>2, <3>3 DEF Taken, y
  <2> HIDE DEF h, k
  <2>7. ValueAt(r, k, h, a, w, d + 1)
    BY <1>1, <2>4, <2>5, <2>6 DEF ValueAt
  <2>8. ValueDue(r, k, h, a)
    BY <1>2, <1>11, <2>4, ValueStaysDue
  <2>9. ValueState(r, k, h)
    <3>1. k.part = "value" /\ k.field \in Constrained
      BY <1>1, <2>4
    <3> QED
      BY <2>7, <2>8, <3>1, Zenon DEF ValueState
  <2> QED
    BY <2>4, <2>9 DEF k, h
<1> QED
  BY <1>12, <1>13

\* The forced value is queued before the first of its tokens is written.
LEMMA InjectQueues ==
  ASSUME NEW r, OneLine(r), NEW f, DOMAIN f = FsmParts, Rules(f) = r, NEW g, IsSeq(g),
         ValueState(r, f, g), f.queue = <<>>, r.forced[f.field] # <<>>
  PROVE  LET k == Injected(f)
         IN  /\ DOMAIN k = FsmParts /\ Rules(k) = r /\ k.queue # <<>>
             /\ ValueState(r, k, g)
<1> DEFINE k == Injected(f)
           v == r.forced[f.field]
           y == Append(v, Newline)
<1>1. f.part = "value" /\ f.field \in Constrained
  BY DEF ValueState
<1>2. PICK a : ValueDue(r, f, g, a) /\ \E w, d : ValueAt(r, f, g, a, w, d)
  BY DEF ValueState
<1>3. PICK w, d : ValueAt(r, f, g, a, w, d)
  BY <1>2
<1>4. d = 0 /\ w \in Legal(r, f.field) /\ Standing(g, a, w, d)
  BY <1>3 DEF ValueAt
<1>5. w = v /\ IsSeq(v) /\ Len(v) \in Nat
  BY <1>1, <1>4, LegalIs
<1>6. f.forced = r.forced
  BY RulesOf
<1>7. k = [f EXCEPT !.queue = y]
  BY <1>1, <1>6 DEF Injected
<1>8. /\ IsSeq(y) /\ Len(y) = Len(v) + 1 /\ y[Len(v) + 1] = Newline
      /\ \A q \in 1 .. Len(v) : v[q] = y[q]
  BY <1>5, AppendAgrees DEF Agree
<1> HIDE DEF k, y
<1>9. /\ DOMAIN k = FsmParts /\ k.field = f.field /\ k.part = f.part
      /\ k.queue = y /\ SameFlags(f, k) /\ Rules(k) = r
  BY <1>7, QueueTo
<1>10. y # <<>>
  <2>1. Len(y) # 0
    BY <1>5, <1>8
  <2> QED
    BY <2>1, EmptyIsSeq
<1>11. Queued(k, v, 0)
  <2>1. (Len(v) + 1) - 0 = Len(v) + 1 /\ Len(v) - 0 = Len(v) /\ \A q \in 1 .. Len(v) : 0 + q = q
    BY <1>5
  <2> QED
    BY <1>8, <1>9, <2>1 DEF Queued
<1>12. k.queue # <<>>
  BY <1>9, <1>10
<1> HIDE DEF v
<1>13. ValueAt(r, k, g, a, v, 0)
  BY <1>4, <1>5, <1>9, <1>11, <1>12, Zenon DEF ValueAt
<1>14. ValueDue(r, k, g, a)
  <2>1. Longer(g, g)
    BY DEF Longer, Agree, IsSeq
  <2> QED
    BY <1>2, <1>9, <2>1, ValueStaysDue
<1>15. ValueState(r, k, g)
  <2>1. k.part = "value" /\ k.field \in Constrained
    BY <1>1, <1>9
  <2> QED
    BY <1>13, <1>14, <2>1, Zenon DEF ValueState
<1> QED
  BY <1>9, <1>12, <1>15 DEF k

-----------------------------------------------------------------------------
(* Names.                                                                    *)

\* A field has been named, and its value is next.
ValueNext(r, f, g) ==
    /\ f.part = "value" /\ f.queue = <<>> /\ f.acc = <<>>
    /\ \/ f.field \in Constrained \cup {"genres"} /\ ValueDue(r, f, g, Len(g) + 1)
       \/ f.field = "caption" /\ CaptionAt(r, g, Len(g) + 1) /\ Unmoved(f)

LEMMA NameIsDue ==
  ASSUME NEW r, NEW f, NEW k, NEW g, NEW h, Longer(g, h), NEW p, NameDue(r, f, g, p),
         k.field = f.field, SameFlags(f, k)
  PROVE  NameDue(r, k, h, p)
<1>1. CASE f.field = "bpm" /\ p = 1 /\ Unmoved(f)
  BY <1>1 DEF NameDue, Unmoved, SameFlags
<1>2. CASE f.field = "caption" /\ ~r.skip /\ Opened(r, g, p) /\ Unmoved(f)
  BY <1>2, OpenedLasts DEF NameDue, Unmoved, SameFlags
<1>3. CASE \E c \in 1 .. Len(Order(r)) : f.field = Order(r)[c] /\ Reached(r, g, c, p)
  BY <1>3, ReachedLasts, Zenon DEF NameDue
<1> QED
  BY <1>1, <1>2, <1>3 DEF NameDue

LEMMA NameWrites ==
  ASSUME NEW r, NEW f, DOMAIN f = FsmParts, Rules(f) = r, NEW g, IsSeq(g),
         NameState(r, f, g), f.field \in Constrained \cup {"caption", "genres"}
  PROVE  LET h == Append(g, NameTokens(f.field)[f.pos + 1])
             k == UpdateName(f)
         IN  /\ DOMAIN k = FsmParts /\ Rules(k) = r /\ k.queue = <<>>
             /\ NameState(r, k, h) \/ ValueNext(r, k, h)
<1> DEFINE tok == NameTokens(f.field)[f.pos + 1]
           h == Append(g, tok)
           k == UpdateName(f)
<1>1. PICK p : NameDue(r, f, g, p) /\ Naming(f, g, p)
  BY DEF NameState
<1>2. /\ f.part = "name" /\ f.queue = <<>> /\ p \in Nat \ {0} /\ f.pos \in {0, 1}
      /\ (p - 1) + f.pos = Len(g) /\ (f.pos = 1 => g[p] = <<f.field>>)
  BY <1>1 DEF Naming
<1>3. /\ DOMAIN k = FsmParts /\ k.field = f.field /\ k.queue = <<>>
      /\ SameFlags(f, k) /\ Rules(k) = r
      /\ f.pos = 0 => k.part = "name" /\ k.pos = 1
      /\ f.pos = 1 => k.part = "value" /\ k.acc = <<>>
  BY <1>2, NameTo
<1>4. /\ IsSeq(h) /\ Len(h) = Len(g) + 1 /\ Len(g) \in Nat /\ h[Len(g) + 1] = tok
      /\ Agree(g, h, Len(g))
  BY AppendAgrees
<1>5. Longer(g, h)
  BY <1>4 DEF Longer
<1>6. (f.pos = 0 => tok = <<f.field>>) /\ (f.pos = 1 => tok = Colon)
  BY <1>2 DEF NameTokens
<1> HIDE DEF k, h, tok
<1>7. CASE f.pos = 0
  <2>1. NameDue(r, k, h, p)
    BY <1>1, <1>3, <1>5, NameIsDue
  <2>2. Naming(k, h, p)
    <3>1. (p - 1) + 1 = Len(h) /\ Len(g) + 1 = p
      BY <1>2, <1>4, <1>7
    <3>2. h[p] = <<k.field>>
      BY <1>3, <1>4, <1>6, <1>7, <3>1
    <3> QED
      BY <1>2, <1>3, <1>7, <3>1, <3>2 DEF Naming
  <2>3. NameState(r, k, h)
    BY <2>1, <2>2 DEF NameState
  <2> QED
    BY <1>3, <2>3 DEF k, h, tok
<1>8. CASE f.pos = 1
  <2>1. /\ p + 1 = Len(h) /\ p = Len(g) /\ p \in 1 .. Len(g) /\ h[p + 1] = Colon
        /\ p + 2 = Len(h) + 1
    <3>1. p = Len(g) /\ p + 1 = Len(h) /\ p \in 1 .. Len(g) /\ p + 2 = Len(h) + 1
      BY <1>2, <1>4, <1>8
    <3> QED
      BY <1>4, <1>6, <1>8, <3>1
  <2>2. h[p] = <<f.field>>
    <3>1. h[p] = g[p]
      BY <1>4, <2>1 DEF Agree
    <3> QED
      BY <1>2, <1>8, <3>1
  <2>3. Named(h, p, f.field)
    <3>1. p + 1 <= Len(h)
      BY <1>2, <1>4, <2>1
    <3> QED
      BY <1>2, <2>1, <2>2, <3>1 DEF Named
  <2>4. ASSUME f.field = "bpm", p = 1, Unmoved(f) PROVE ValueDue(r, k, h, Len(h) + 1)
    <3>1. Len(h) + 1 = 3 /\ Unmoved(k) /\ k.field = "bpm" /\ Named(h, 1, "bpm")
      BY <1>3, <2>1, <2>3, <2>4 DEF Unmoved, SameFlags
    <3> QED
      BY <3>1 DEF ValueDue
  <2>5. ASSUME f.field = "caption", ~r.skip, Opened(r, g, p), Unmoved(f)
        PROVE  CaptionAt(r, h, Len(h) + 1) /\ Unmoved(k)
    <3>1. Opened(r, h, p) /\ Named(h, p, "caption") /\ Unmoved(k)
      BY <1>3, <1>5, <2>3, <2>5, OpenedLasts DEF Unmoved, SameFlags
    <3> QED
      BY <2>1, <2>5, <3>1 DEF CaptionAt
  <2>6. ASSUME NEW c \in 1 .. Len(Order(r)), f.field = Order(r)[c], Reached(r, g, c, p)
        PROVE  ValueDue(r, k, h, Len(h) + 1)
    <3>1. Reached(r, h, c, p) /\ Named(h, p, Order(r)[c]) /\ k.field = Order(r)[c]
      BY <1>3, <1>5, <2>3, <2>6, ReachedLasts
    <3>2. Begun(r, h, c, Len(h) + 1)
      BY <2>1, <3>1 DEF Begun
    <3> QED
      BY <3>1, <3>2 DEF ValueDue
  <2>7. f.field \in Constrained \cup {"genres"} \/ f.field = "caption"
    OBVIOUS
  <2>8. \A c \in 1 .. Len(Order(r)) : Order(r)[c] \in Constrained \cup {"genres"}
    BY OrderIs
  <2>9. \/ k.field \in Constrained \cup {"genres"} /\ ValueDue(r, k, h, Len(h) + 1)
        \/ k.field = "caption" /\ CaptionAt(r, h, Len(h) + 1) /\ Unmoved(k)
    <3>1. "bpm" \in Constrained
      BY DEF Constrained
    <3> QED
      BY <1>1, <1>3, <2>4, <2>5, <2>6, <2>8, <3>1 DEF NameDue
  <2>10. ValueNext(r, k, h)
    BY <1>3, <1>8, <2>9 DEF ValueNext
  <2> QED
    BY <1>3, <2>10 DEF k, h, tok
<1> QED
  BY <1>2, <1>7, <1>8

\* Nothing of the value has been written yet.
LEMMA ValueOpens ==
  ASSUME NEW r, OneLine(r), NEW f, NEW g, IsSeq(g), ValueNext(r, f, g),
         f.field \in Constrained
  PROVE  ValueState(r, f, g)
<1>1. PICK v : v \in Legal(r, f.field)
  <2>1. Values[f.field] # {}
    BY ValuesAssumption
  <2> QED
    BY <2>1 DEF Legal
<1>2. IsSeq(v) /\ Len(v) \in Nat
  BY <1>1, LegalIs
<1> DEFINE a == Len(g) + 1
<1>3. f.part = "value" /\ f.queue = <<>> /\ f.acc = <<>> /\ ValueDue(r, f, g, a)
  BY DEF ValueNext, Constrained
<1>4. Len(g) \in Nat
  BY DEF IsSeq
<1>5. Standing(g, a, v, 0)
  <2>1. a \in Nat \ {0} /\ 0 \in 0 .. Len(v) /\ (a - 1) + 0 = Len(g)
    BY <1>2, <1>4
  <2>2. 1 .. 0 = {}
    OBVIOUS
  <2> HIDE DEF a
  <2> QED
    BY <2>1, <2>2 DEF Standing
<1>6. Taken(f, v, 0)
  <2>1. 1 .. 0 = {}
    OBVIOUS
  <2> QED
    BY <1>3, <2>1, EmptyIsSeq DEF Taken
<1> HIDE DEF a
<1>7. ValueAt(r, f, g, a, v, 0)
  BY <1>1, <1>5, <1>6, Zenon DEF ValueAt
<1> QED
  BY <1>3, <1>7, Zenon DEF ValueState

-----------------------------------------------------------------------------
(* The caption.                                                              *)

\* A token of a caption: a line break or a colon is its last piece, and one
\* that begins with a blank breaks no line.
Describes(t) ==
    /\ IsSeq(t) /\ t # <<>>
    /\ \A q \in 1 .. Len(t) - 1 : t[q] # Break /\ t[q] # Stop
    /\ t[1] = Blank => t[Len(t)] # Break

\* Where the first colon of a line is.
StopPlaces(line) == {q \in 1 .. Len(line) : line[q] = Stop}

LEMMA BeforeIs ==
  ASSUME NEW line, IsSeq(line), NEW n \in 1 .. Len(line), line[n] = Stop,
         \A q \in 1 .. n - 1 : line[q] # Stop
  PROVE  BeforeColon(line) = SubSeq(line, 1, n - 1)
<1> DEFINE I == StopPlaces(line)
<1>1. BeforeColon(line) = SubSeq(line, 1, FirstOf(I) - 1)
  BY Zenon DEF BeforeColon, SelectInSeq, FirstOf, StopPlaces, Stop
<1>2. Len(line) \in Nat
  BY DEF IsSeq
<1>3. I \in SUBSET (1 .. Len(line)) /\ n \in I /\ \A q \in I : ~(q < n)
  BY <1>2 DEF StopPlaces
<1>4. FirstOf(I) \in I /\ \A y \in I : FirstOf(I) <= y
  <2> HIDE DEF I
  <2> QED
    BY <1>2, <1>3, FirstIs
<1> DEFINE k == FirstOf(I)
<1> HIDE DEF I
<1>5. k \in 1 .. Len(line) /\ k <= n /\ ~(k < n)
  BY <1>3, <1>4
<1> HIDE DEF k
<1>6. k = n
  BY <1>2, <1>5
<1> QED
  BY <1>1, <1>6 DEF k

\* A line that has a colon keeps the text before it.
LEMMA BeforeLasts ==
  ASSUME NEW line, IsSeq(line), Contains(line, Stop), NEW t, IsSeq(t)
  PROVE  BeforeColon(line \o t) = BeforeColon(line) /\ Contains(line \o t, Stop)
<1> DEFINE I == StopPlaces(line)
           n == FirstOf(I)
           y == line \o t
<1>1. Len(line) \in Nat /\ Len(t) \in Nat
  BY DEF IsSeq
<1>2. I \in SUBSET (1 .. Len(line)) /\ I # {}
  <2>1. \E i \in 1 .. Len(line) : line[i] = Stop
    BY Zenon DEF Contains
  <2> QED
    BY <2>1 DEF StopPlaces
<1>3. n \in I /\ \A q \in I : n <= q
  <2> HIDE DEF I
  <2> QED
    BY <1>1, <1>2, FirstIs
<1> HIDE DEF n
<1>4. n \in 1 .. Len(line) /\ line[n] = Stop /\ \A q \in 1 .. n - 1 : line[q] # Stop
  <2>1. n \in 1 .. Len(line) /\ line[n] = Stop
    BY <1>3 DEF StopPlaces
  <2>2. ASSUME NEW q \in 1 .. n - 1 PROVE line[q] # Stop
    <3>1. q \in 1 .. Len(line) /\ ~(n <= q)
      BY <1>1, <2>1
    <3> QED
      BY <3>1, <1>3 DEF StopPlaces
  <2> QED
    BY <2>1, <2>2
<1>5. IsSeq(y) /\ Len(y) = Len(line) + Len(t) /\ \A q \in 1 .. Len(line) : y[q] = line[q]
  BY ConcatIsSeq
<1> HIDE DEF y
<1>6. n \in 1 .. Len(y) /\ y[n] = Stop /\ \A q \in 1 .. n - 1 : y[q] # Stop
  <2>1. n \in 1 .. Len(y) /\ \A q \in 1 .. n - 1 : q \in 1 .. Len(line)
    BY <1>1, <1>4, <1>5
  <2> QED
    BY <2>1, <1>4, <1>5
<1>7. BeforeColon(line) = SubSeq(line, 1, n - 1) /\ BeforeColon(y) = SubSeq(y, 1, n - 1)
  BY <1>4, <1>5, <1>6, BeforeIs
<1>8. SubSeq(line, 1, n - 1) = SubSeq(y, 1, n - 1)
  <2> DEFINE u == SubSeq(line, 1, n - 1)
             v == SubSeq(y, 1, n - 1)
  <2>1. n - 1 \in Nat /\ n - 1 <= Len(line) /\ n - 1 <= Len(y)
    BY <1>1, <1>4, <1>6
  <2>2. IsSeq(u) /\ Len(u) = n - 1 /\ \A q \in 1 .. n - 1 : u[q] = line[q]
    BY <2>1, FrontPart
  <2>3. IsSeq(v) /\ Len(v) = n - 1 /\ \A q \in 1 .. n - 1 : v[q] = y[q]
    BY <1>5, <2>1, FrontPart
  <2>4. \A q \in 1 .. n - 1 : y[q] = line[q]
    BY <1>1, <1>4, <1>5
  <2> HIDE DEF u, v
  <2>5. Len(u) = Len(v) /\ \A q \in 1 .. Len(u) : u[q] = v[q]
    BY <2>2, <2>3, <2>4
  <2>6. u = v
    BY <2>2, <2>3, <2>5, IsSeqEqual
  <2> QED
    BY <2>6 DEF u, v
<1>9. Contains(y, Stop)
  BY <1>6, Zenon DEF Contains
<1> QED
  BY <1>7, <1>8, <1>9 DEF y

\* A line that names a field and then ends with the colon is the name of it.
LEMMA LineNames ==
  ASSUME NEW f, NEW line, IsSeq(line), NEW n, n = Len(line), n > 0, line[n] = Stop,
         \A q \in 1 .. n - 1 : line[q] # Stop,
         KnownField(f, NoTail(BeforeColon(line))) # "none",
         NEW A, IsSeq(A), NEW m, m = Len(A), m > 0, A[m] = Break
  PROVE  \E c \in 1 .. Len(Order(f)) :
            /\ KnownField(f, NoTail(BeforeColon(line))) = Order(f)[c]
            /\ NamedBy(Order(f)[c], A \o line)
<1> DEFINE u == BeforeColon(line)
           w == NoTail(u)
           x == A \o line
<1>1. n \in Nat /\ m \in Nat /\ n \in 1 .. n
  BY DEF IsSeq
<1>2. u = SubSeq(line, 1, n - 1)
  BY <1>1, BeforeIs
<1>3. IsSeq(u) /\ Len(u) = n - 1 /\ \A q \in 1 .. n - 1 : u[q] = line[q]
  <2>1. n - 1 \in Nat /\ n - 1 <= Len(line)
    BY <1>1
  <2> QED
    BY <1>2, <2>1, FrontPart
<1> DEFINE l == LastWord(u)
<1>4. /\ IsSeq(w) /\ Len(w) = l /\ \A q \in 1 .. l : w[q] = u[q]
  BY <1>3, NoTailOf
<1>5. /\ l \in 0 .. n - 1
      /\ \A q \in l + 1 .. n - 1 : u[q] = Blank
  <2>1. n - 1 \in Nat
    BY <1>1
  <2> QED
    BY <1>3, <2>1, LastWordIs
<1>6. PICK c \in 1 .. Len(Order(f)) : KnownField(f, w) = Order(f)[c] /\ w = <<Order(f)[c]>>
  BY KnownIs
<1> HIDE DEF u, l
<1>7. l = 1 /\ w[1] = Order(f)[c]
  BY <1>4, <1>6, SingleIsSeq
<1> HIDE DEF w
<1>8. /\ IsSeq(x) /\ Len(x) = m + n
      /\ \A q \in 1 .. m : x[q] = A[q]
      /\ \A q \in 1 .. n : x[m + q] = line[q]
  BY ConcatIsSeq
<1> HIDE DEF x
<1>9. x[m] = Break /\ x[m + 1] = Order(f)[c] /\ x[m + n] = Stop
  <2>1. m \in 1 .. m /\ 1 \in 1 .. n - 1 /\ 1 \in 1 .. n /\ 1 \in 1 .. l
    BY <1>1, <1>5, <1>7
  <2>2. line[1] = Order(f)[c]
    BY <2>1, <1>3, <1>4, <1>7
  <2> QED
    BY <1>1, <1>8, <2>1, <2>2
<1>10. ASSUME NEW q \in (m + 1) + 1 .. (m + n) - 1 PROVE x[q] = Blank
  <2> DEFINE k == q - m
  <2>1. k \in l + 1 .. n - 1 /\ k \in 1 .. n - 1 /\ k \in 1 .. n /\ m + k = q
    BY <1>1, <1>5, <1>7
  <2> HIDE DEF k
  <2>2. x[m + k] = line[k] /\ line[k] = u[k] /\ u[k] = Blank
    BY <1>3, <1>5, <1>8, <2>1
  <2> QED
    BY <2>1, <2>2
<1>11. m + 1 \in 2 .. (m + n) - 1 /\ (m + 1) - 1 = m
  BY <1>1, <1>5, <1>7
<1>12. NamedBy(Order(f)[c], x)
  <2> DEFINE i == m + 1
             e == m + n
  <2>1. i \in 2 .. e - 1 /\ i - 1 = m /\ x[i] = Order(f)[c] /\ x[i - 1] = Break /\ x[e] = Stop
        /\ Len(x) = e /\ \A q \in i + 1 .. e - 1 : x[q] = Blank
    BY <1>8, <1>9, <1>10, <1>11
  <2> HIDE DEF i, e
  <2> QED
    BY <2>1 DEF NamedBy
<1> QED
  BY <1>6, <1>12 DEF u, w, x

\* The line breaks up to n that a blank follows name no field.
Spaced(x, n) == \A q \in 1 .. n : x[q] = Break => q < Len(x) /\ x[q + 1] = Blank

LEMMA DescribesIs ==
  ASSUME NEW t, Describes(t)
  PROVE  /\ IsSeq(t) /\ Len(t) \in Nat /\ Len(t) > 0 /\ t # <<>> /\ Head(t) = t[1]
         /\ \A q \in 1 .. Len(t) - 1 : t[q] # Break /\ t[q] # Stop
         /\ t[1] = Blank => t[Len(t)] # Break
         /\ Contains(t, Break) <=> t[Len(t)] = Break
         /\ Contains(t, Stop) <=> t[Len(t)] = Stop
<1>1. /\ IsSeq(t) /\ t # <<>>
      /\ \A q \in 1 .. Len(t) - 1 : t[q] # Break /\ t[q] # Stop
      /\ t[1] = Blank => t[Len(t)] # Break
  BY DEF Describes
<1>2. Len(t) >= 1 /\ Len(t) \in Nat /\ Head(t) = t[1]
  BY <1>1, HeadIs
<1>3. /\ Contains(t, Break) <=> \E i \in 1 .. Len(t) : t[i] = Break
      /\ Contains(t, Stop) <=> \E i \in 1 .. Len(t) : t[i] = Stop
  BY Zenon DEF Contains
<1>4. \A i \in 1 .. Len(t) : i \in 1 .. Len(t) - 1 \/ i = Len(t)
  BY <1>2
<1>5. Len(t) \in 1 .. Len(t)
  BY <1>2
<1> QED
  BY <1>1, <1>2, <1>3, <1>4, <1>5

LEMMA SpacedGrows ==
  ASSUME NEW x, IsSeq(x), NEW t, Describes(t),
         Spaced(x, Len(x)) \/ (Spaced(x, Len(x) - 1) /\ t[1] = Blank)
  PROVE  /\ Spaced(x \o t, Len(x \o t) - 1)
         /\ t[Len(t)] # Break => Spaced(x \o t, Len(x \o t))
         /\ IsSeq(x \o t) /\ (x \o t)[Len(x \o t)] = t[Len(t)] /\ Len(x \o t) > 0
<1> DEFINE y == x \o t
           n == Len(x)
           m == Len(t)
<1>1. /\ IsSeq(t) /\ m \in Nat /\ m > 0 /\ \A q \in 1 .. m - 1 : t[q] # Break
      /\ t[1] = Blank => t[m] # Break
  BY DescribesIs
<1>2. /\ IsSeq(y) /\ Len(y) = n + m
      /\ \A q \in 1 .. n : y[q] = x[q]
      /\ \A q \in 1 .. m : y[n + q] = t[q]
  BY <1>1, ConcatIsSeq
<1>3. n \in Nat
  BY DEF IsSeq
<1>4. \/ \A q \in 1 .. n : x[q] = Break => q < n /\ x[q + 1] = Blank
      \/ t[1] = Blank /\ \A q \in 1 .. n - 1 : x[q] = Break => q < n /\ x[q + 1] = Blank
  BY DEF Spaced
<1> HIDE DEF y, n, m
<1>5. ASSUME NEW q \in 1 .. n, y[q] = Break PROVE q < Len(y) /\ y[q + 1] = Blank
  <2>1. x[q] = Break
    BY <1>2, <1>5
  <2>2. q < Len(y)
    BY <1>1, <1>2, <1>3
  <2>3. CASE q < n /\ x[q + 1] = Blank
    <3>1. q + 1 \in 1 .. n
      BY <1>3, <2>3
    <3> QED
      BY <1>2, <2>2, <2>3, <3>1
  <2>4. CASE q = n /\ t[1] = Blank
    <3>1. 1 \in 1 .. m
      BY <1>1
    <3> QED
      BY <1>2, <2>2, <2>4, <3>1
  <2>5. q \in 1 .. n - 1 \/ q = n
    BY <1>3
  <2> QED
    BY <1>4, <2>1, <2>3, <2>4, <2>5
<1>6. ASSUME NEW q \in 1 .. n + m, ~(q \in 1 .. n), q # n + m PROVE y[q] # Break
  <2> DEFINE k == q - n
  <2>1. k \in 1 .. m - 1 /\ k \in 1 .. m /\ n + k = q
    BY <1>1, <1>3, <1>6
  <2> HIDE DEF k
  <2> QED
    BY <1>1, <1>2, <2>1
<1>7. y[n + m] = t[m]
  <2>1. m \in 1 .. m
    BY <1>1
  <2> QED
    BY <1>2, <2>1
<1>8. Spaced(y, Len(y) - 1)
  <2>1. \A q \in 1 .. (n + m) - 1 : q \in 1 .. n + m /\ q # n + m
    BY <1>1, <1>3
  <2> QED
    BY <1>2, <1>5, <1>6, <2>1 DEF Spaced
<1>9. t[m] # Break => Spaced(y, Len(y))
  BY <1>2, <1>5, <1>6, <1>7 DEF Spaced
<1>10. y[Len(y)] = t[m] /\ Len(y) > 0
  BY <1>1, <1>2, <1>3, <1>7
<1> QED
  BY <1>2, <1>8, <1>9, <1>10 DEF y, n, m

LEMMA SpacedNamesNone ==
  ASSUME NEW x, IsSeq(x), Spaced(x, Len(x) - 1), NEW name, name # Blank
  PROVE  ~NamedBy(name, x)
<1> DEFINE n == Len(x)
<1> SUFFICES ASSUME NamedBy(name, x) PROVE FALSE
  OBVIOUS
<1>1. PICK m \in 2 .. n - 1 : x[m] = name /\ x[m - 1] = Break
  BY DEF NamedBy
<1>2. n \in Nat
  BY DEF IsSeq
<1>3. m - 1 \in 1 .. n - 1 /\ (m - 1) + 1 = m
  BY <1>1, <1>2
<1>4. x[(m - 1) + 1] = Blank
  BY <1>1, <1>3 DEF Spaced
<1> QED
  BY <1>1, <1>3, <1>4

LEMMA NoStopNamesNone ==
  ASSUME NEW x, x[Len(x)] # Stop, NEW name
  PROVE  ~NamedBy(name, x)
BY DEF NamedBy

\* How far a caption has come, by its text and the decoder.
Quiet(f, x) == Unmoved(f) /\ Spaced(x, Len(x))
AtBreak(f, x) ==
    /\ f.pendingNewline /\ ~f.ending
    /\ Len(x) > 0 /\ x[Len(x)] = Break /\ Spaced(x, Len(x) - 1)
OnLine(x, line) == \E A : IsSeq(A) /\ Len(A) > 0 /\ A[Len(A)] = Break /\ x = A \o line
Ending(f, x) ==
    /\ f.ending /\ ~f.pendingNewline
    /\ IsSeq(f.pending) /\ f.pending # <<>> /\ ~Contains(f.pending, Stop)
    /\ OnLine(x, f.pending)
Lost(r, f) ==
    /\ f.ending /\ ~f.pendingNewline
    /\ IsSeq(f.pending) /\ Contains(f.pending, Stop)
    /\ KnownField(r, NoTail(BeforeColon(f.pending))) = "none"

\* What a step of the decoder makes of a line behind the caption's last.
Captioned(r, k) == DOMAIN k = FsmParts /\ Rules(k) = r /\ k.queue = <<>> /\ k.part = "value"
EndsOrNames(r, k, x) ==
    \/ k.field = "caption" /\ Lost(r, k)
    \/ k.field = "caption" /\ Ending(k, x) /\ x[Len(x)] # Stop
    \/ k.acc = <<>> /\ \E c \in 1 .. Len(Order(r)) : k.field = Order(r)[c] /\ NamedBy(k.field, x)

LEMMA EndCaptionIs ==
  ASSUME NEW f, NEW line
  PROVE  LET c == KnownField(f, NoTail(BeforeColon(line)))
         IN  /\ ~Contains(line, Stop) \/ c = "none" => EndCaption(f, line) = Pended(f, line)
             /\ Contains(line, Stop) /\ c # "none" => EndCaption(f, line) = Found(f, c)
<1> DEFINE stops == Contains(line, Stop)
           c == KnownField(f, NoTail(BeforeColon(line)))
           field == IF stops THEN c ELSE "none"
<1>1. EndCaption(f, line) = IF field = "none" THEN Pended(f, line) ELSE Found(f, field)
  BY Zenon DEF EndCaption, Stop, Pended, Found
<1> HIDE DEF stops, c
<1>2. /\ ~stops \/ c = "none" => EndCaption(f, line) = Pended(f, line)
      /\ stops /\ c # "none" => EndCaption(f, line) = Found(f, c)
  BY <1>1
<1> QED
  BY <1>2 DEF stops, c

LEMMA EndWrites ==
  ASSUME NEW r, NEW f, Captioned(r, f), f.field = "caption",
         NEW line, IsSeq(line), line # <<>>, \A q \in 1 .. Len(line) - 1 : line[q] # Stop,
         NEW x, OnLine(x, line)
  PROVE  LET k == EndCaption(f, line)
         IN  Captioned(r, k) /\ EndsOrNames(r, k, x)
<1> DEFINE k == EndCaption(f, line)
           n == Len(line)
           c == KnownField(f, NoTail(BeforeColon(line)))
<1>1. DOMAIN f = FsmParts /\ Rules(f) = r /\ f.queue = <<>> /\ f.part = "value"
  BY DEF Captioned
<1>2. n \in Nat /\ n > 0
  <2>1. n \in Nat
    BY DEF IsSeq
  <2>2. n # 0
    BY NothingIsEmpty
  <2> QED
    BY <2>1, <2>2
<1>3. PICK A : IsSeq(A) /\ Len(A) > 0 /\ A[Len(A)] = Break /\ x = A \o line
  BY DEF OnLine
<1>4. Contains(line, Stop) <=> line[n] = Stop
  <2>1. Contains(line, Stop) <=> \E i \in 1 .. n : line[i] = Stop
    BY Zenon DEF Contains
  <2>2. n \in 1 .. n /\ \A i \in 1 .. n : i = n \/ i \in 1 .. n - 1
    BY <1>2
  <2> QED
    BY <2>1, <2>2
<1>5. x[Len(x)] = line[n]
  <2>1. Len(x) = Len(A) + n /\ \A q \in 1 .. n : x[Len(A) + q] = line[q]
    BY <1>3, ConcatIsSeq
  <2>2. n \in 1 .. n
    BY <1>2
  <2> QED
    BY <2>1, <2>2
<1>6. /\ ~Contains(line, Stop) \/ c = "none" => k = Pended(f, line)
      /\ Contains(line, Stop) /\ c # "none" => k = Found(f, c)
  BY EndCaptionIs
<1>7. c = KnownField(r, NoTail(BeforeColon(line))) /\ Order(r) = Order(f)
  BY <1>1, RulesOf
<1>8. CASE ~Contains(line, Stop) \/ c = "none"
  <2>1. k = Pended(f, line)
    BY <1>6, <1>8
  <2> HIDE DEF k, c
  <2>2. /\ DOMAIN k = FsmParts /\ k.field = f.field /\ k.part = f.part
        /\ k.queue = f.queue /\ Rules(k) = Rules(f)
        /\ ~k.pendingNewline /\ k.ending /\ k.pending = line
    BY <1>1, <2>1, PendingTo
  <2>3. Captioned(r, k)
    BY <1>1, <2>2 DEF Captioned
  <2>4. CASE Contains(line, Stop)
    <3>1. KnownField(r, NoTail(BeforeColon(k.pending))) = "none"
      BY <1>7, <1>8, <2>2, <2>4
    <3>2. Lost(r, k)
      BY <2>2, <2>4, <3>1, Zenon DEF Lost
    <3> QED
      BY <2>2, <2>3, <3>2 DEF EndsOrNames, k
  <2>5. CASE ~Contains(line, Stop)
    <3>1. Ending(k, x)
      BY <2>2, <2>5, Zenon DEF Ending
    <3>2. x[Len(x)] # Stop
      BY <1>4, <1>5, <2>5
    <3> QED
      BY <2>2, <2>3, <3>1, <3>2 DEF EndsOrNames, k
  <2> QED
    BY <2>4, <2>5
<1>9. CASE Contains(line, Stop) /\ c # "none"
  <2>1. k = Found(f, c)
    BY <1>6, <1>9
  <2>2. PICK d \in 1 .. Len(Order(f)) : c = Order(f)[d] /\ NamedBy(Order(f)[d], x)
    <3> DEFINE m == Len(A)
    <3>1. line[n] = Stop
      BY <1>4, <1>9
    <3>2. m > 0 /\ A[m] = Break /\ IsSeq(A) /\ x = A \o line
      BY <1>3
    <3>3. m = Len(A) /\ n = Len(line)
      OBVIOUS
    <3> HIDE DEF m, n, c
    <3>4. c = KnownField(f, NoTail(BeforeColon(line)))
      BY DEF c
    <3>5. KnownField(f, NoTail(BeforeColon(line))) # "none"
      BY <1>9, <3>4
    <3>6. \A q \in 1 .. n - 1 : line[q] # Stop
      BY <3>3
    <3> QED
      BY <1>2, <3>1, <3>2, <3>3, <3>4, <3>5, <3>6, LineNames
  <2> HIDE DEF k, c
  <2>3. /\ DOMAIN k = FsmParts /\ k.field = c /\ k.part = "value" /\ k.acc = <<>>
        /\ k.queue = f.queue /\ Rules(k) = Rules(f)
    BY <1>1, <2>1, FoundTo
  <2>4. Captioned(r, k)
    BY <1>1, <2>3 DEF Captioned
  <2>5. d \in 1 .. Len(Order(r)) /\ k.field = Order(r)[d] /\ NamedBy(k.field, x)
    BY <1>7, <2>2, <2>3
  <2> QED
    BY <2>3, <2>4, <2>5 DEF EndsOrNames, k
<1> QED
  BY <1>8, <1>9

LEMMA CaptionMoves ==
  ASSUME NEW f, NEW t, t # <<>>, Head(t) = t[1], NEW k, k = UpdateCaption(f, t)
  PROVE  /\ f.pendingNewline /\ t[1] = Blank => k = Marked(f, FALSE)
         /\ f.pendingNewline /\ t[1] # Blank => k = EndCaption(f, t)
         /\ ~f.pendingNewline /\ f.ending => k = EndCaption(f, f.pending \o t)
         /\ Unmoved(f) => k = Marked(f, Contains(t, Break))
<1> DEFINE p == f.pendingNewline
           e == f.ending
           b == t[1] = Blank
           w == Marked(f, FALSE)
           x == EndCaption(f, t)
           y == EndCaption(f, f.pending \o t)
           z == Marked(f, Contains(t, Break))
<1>1. k = CASE p /\ Head(t) = Blank -> w [] p /\ Head(t) # Blank -> x [] e /\ ~p -> y [] OTHER -> z
  BY Zenon DEF UpdateCaption, Blank, Break, Marked
<1>2. k = CASE p /\ b -> w [] p /\ ~b -> x [] e /\ ~p -> y [] OTHER -> z
  <2>1. Head(t) = t[1]
    OBVIOUS
  <2> HIDE DEF p, e, w, x, y, z
  <2> QED
    BY <1>1, <2>1
<1>3. Unmoved(f) <=> ~p /\ ~e
  BY DEF Unmoved
<1> HIDE DEF p, e, b, w, x, y, z
<1>4. /\ p /\ b => k = w
      /\ p /\ ~b => k = x
      /\ ~p /\ e => k = y
      /\ ~p /\ ~e => k = z
  BY <1>2
<1>5. Unmoved(f) => k = z
  BY <1>3, <1>4
<1> QED
  BY <1>4, <1>5 DEF p, e, b, w, x, y, z

\* A line that names no field is never looked at again.
LEMMA LostStep ==
  ASSUME NEW r, NEW f, Captioned(r, f), f.field = "caption", Lost(r, f),
         NEW t, Describes(t), NEW k, k = UpdateCaption(f, t)
  PROVE  Captioned(r, k) /\ k.field = "caption" /\ Lost(r, k)
<1> DEFINE p == f.pending
           line == p \o t
           c == KnownField(f, NoTail(BeforeColon(line)))
<1>1. DOMAIN f = FsmParts /\ Rules(f) = r /\ f.queue = <<>> /\ f.part = "value"
  BY DEF Captioned
<1>2. IsSeq(t) /\ t # <<>> /\ Head(t) = t[1]
  BY DescribesIs
<1>3. /\ f.ending /\ ~f.pendingNewline /\ IsSeq(p) /\ Contains(p, Stop)
      /\ KnownField(r, NoTail(BeforeColon(p))) = "none"
  BY DEF Lost
<1>4. k = EndCaption(f, line)
  BY <1>2, <1>3, CaptionMoves
<1>5. BeforeColon(line) = BeforeColon(p) /\ Contains(line, Stop) /\ IsSeq(line)
  BY <1>2, <1>3, BeforeLasts, ConcatIsSeq
<1>6. KnownField(r, NoTail(BeforeColon(line))) = "none"
  BY <1>3, <1>5
<1>7. c = "none"
  BY <1>1, <1>6, RulesOf
<1> HIDE DEF line, p
<1>8. k = Pended(f, line)
  BY <1>4, <1>7, EndCaptionIs
<1>9. /\ DOMAIN k = FsmParts /\ k.field = f.field /\ k.part = f.part
      /\ k.queue = f.queue /\ Rules(k) = Rules(f)
      /\ ~k.pendingNewline /\ k.ending /\ k.pending = line
  BY <1>1, <1>8, PendingTo
<1>10. Captioned(r, k)
  BY <1>1, <1>9 DEF Captioned
<1>11. Lost(r, k)
  BY <1>5, <1>6, <1>9, Zenon DEF Lost
<1> QED
  BY <1>9, <1>10, <1>11

LEMMA ConcatTurns ==
  ASSUME NEW x, NEW y, NEW z, IsSeq(x), IsSeq(y), IsSeq(z), NEW a, a = x \o y,
         NEW b, b = y \o z
  PROVE  a \o z = x \o b
<1> DEFINE u == a \o z
           v == x \o b
           i == Len(x)
           j == Len(y)
           k == Len(z)
<1>1. i \in Nat /\ j \in Nat /\ k \in Nat
  BY DEF IsSeq
<1>2. /\ IsSeq(a) /\ Len(a) = i + j
      /\ \A q \in 1 .. i : a[q] = x[q]
      /\ \A q \in 1 .. j : a[i + q] = y[q]
  BY ConcatIsSeq
<1>3. /\ IsSeq(b) /\ Len(b) = j + k
      /\ \A q \in 1 .. j : b[q] = y[q]
      /\ \A q \in 1 .. k : b[j + q] = z[q]
  BY ConcatIsSeq
<1>4. /\ IsSeq(a \o z) /\ Len(a \o z) = Len(a) + k
      /\ \A q \in 1 .. Len(a) : (a \o z)[q] = a[q]
      /\ \A q \in 1 .. k : (a \o z)[Len(a) + q] = z[q]
  BY <1>2, ConcatIsSeq
<1>5. /\ IsSeq(x \o b) /\ Len(x \o b) = i + Len(b)
      /\ \A q \in 1 .. i : (x \o b)[q] = x[q]
      /\ \A q \in 1 .. Len(b) : (x \o b)[i + q] = b[q]
  BY <1>3, ConcatIsSeq
<1>6. u = a \o z /\ v = x \o b
  OBVIOUS
<1> HIDE DEF u, v, i, j, k
<1>7. ASSUME NEW q \in 1 .. i + j + k PROVE u[q] = v[q]
  <2>1. CASE q \in 1 .. i
    <3>1. q \in 1 .. Len(a)
      BY <1>1, <1>2, <2>1
    <3> QED
      BY <1>2, <1>4, <1>5, <1>6, <2>1, <3>1
  <2>2. CASE q \in i + 1 .. i + j
    <3> DEFINE m == q - i
    <3>1. m \in 1 .. j /\ i + m = q /\ q \in 1 .. Len(a) /\ m \in 1 .. Len(b)
      BY <1>1, <1>2, <1>3, <2>2
    <3> HIDE DEF m
    <3>2. u[q] = a[q] /\ a[i + m] = y[m] /\ v[i + m] = b[m] /\ b[m] = y[m]
      BY <1>2, <1>3, <1>4, <1>5, <1>6, <3>1
    <3> QED
      BY <3>1, <3>2
  <2>3. CASE ~(q \in 1 .. i) /\ ~(q \in i + 1 .. i + j)
    <3> DEFINE m == (q - i) - j
               o == j + m
    <3>1. /\ m \in 1 .. k /\ Len(a) + m = q /\ o \in 1 .. Len(b) /\ i + o = q
      BY <1>1, <1>2, <1>3, <2>3
    <3>2. j + m = o
      OBVIOUS
    <3> HIDE DEF m, o
    <3>3. u[Len(a) + m] = z[m] /\ v[i + o] = b[o] /\ b[j + m] = z[m]
      BY <1>3, <1>4, <1>5, <1>6, <3>1
    <3> QED
      BY <3>1, <3>2, <3>3
  <2> QED
    BY <2>1, <2>2, <2>3
<1>8. IsSeq(u) /\ IsSeq(v) /\ Len(u) = i + j + k /\ Len(v) = i + j + k
  BY <1>1, <1>2, <1>3, <1>4, <1>5, <1>6
<1>9. u = v
  BY <1>7, <1>8, IsSeqEqual
<1> QED
  BY <1>9 DEF u, v

\* A token of the caption, by the text.
Telling(f, x) ==
    /\ f.field = "caption"
    /\ Quiet(f, x) \/ AtBreak(f, x) \/ Ending(f, x)
NamesNone(x) == \A name : name # Blank => ~NamedBy(name, x)
Told(r, k, x) ==
    \/ k.field = "caption" /\ Lost(r, k)
    \/ Telling(k, x) /\ NamesNone(x)
    \/ k.acc = <<>> /\ \E c \in 1 .. Len(Order(r)) : k.field = Order(r)[c] /\ NamedBy(k.field, x)

LEMMA ToldOf ==
  ASSUME NEW r, NEW k, NEW x, EndsOrNames(r, k, x)
  PROVE  Told(r, k, x)
<1>1. x[Len(x)] # Stop => NamesNone(x)
  BY NoStopNamesNone, Zenon DEF NamesNone
<1> QED
  BY <1>1, Zenon DEF Told, Telling, EndsOrNames

LEMMA CaptionStep ==
  ASSUME NEW r, NEW f, Captioned(r, f), NEW x, IsSeq(x), Telling(f, x),
         NEW t, Describes(t), NEW k, k = UpdateCaption(f, t)
  PROVE  Captioned(r, k) /\ Told(r, k, x \o t)
<1> DEFINE y == x \o t
           marked == Contains(t, Break)
<1>1. DOMAIN f = FsmParts /\ Rules(f) = r /\ f.queue = <<>> /\ f.part = "value"
  BY DEF Captioned
<1>2. /\ IsSeq(t) /\ Len(t) \in Nat /\ Len(t) > 0 /\ t # <<>> /\ Head(t) = t[1]
      /\ \A q \in 1 .. Len(t) - 1 : t[q] # Break /\ t[q] # Stop
      /\ t[1] = Blank => t[Len(t)] # Break
      /\ marked <=> t[Len(t)] = Break
      /\ Contains(t, Stop) <=> t[Len(t)] = Stop
  BY DescribesIs
<1>3. /\ f.pendingNewline /\ t[1] = Blank => k = Marked(f, FALSE)
      /\ f.pendingNewline /\ t[1] # Blank => k = EndCaption(f, t)
      /\ ~f.pendingNewline /\ f.ending => k = EndCaption(f, f.pending \o t)
      /\ Unmoved(f) => k = Marked(f, marked)
  BY <1>2, CaptionMoves
<1>4. f.field = "caption"
  BY DEF Telling
<1>5. ASSUME NEW b, k = Marked(f, b)
      PROVE  /\ Captioned(r, k) /\ k.field = "caption"
             /\ k.pendingNewline = b /\ k.ending = f.ending
  <2>1. /\ DOMAIN k = FsmParts /\ k.field = f.field /\ k.part = f.part
        /\ k.queue = f.queue /\ Rules(k) = Rules(f)
        /\ k.pendingNewline = b /\ k.ending = f.ending /\ k.pending = f.pending
    BY <1>1, <1>5, NewlineTo
  <2> QED
    BY <1>1, <1>4, <2>1 DEF Captioned
<1> HIDE DEF y, marked
<1>6. CASE Quiet(f, x)
  <2>1. Unmoved(f) /\ Spaced(x, Len(x))
    BY <1>6 DEF Quiet
  <2>2. /\ Spaced(y, Len(y) - 1) /\ (t[Len(t)] # Break => Spaced(y, Len(y)))
        /\ IsSeq(y) /\ y[Len(y)] = t[Len(t)] /\ Len(y) > 0
    BY <2>1, SpacedGrows DEF y
  <2>3. Captioned(r, k) /\ k.field = "caption" /\ k.pendingNewline = marked /\ k.ending = f.ending
    BY <1>3, <1>5, <2>1
  <2>4. ~f.ending
    BY <2>1 DEF Unmoved
  <2>5. Quiet(k, y) \/ AtBreak(k, y)
    <3>1. CASE marked
      <4>1. AtBreak(k, y)
        BY <1>2, <2>2, <2>3, <2>4, <3>1 DEF AtBreak
      <4> QED
        BY <4>1
    <3>2. CASE ~marked
      <4>1. Quiet(k, y)
        BY <1>2, <2>2, <2>3, <2>4, <3>2 DEF Quiet, Unmoved
      <4> QED
        BY <4>1
    <3> QED
      BY <3>1, <3>2
  <2>6. NamesNone(y)
    BY <2>2, SpacedNamesNone DEF NamesNone
  <2> QED
    BY <2>3, <2>5, <2>6, Zenon DEF Told, Telling, y
<1>7. CASE AtBreak(f, x) /\ t[1] = Blank
  <2>1. f.pendingNewline /\ ~f.ending /\ Spaced(x, Len(x) - 1)
    BY <1>7 DEF AtBreak
  <2>2. /\ Spaced(y, Len(y) - 1) /\ (t[Len(t)] # Break => Spaced(y, Len(y)))
        /\ IsSeq(y)
    BY <1>7, <2>1, SpacedGrows DEF y
  <2>3. Captioned(r, k) /\ k.field = "caption" /\ k.pendingNewline = FALSE /\ k.ending = f.ending
    BY <1>3, <1>5, <1>7, <2>1
  <2>4. Quiet(k, y)
    BY <1>2, <1>7, <2>1, <2>2, <2>3 DEF Quiet, Unmoved
  <2>5. NamesNone(y)
    BY <2>2, SpacedNamesNone DEF NamesNone
  <2> QED
    BY <2>3, <2>4, <2>5, Zenon DEF Told, Telling, y
<1>8. CASE AtBreak(f, x) /\ t[1] # Blank
  <2>1. k = EndCaption(f, t)
    BY <1>3, <1>8 DEF AtBreak
  <2>2. OnLine(y, t)
    BY <1>8 DEF AtBreak, OnLine, y
  <2>3. Captioned(r, k) /\ EndsOrNames(r, k, y)
    BY <1>2, <1>4, <2>1, <2>2, EndWrites
  <2> QED
    BY <2>3, ToldOf DEF y
<1>9. CASE Ending(f, x)
  <2> DEFINE p == f.pending
             line == p \o t
  <2>1. /\ f.ending /\ ~f.pendingNewline /\ IsSeq(p) /\ p # <<>> /\ ~Contains(p, Stop)
        /\ OnLine(x, p)
    BY <1>9 DEF Ending
  <2>2. k = EndCaption(f, line)
    BY <1>3, <2>1
  <2>3. /\ IsSeq(line) /\ Len(line) = Len(p) + Len(t)
        /\ \A q \in 1 .. Len(p) : line[q] = p[q]
        /\ \A q \in 1 .. Len(t) : line[Len(p) + q] = t[q]
    BY <1>2, <2>1, ConcatIsSeq
  <2>4. \A q \in 1 .. Len(p) : p[q] # Stop
    BY <2>1, Zenon DEF Contains
  <2>5. Len(p) \in Nat
    BY <2>1 DEF IsSeq
  <2> HIDE DEF line, p
  <2>6. ASSUME NEW q \in 1 .. Len(line) - 1 PROVE line[q] # Stop
    <3>1. CASE q \in 1 .. Len(p)
      BY <3>1, <2>3, <2>4
    <3>2. CASE ~(q \in 1 .. Len(p))
      <4> DEFINE i == q - Len(p)
      <4>1. i \in 1 .. Len(t) - 1 /\ i \in 1 .. Len(t) /\ Len(p) + i = q
        BY <1>2, <2>3, <2>5, <3>2
      <4> HIDE DEF i
      <4> QED
        BY <1>2, <2>3, <4>1
    <3> QED
      BY <3>1, <3>2
  <2>7. OnLine(y, line)
    <3>1. PICK A : IsSeq(A) /\ Len(A) > 0 /\ A[Len(A)] = Break /\ x = A \o p
      BY <2>1 DEF OnLine
    <3>2. IsSeq(p) /\ IsSeq(t) /\ IsSeq(A)
      BY <1>2, <2>1, <3>1
    <3>3. y = A \o line
      <4>1. line = p \o t /\ y = x \o t
        BY DEF line, y
      <4> QED
        BY <3>1, <3>2, <4>1, ConcatTurns
    <3> QED
      BY <3>1, <3>3, Zenon DEF OnLine
  <2>8. line # <<>>
    <3>1. Len(line) # 0
      BY <1>2, <2>3, <2>5
    <3> QED
      BY <3>1, EmptyIsSeq
  <2>9. Captioned(r, k) /\ EndsOrNames(r, k, y)
    BY <1>4, <2>2, <2>3, <2>6, <2>7, <2>8, EndWrites
  <2> QED
    BY <2>9, ToldOf DEF y
<1> QED
  BY <1>6, <1>7, <1>8, <1>9 DEF Telling

LEMMA OrderNotBlank ==
  ASSUME NEW r, NEW c \in DOMAIN Order(r)
  PROVE  Order(r)[c] # Blank
<1>1. Order(r)[c] \in (Constrained \ {"bpm"}) \cup {"genres"}
  BY OrderIs
<1>2. \A e \in Constrained \cup {"genres"} : e # Blank
  BY Zenon DEF Constrained, Blank
<1> QED
  BY <1>1, <1>2

\* What a caption's text is, and how far the decoder has come with it.
CaptionText(g, j) == FlattenSeq(SubSeq(g, j, Len(g)))
CaptionState(r, f, g) ==
    /\ f.part = "value" /\ f.queue = <<>> /\ f.field = "caption"
    /\ \E j :
        /\ CaptionAt(r, g, j)
        /\ \/ Lost(r, f)
           \/ /\ Unnamed(r, g, j, Len(g) + 1)
              /\ IsSeq(CaptionText(g, j)) /\ Telling(f, CaptionText(g, j))

LEMMA NamesNoneEnds ==
  ASSUME NEW r, NEW x, IsSeq(x), NamesNone(x)
  PROVE  NamedAtEnd(Order(r), x) = {}
<1>1. \A k : k \in NamedAtEnd(Order(r), x) => k \in DOMAIN Order(r)
  BY Zenon DEF NamedAtEnd
<1>2. ASSUME NEW k \in DOMAIN Order(r) PROVE k \notin NamedAtEnd(Order(r), x)
  <2>1. Order(r)[k] # Blank
    BY OrderNotBlank
  <2>2. ~NamedBy(Order(r)[k], x)
    BY <2>1, Zenon DEF NamesNone
  <2> QED
    BY <2>1, <2>2, NamedIs, Zenon
<1> QED
  BY <1>1, <1>2, Zenon

LEMMA CaptionWrites ==
  ASSUME NEW r, NEW f, DOMAIN f = FsmParts, Rules(f) = r, NEW g, IsSeq(g),
         CaptionState(r, f, g), NEW t, Describes(t)
  PROVE  LET k == UpdateCaption(f, t)
             h == Append(g, t)
         IN  /\ DOMAIN k = FsmParts /\ Rules(k) = r /\ k.queue = <<>>
             /\ CaptionState(r, k, h) \/ ValueNext(r, k, h)
<1> SUFFICES ASSUME NEW k, k = UpdateCaption(f, t), NEW h, h = Append(g, t)
            PROVE  /\ DOMAIN k = FsmParts /\ Rules(k) = r /\ k.queue = <<>>
                   /\ CaptionState(r, k, h) \/ ValueNext(r, k, h)
  BY Zenon
<1>1. Captioned(r, f) /\ f.field = "caption"
  BY DEF CaptionState, Captioned
<1>2. PICK j : /\ CaptionAt(r, g, j)
               /\ \/ Lost(r, f)
                  \/ /\ Unnamed(r, g, j, Len(g) + 1)
                     /\ IsSeq(CaptionText(g, j)) /\ Telling(f, CaptionText(g, j))
  BY Zenon DEF CaptionState
<1>3. j \in Nat \ {0} /\ j - 1 <= Len(g) /\ Len(g) \in Nat
  BY <1>2, CaptionPlace
<1>4. Longer(g, h) /\ Len(h) = Len(g) + 1
  <2>1. IsSeq(h) /\ Len(h) = Len(g) + 1 /\ Agree(g, h, Len(g))
    BY AppendAgrees
  <2> QED
    BY <2>1 DEF Longer
<1>5. CaptionAt(r, h, j)
  BY <1>2, <1>4, CaptionAtLasts
<1>6. CASE Lost(r, f)
  <2>1. Captioned(r, k) /\ k.field = "caption" /\ Lost(r, k)
    BY <1>1, <1>6, LostStep
  <2>2. CaptionState(r, k, h)
    BY <1>5, <2>1, Zenon DEF CaptionState, Captioned
  <2> QED
    BY <2>1, <2>2 DEF Captioned
<1>7. CASE /\ Unnamed(r, g, j, Len(g) + 1)
           /\ IsSeq(CaptionText(g, j)) /\ Telling(f, CaptionText(g, j))
  <2> DEFINE x == CaptionText(g, j)
             y == x \o t
  <2>1. IsSeq(t)
    BY DescribesIs
  <2>2. CaptionText(h, j) = y
    <3>1. SubSeq(h, j, Len(h)) = Append(SubSeq(g, j, Len(g)), t)
      <4>1. SubSeq(Append(g, t), j, Len(g) + 1) = Append(SubSeq(g, j, Len(g)), t)
        BY <1>3, PartGrows
      <4> QED
        BY <1>4, <4>1, Zenon
    <3>2. IsSeq(SubSeq(g, j, Len(g)))
      <4> DEFINE n == Len(g)
      <4>1. n = Len(g)
        OBVIOUS
      <4> HIDE DEF n
      <4>2. n \in Nat /\ j - 1 <= n /\ n <= n /\ n <= Len(g)
        BY <1>3, <4>1
      <4>3. IsSeq(SubSeq(g, j, n))
        BY <1>3, <4>2, PartIsSeq
      <4> QED
        BY <4>1, <4>3
    <3> DEFINE s == SubSeq(g, j, Len(g))
    <3> HIDE DEF s
    <3>3. FlattenSeq(Append(s, t)) = FlattenSeq(s) \o t
      <4>1. IsSeq(s)
        BY <3>2 DEF s
      <4> QED
        BY <2>1, <4>1, TextGrows
    <3> QED
      BY <3>1, <3>3, Zenon DEF CaptionText, s
  <2>3. IsSeq(x) /\ Telling(f, x)
    BY <1>7
  <2> HIDE DEF x
  <2>4. Captioned(r, k) /\ Told(r, k, y) /\ IsSeq(y)
    BY <1>1, <2>1, <2>3, CaptionStep, ConcatIsSeq
  <2> HIDE DEF y
  <2>5. \A i \in j + 1 .. Len(g) + 1 : EndingAt(r, h, j, i) = {}
    <3>1. ASSUME NEW i \in j + 1 .. Len(g) + 1 PROVE EndingAt(r, h, j, i) = {}
      <4>1. i \in j .. Len(g) + 1
        BY <1>3
      <4>2. EndingAt(r, g, j, i) = EndingAt(r, h, j, i)
        BY <1>3, <1>4, <4>1, EndingLasts
      <4> QED
        BY <1>7, <4>2 DEF Unnamed
    <3> QED
      BY <3>1
  <2>6. EndingAt(r, h, j, Len(h) + 1) = NamedAtEnd(Order(r), y)
    <3>1. (Len(h) + 1) - 1 = Len(h)
      BY <1>3, <1>4
    <3> QED
      BY <2>2, <3>1 DEF EndingAt, CaptionText
  <2>7. CASE k.field = "caption" /\ Lost(r, k)
    <3>1. CaptionState(r, k, h)
      BY <1>5, <2>4, <2>7, Zenon DEF CaptionState, Captioned
    <3> QED
      BY <2>4, <3>1 DEF Captioned
  <2>8. CASE Telling(k, y) /\ NamesNone(y)
    <3>1. EndingAt(r, h, j, Len(h) + 1) = {}
      BY <2>4, <2>6, <2>8, NamesNoneEnds
    <3>2. Unnamed(r, h, j, Len(h) + 1)
      <4>1. \A i \in j + 1 .. Len(h) + 1 : i \in j + 1 .. Len(g) + 1 \/ i = Len(h) + 1
        BY <1>3, <1>4
      <4> QED
        BY <2>5, <3>1, <4>1 DEF Unnamed
    <3>3. k.field = "caption"
      BY <2>8 DEF Telling
    <3>4. CaptionState(r, k, h)
      BY <1>5, <2>2, <2>4, <2>8, <3>2, <3>3, Zenon DEF CaptionState, Captioned
    <3> QED
      BY <2>4, <3>4 DEF Captioned
  <2>9. CASE k.acc = <<>> /\ \E c \in 1 .. Len(Order(r)) : k.field = Order(r)[c] /\ NamedBy(k.field, y)
    <3>1. PICK c \in 1 .. Len(Order(r)) : k.field = Order(r)[c] /\ NamedBy(k.field, y)
      BY <2>9
    <3>2. c \in EndingAt(r, h, j, Len(h) + 1)
      <4>1. c \in DOMAIN Order(r) /\ Order(r)[c] # Blank
        <5>1. c \in DOMAIN Order(r)
          BY OrderIs
        <5> QED
          BY <5>1, OrderNotBlank
      <4>2. NamedBy(Order(r)[c], y)
        BY <3>1
      <4> QED
        BY <2>4, <2>6, <4>1, <4>2, NamedIs
    <3>3. j + 1 <= Len(h) + 1
      <4>1. j # Len(h) + 1
        BY <1>3, <1>4
      <4> QED
        BY <1>3, <1>4, <4>1
    <3>4. Unnamed(r, h, j, (Len(h) + 1) - 1)
      <4>1. (Len(h) + 1) - 1 = Len(g) + 1
        BY <1>3, <1>4
      <4> QED
        BY <2>5, <4>1 DEF Unnamed
    <3>5. Len(h) + 1 \in j + 1 .. Len(h) + 1
      BY <1>3, <1>4, <3>3
    <3>6. CaptionEnded(r, h, c, Len(h) + 1)
      BY <1>5, <3>2, <3>4, <3>5, Zenon DEF CaptionEnded
    <3>7. Begun(r, h, c, Len(h) + 1)
      <4>1. ~r.skip
        BY <1>2 DEF CaptionAt
      <4> QED
        BY <3>6, <4>1 DEF Begun
    <3>8. ValueDue(r, k, h, Len(h) + 1)
      BY <3>1, <3>7, Zenon DEF ValueDue
    <3>9. k.field \in Constrained \cup {"genres"}
      <4>1. Order(r)[c] \in (Constrained \ {"bpm"}) \cup {"genres"}
        BY OrderIs
      <4> QED
        BY <3>1, <4>1
    <3>10. ValueNext(r, k, h)
      BY <2>4, <2>9, <3>8, <3>9 DEF ValueNext, Captioned
    <3> QED
      BY <2>4, <3>10 DEF Captioned
  <2> QED
    BY <2>4, <2>7, <2>8, <2>9 DEF Told
<1> QED
  BY <1>2, <1>6, <1>7

\* The caption begins.
LEMMA CaptionOpens ==
  ASSUME NEW r, NEW f, NEW g, IsSeq(g), ValueNext(r, f, g), f.field = "caption"
  PROVE  CaptionState(r, f, g)
<1> DEFINE j == Len(g) + 1
           x == CaptionText(g, j)
<1>1. CaptionAt(r, g, j) /\ Unmoved(f) /\ f.part = "value" /\ f.queue = <<>>
  <2>1. "caption" \notin Constrained \cup {"genres"}
    BY DEF Constrained
  <2> QED
    BY <2>1 DEF ValueNext
<1>2. Len(g) \in Nat
  BY DEF IsSeq
<1>3. x = <<>>
  <2> DEFINE s == SubSeq(g, j, Len(g))
  <2>1. IsSeq(s) /\ Len(s) = Len(g) - j + 1
    <3>1. j \in Nat \ {0} /\ j - 1 <= Len(g)
      BY <1>2
    <3> QED
      BY <1>2, <3>1, PartIsSeq
  <2>2. Len(s) = 0
    BY <1>2, <2>1
  <2> HIDE DEF s, j
  <2>3. s = <<>>
    BY <2>1, <2>2, NothingIsEmpty
  <2>4. FlattenSeq(s) = <<>>
    BY <2>2, <2>3 DEF FlattenSeq
  <2> QED
    BY <2>4 DEF CaptionText, s
<1>4. Unnamed(r, g, j, Len(g) + 1)
  <2>1. j + 1 .. Len(g) + 1 = {}
    BY <1>2
  <2> QED
    BY <2>1 DEF Unnamed
<1>5. IsSeq(x) /\ Quiet(f, x)
  <2>1. 1 .. Len(<<>>) = {}
    BY EmptyIsSeq
  <2> HIDE DEF x
  <2> QED
    BY <1>1, <1>3, <2>1, EmptyIsSeq DEF Quiet, Spaced
<1>6. Telling(f, x)
  BY <1>5 DEF Telling
<1> HIDE DEF j
<1> QED
  BY <1>1, <1>4, <1>5, <1>6, Zenon DEF CaptionState, j

-----------------------------------------------------------------------------
(* Genres.                                                                   *)

LEMMA NoTailWhole ==
  ASSUME NEW t, IsSeq(t), t # <<>>, t[Len(t)] # Blank
  PROVE  NoTail(t) = t /\ Len(t) \in Nat /\ Len(t) > 0
<1> DEFINE n == Len(t)
<1>1. n \in Nat /\ n > 0
  <2>1. n \in Nat
    BY DEF IsSeq
  <2>2. n # 0
    BY NothingIsEmpty
  <2> QED
    BY <2>1, <2>2
<1>2. LastWord(t) = n
  <2>1. n \in 1 .. n /\ t[n] # Blank
    BY <1>1
  <2>2. \A q \in n + 1 .. n : t[q] = Blank
    BY <1>1
  <2>3. n = Len(t)
    OBVIOUS
  <2> HIDE DEF n
  <2> QED
    BY <1>1, <2>1, <2>2, <2>3, LastWordAt
<1>3. NoTail(t) = SubSeq(t, 1, n)
  BY <1>2, NoTailIs
<1> QED
  BY <1>1, <1>3, WholePart

\* Trimmed takes off the m blanks in front of a text that does not end in one.
OpensAt(x, m) == x[m + 1] # Blank /\ \A q \in 1 .. m : x[q] = Blank
TrimmedBy(x, n, m) ==
  /\ IsSeq(Trimmed(x)) /\ Len(Trimmed(x)) = n - m
  /\ \A i \in 1 .. n - m : Trimmed(x)[i] = x[m + i]

LEMMA TrimmedIs ==
  ASSUME NEW x, IsSeq(x), NEW n, n = Len(x), n > 0, x[n] # Blank,
         NEW m \in 0 .. n - 1, OpensAt(x, m)
  PROVE  TrimmedBy(x, n, m)
<1> USE DEF OpensAt
<1> DEFINE y == Reverse(x)
           z == NoTail(y)
           l == n - m
<1>1. n \in Nat /\ x # <<>>
  <2>1. n \in Nat
    BY DEF IsSeq
  <2> QED
    BY <2>1, EmptyIsSeq
<1>2. NoTail(x) = x
  BY <1>1, NoTailWhole
<1>3. Trimmed(x) = Reverse(z)
  BY <1>2 DEF Trimmed
<1>4. IsSeq(y) /\ Len(y) = n /\ \A i \in 1 .. n : y[i] = x[n - i + 1]
  BY ReverseIs
<1>5. l \in 1 .. n /\ l \in Nat
  BY <1>1
<1> HIDE DEF y
<1>6. LastWord(y) = l
  <2>1. y[l] # Blank
    <3>1. y[l] = x[n - l + 1] /\ n - l + 1 = m + 1
      BY <1>1, <1>4, <1>5
    <3> QED
      BY <3>1
  <2>2. ASSUME NEW q \in l + 1 .. n PROVE y[q] = Blank
    <3>1. q \in 1 .. n /\ n - q + 1 \in 1 .. m
      BY <1>1, <1>5
    <3> QED
      BY <1>4, <3>1
  <2> HIDE DEF l
  <2> QED
    BY <1>1, <1>4, <1>5, <2>1, <2>2, LastWordAt
<1>7. IsSeq(z) /\ Len(z) = l /\ \A q \in 1 .. l : z[q] = y[q]
  BY <1>4, <1>6, NoTailOf
<1> HIDE DEF z, l
<1>8. IsSeq(Reverse(z)) /\ Len(Reverse(z)) = l /\ \A i \in 1 .. l : Reverse(z)[i] = z[l - i + 1]
  <2>1. l = Len(z)
    BY <1>7
  <2> QED
    BY <1>7, <2>1, ReverseIs
<1> USE DEF l
<1>9. ASSUME NEW i \in 1 .. l PROVE Reverse(z)[i] = x[m + i]
  <2> DEFINE q == l - i + 1
  <2>1. q \in 1 .. l /\ q \in 1 .. n /\ n - q + 1 = m + i
    BY <1>1, <1>5
  <2>2. Reverse(z)[i] = z[q]
    BY <1>8
  <2> HIDE DEF q
  <2> QED
    BY <1>4, <1>7, <2>1, <2>2
<1> QED
  BY <1>3, <1>8, <1>9 DEF TrimmedBy

LEMMA TrimmedNothing == Trimmed(<<>>) = <<>>
<1>1. ASSUME NEW x, x = <<>> PROVE NoTail(x) = <<>>
  <2>1. IsSeq(x) /\ Len(x) = 0
    BY <1>1, EmptyIsSeq
  <2>2. IsSeq(NoTail(x)) /\ Len(NoTail(x)) = LastWord(x) /\ LastWord(x) \in 0 .. 0
    BY <2>1, NoTailOf
  <2>3. Len(NoTail(x)) = 0
    BY <2>2
  <2> QED
    BY <2>2, <2>3, NothingIsEmpty
<1>2. ASSUME NEW x, x = <<>> PROVE Reverse(x) = <<>>
  <2>1. IsSeq(x) /\ Len(x) = 0
    BY <1>2, EmptyIsSeq
  <2>2. IsSeq(Reverse(x)) /\ Len(Reverse(x)) = 0
    BY <2>1, ReverseIs
  <2> QED
    BY <2>2, NothingIsEmpty
<1> QED
  BY <1>1, <1>2 DEF Trimmed

\* How many blanks a text begins with.
LEMMA BlanksInFront ==
  ASSUME NEW x, NEW n \in Nat, n > 0, x[n] # Blank
  PROVE  \E m \in 0 .. n - 1 : x[m + 1] # Blank /\ \A q \in 1 .. m : x[q] = Blank
<1> DEFINE T == {q \in 1 .. n : x[q] # Blank}
<1>1. T \in SUBSET Nat /\ n \in T
  OBVIOUS
<1>2. PICK k \in T : \A y \in T : k <= y
  <2> HIDE DEF T
  <2> QED
    BY <1>1, SmallestOf
<1>3. k - 1 \in 0 .. n - 1 /\ (k - 1) + 1 = k /\ x[k] # Blank
  BY <1>2
<1>4. ASSUME NEW q \in 1 .. k - 1 PROVE x[q] = Blank
  <2>1. q \in 1 .. n /\ ~(k <= q)
    BY <1>2
  <2> QED
    BY <1>2, <2>1
<1> HIDE DEF T
<1> QED
  BY <1>3, <1>4

\* A text that ends in no blank is trimmed before or after it has grown.
Ended(x) == IsSeq(x) /\ (x # <<>> => x[Len(x)] # Blank)

LEMMA TrimIsSeq == ASSUME NEW x, Ended(x) PROVE IsSeq(Trimmed(x))
<1> DEFINE n == Len(x)
<1>1. CASE x = <<>>
  BY <1>1, TrimmedNothing, EmptyIsSeq
<1>2. CASE x # <<>>
  <2>1. IsSeq(x) /\ x[n] # Blank
    BY <1>2 DEF Ended
  <2>2. n \in Nat /\ n > 0
    <3>1. n \in Nat
      BY <2>1 DEF IsSeq
    <3>2. n # 0
      BY <1>2, <2>1, NothingIsEmpty
    <3> QED
      BY <3>1, <3>2
  <2>3. PICK m \in 0 .. n - 1 : x[m + 1] # Blank /\ \A q \in 1 .. m : x[q] = Blank
    BY <2>1, <2>2, BlanksInFront
  <2>4. OpensAt(x, m)
    BY <2>3 DEF OpensAt
  <2>5. n = Len(x)
    OBVIOUS
  <2> HIDE DEF n
  <2>6. TrimmedBy(x, n, m)
    BY <2>1, <2>2, <2>4, <2>5, TrimmedIs, Zenon
  <2> QED
    BY <2>6 DEF TrimmedBy
<1> QED
  BY <1>1, <1>2

LEMMA TrimmedGrows ==
  ASSUME NEW x, Ended(x), NEW t, Ended(t), t # <<>>
  PROVE  /\ Ended(x \o t)
         /\ IsSeq(Trimmed(x))
         /\ Trimmed(x \o t) = IF Trimmed(x) = <<>> THEN Trimmed(t) ELSE Trimmed(x) \o NoTail(t)
<1> DEFINE y == x \o t
           n == Len(x)
           k == Len(t)
           u == Trimmed(x)
           v == Trimmed(y)
<1>1. IsSeq(x) /\ (x # <<>> => x[n] # Blank) /\ IsSeq(t) /\ t[k] # Blank
  BY DEF Ended
<1>2. NoTail(t) = t /\ k \in Nat /\ k > 0
  BY <1>1, NoTailWhole
<1>3. n \in Nat
  BY <1>1 DEF IsSeq
<1>4. /\ IsSeq(y) /\ Len(y) = n + k
      /\ \A q \in 1 .. n : y[q] = x[q]
      /\ \A q \in 1 .. k : y[n + q] = t[q]
  BY <1>1, ConcatIsSeq
<1>5. y[n + k] # Blank /\ n + k > 0
  <2>1. k \in 1 .. k
    BY <1>2
  <2> QED
    BY <1>1, <1>2, <1>3, <1>4, <2>1
<1>6. Ended(y)
  BY <1>4, <1>5 DEF Ended
<1>7. CASE x = <<>>
  <2>1. u = <<>> /\ n = 0
    BY <1>7, TrimmedNothing, EmptyIsSeq
  <2>2. y = t
    <3> HIDE DEF y, n, k
    <3>1. Len(y) = k /\ \A q \in 1 .. k : y[q] = t[q]
      BY <1>2, <1>4, <2>1
    <3>2. k = Len(t)
      BY DEF k
    <3> QED
      BY <1>1, <1>4, <3>1, <3>2, IsSeqEqual
  <2>3. IsSeq(u)
    BY <2>1, EmptyIsSeq
  <2> QED
    BY <1>6, <2>1, <2>2, <2>3
<1>8. CASE x # <<>>
  <2>1. n > 0 /\ x[n] # Blank
    <3>1. n # 0
      BY <1>1, <1>8, NothingIsEmpty
    <3> QED
      BY <1>1, <1>3, <1>8, <3>1
  <2>2. PICK m \in 0 .. n - 1 : x[m + 1] # Blank /\ \A q \in 1 .. m : x[q] = Blank
    BY <1>3, <2>1, BlanksInFront
  <2>3. /\ IsSeq(u) /\ Len(u) = n - m
        /\ \A i \in 1 .. n - m : u[i] = x[m + i]
    <3>1. n = Len(x)
      OBVIOUS
    <3>2. OpensAt(x, m)
      BY <2>2 DEF OpensAt
    <3>3. TrimmedBy(x, n, m)
      <4> HIDE DEF n
      <4> QED
        BY <1>1, <2>1, <2>2, <3>1, <3>2, TrimmedIs, Zenon
    <3> QED
      BY <3>3 DEF TrimmedBy
  <2>4. /\ IsSeq(v) /\ Len(v) = (n + k) - m
        /\ \A i \in 1 .. (n + k) - m : v[i] = y[m + i]
    <3> DEFINE e == n + k
    <3>1. /\ e = Len(y) /\ e > 0 /\ y[e] # Blank /\ m \in 0 .. e - 1
      BY <1>2, <1>3, <1>4, <1>5, <2>2
    <3>2. y[m + 1] # Blank /\ \A q \in 1 .. m : y[q] = Blank
      <4>1. m + 1 \in 1 .. n /\ \A q \in 1 .. m : q \in 1 .. n
        BY <1>3, <2>2
      <4> QED
        BY <1>4, <2>2, <4>1
    <3> HIDE DEF e, y
    <3>3. /\ IsSeq(v) /\ Len(v) = e - m
          /\ \A i \in 1 .. e - m : v[i] = y[m + i]
      <4>1. IsSeq(y)
        BY <1>4
      <4>2. OpensAt(y, m)
        BY <3>2 DEF OpensAt
      <4>3. TrimmedBy(y, e, m)
        BY <3>1, <4>1, <4>2, TrimmedIs, Zenon
      <4> QED
        BY <4>3 DEF TrimmedBy
    <3> QED
      BY <3>3 DEF e
  <2> HIDE DEF u, v, y
  <2>5. u # <<>>
    <3>1. Len(u) # 0
      BY <1>3, <2>2, <2>3
    <3> QED
      BY <3>1, EmptyIsSeq
  <2> DEFINE w == u \o t
  <2>6. /\ IsSeq(w) /\ Len(w) = Len(u) + k
        /\ \A q \in 1 .. Len(u) : w[q] = u[q]
        /\ \A q \in 1 .. k : w[Len(u) + q] = t[q]
    <3>1. IsSeq(u)
      BY <2>3
    <3> HIDE DEF n, u
    <3> QED
      BY <1>1, <3>1, ConcatIsSeq
  <2> HIDE DEF w, n, k
  <2>7. ASSUME NEW q \in 1 .. (n + k) - m PROVE v[q] = w[q]
    <3>1. v[q] = y[m + q]
      BY <2>4
    <3>2. CASE q \in 1 .. n - m
      <4>1. m + q \in 1 .. n
        BY <1>3, <2>2, <3>2
      <4> QED
        BY <1>4, <2>3, <2>6, <3>1, <3>2, <4>1
    <3>3. CASE ~(q \in 1 .. n - m)
      <4> DEFINE i == q - (n - m)
      <4>1. i \in 1 .. k /\ n + i = m + q /\ Len(u) + i = q
        BY <1>2, <1>3, <2>2, <2>3, <3>3
      <4> HIDE DEF i
      <4>2. y[n + i] = t[i] /\ w[Len(u) + i] = t[i]
        BY <1>4, <2>6, <4>1
      <4> QED
        BY <3>1, <4>1, <4>2
    <3> QED
      BY <3>2, <3>3
  <2>8. Len(v) = Len(w) /\ Len(v) = (n + k) - m
    BY <1>2, <1>3, <2>2, <2>3, <2>4, <2>6
  <2>9. v = w
    BY <2>4, <2>6, <2>7, <2>8, IsSeqEqual
  <2> QED
    BY <1>2, <1>6, <2>3, <2>5, <2>9 DEF u, v, w, y
<1> QED
  BY <1>7, <1>8

\* What the tokens of a genre are, and that one always goes on.
SpellsGenres ==
    /\ \A x \in GenreVocab : IsSeq(x)
    /\ \A t \in GenreTokens : IsSeq(t) /\ t # <<>> /\ t # Newline /\ t[Len(t)] # Blank

LEMMA PlainSpells == ASSUME PlainGenres PROVE SpellsGenres
<1>1. ASSUME NEW x \in GenreVocab PROVE IsSeq(x)
  <2>1. x \in Seq(STRING)
    BY DEF PlainGenres
  <2> QED
    BY <2>1, SeqIsSeq
<1>2. ASSUME NEW t \in GenreTokens PROVE IsSeq(t) /\ t # <<>> /\ t # Newline /\ t[Len(t)] # Blank
  <2>1. t \in Seq(STRING) /\ t # <<>> /\ t # Newline /\ t[Len(t)] # Blank
    BY Zenon DEF PlainGenres, Blank
  <2> QED
    BY <2>1, SeqIsSeq, Zenon
<1> QED
  BY <1>1, <1>2, Zenon DEF SpellsGenres

GenreText(f) == Trimmed(FlattenSeq(f.acc))
BlanksAfter(text) == {t \in GenreTokens : NoTail(t) = <<>> /\ Blank \in NextPieces(text)}
EndsAfter(text) == IF text \in GenreVocab THEN {Newline} ELSE {}
AllAfter(text) == BlanksAfter(text) \cup WordsAfter(text) \cup EndsAfter(text)

LEMMA AllowedAre ==
  ASSUME NEW f
  PROVE  GenreTokensAllowed(f) =
            IF ~HasGenre(GenreText(f)) \/ AllAfter(GenreText(f)) = {} THEN {Newline}
            ELSE AllAfter(GenreText(f))
BY Zenon DEF GenreTokensAllowed, GenreText, AllAfter, BlanksAfter, EndsAfter, Blank

\* A text that a genre goes on from.
LEMMA GenreContinues ==
  ASSUME PlainGenres, NEW text, IsSeq(text), HasGenre(text)
  PROVE  text \in GenreVocab \/ WordsAfter(text) # {}
<1>1. PICK x \in GenreVocab : IsPrefix(text, x)
  BY DEF HasGenre
<1> DEFINE n == Len(text)
<1>2. IsSeq(x)
  BY PlainSpells DEF SpellsGenres
<1>3. n \in Nat /\ Len(x) \in Nat
  BY <1>2 DEF IsSeq
<1>4. n <= Len(x) /\ \A q \in 1 .. n : text[q] = x[q]
  BY <1>1, <1>2, PrefixIs
<1>5. IsSeq(SubSeq(x, 1, n)) /\ Len(SubSeq(x, 1, n)) = n
      /\ \A q \in 1 .. n : SubSeq(x, 1, n)[q] = x[q]
  <2> HIDE DEF n
  <2> QED
    BY <1>2, <1>3, <1>4, FrontPart
<1>6. text = SubSeq(x, 1, n)
  <2> DEFINE y == SubSeq(x, 1, n)
  <2>1. IsSeq(y) /\ Len(text) = Len(y) /\ \A q \in 1 .. Len(text) : text[q] = y[q]
    BY <1>4, <1>5
  <2> HIDE DEF y
  <2>2. text = y
    BY <2>1, IsSeqEqual
  <2> QED
    BY <2>2 DEF y
<1>7. CASE n = Len(x)
  <2>1. text = x
    BY <1>2, <1>4, <1>7, IsSeqEqual
  <2> QED
    BY <2>1
<1>8. CASE n # Len(x)
  <2>1. n \in 0 .. Len(x) - 1
    BY <1>3, <1>4, <1>8
  <2>2. SubSeq(x, 1, n) \in GenreVocab \/ WordsAfter(SubSeq(x, 1, n)) # {}
    <3> HIDE DEF n
    <3> QED
      BY <2>1, Zenon DEF PlainGenres
  <2> QED
    BY <1>6, <2>2
<1> QED
  BY <1>7, <1>8

\* The token that the mask leaves goes on with a genre, or ends one.
LEMMA GenreChoice ==
  ASSUME PlainGenres, NEW f, NEW text, text = GenreText(f), IsSeq(text), HasGenre(text),
         NEW tok \in GenreTokensAllowed(f)
  PROVE  \/ tok = Newline /\ text \in GenreVocab
         \/ /\ tok \in GenreTokens
            /\ HasGenre(IF text = <<>> THEN Trimmed(tok) ELSE text \o NoTail(tok))
<1>1. AllAfter(text) # {}
  <2>1. text \in GenreVocab \/ WordsAfter(text) # {}
    BY GenreContinues
  <2> QED
    BY <2>1 DEF AllAfter, EndsAfter
<1>2. tok \in AllAfter(text)
  BY <1>1, AllowedAre
<1>3. CASE tok \in BlanksAfter(text)
  <2>1. tok \in GenreTokens /\ NoTail(tok) = <<>>
    BY <1>3, Zenon DEF BlanksAfter
  <2>2. IsSeq(tok) /\ tok # <<>> /\ tok[Len(tok)] # Blank
    BY <2>1, PlainSpells, Zenon DEF SpellsGenres
  <2>3. NoTail(tok) = tok
    BY <2>2, NoTailWhole, Zenon
  <2> QED
    BY <2>1, <2>2, <2>3
<1>4. CASE tok \in WordsAfter(text)
  BY <1>4, Zenon DEF WordsAfter
<1>5. CASE tok \in EndsAfter(text)
  BY <1>5, Zenon DEF EndsAfter
<1> QED
  BY <1>2, <1>3, <1>4, <1>5, Zenon DEF AllAfter

\* A genre is being written from a on.
GenreState(r, f, g) ==
    /\ f.part = "value" /\ f.queue = <<>> /\ f.field = "genres"
    /\ IsSeq(f.acc) /\ \A q \in 1 .. Len(f.acc) : f.acc[q] # Newline
    /\ Ended(FlattenSeq(f.acc)) /\ HasGenre(GenreText(f))
    /\ \E a : ValueDue(r, f, g, a) /\ Standing(g, a, f.acc, Len(f.acc))

LEMMA GenreWrites ==
  ASSUME PlainGenres, NEW r, NEW f, DOMAIN f = FsmParts, Rules(f) = r, NEW g, IsSeq(g),
         GenreState(r, f, g), NEW tok \in GenreTokensAllowed(f)
  PROVE  LET k == UpdateValue(f, tok)
             h == Append(g, tok)
         IN  /\ DOMAIN k = FsmParts /\ Rules(k) = r
             /\ GenreState(r, k, h) \/ NameState(r, k, h) \/ Closing(r, k, h)
<1> SUFFICES ASSUME NEW k, k = UpdateValue(f, tok), NEW h, h = Append(g, tok)
            PROVE  /\ DOMAIN k = FsmParts /\ Rules(k) = r
                   /\ GenreState(r, k, h) \/ NameState(r, k, h) \/ Closing(r, k, h)
  BY Zenon
<1> DEFINE acc == f.acc
           text == GenreText(f)
<1>1. /\ f.part = "value" /\ f.queue = <<>> /\ f.field = "genres"
      /\ IsSeq(acc) /\ (\A q \in 1 .. Len(acc) : acc[q] # Newline)
      /\ Ended(FlattenSeq(acc)) /\ HasGenre(text)
  BY DEF GenreState
<1>2. PICK a : ValueDue(r, f, g, a) /\ Standing(g, a, acc, Len(acc))
  BY DEF GenreState
<1>3. text = Trimmed(FlattenSeq(acc))
  BY DEF GenreText
<1>4. Longer(g, h) /\ Len(h) = Len(g) + 1 /\ IsSeq(h)
  <2>1. IsSeq(h) /\ Len(h) = Len(g) + 1 /\ Agree(g, h, Len(g))
    BY AppendAgrees
  <2> QED
    BY <2>1 DEF Longer
<1>5. CASE tok = Newline /\ text \in GenreVocab
  <2>1. k = Leave(f)
    BY <1>5 DEF UpdateValue
  <2>2. /\ DOMAIN k = FsmParts /\ k.field = NextField(f) /\ k.part = "name" /\ k.pos = 0
        /\ k.queue = <<>> /\ SameFlags(f, k) /\ Rules(k) = r
    BY <1>1, <2>1, LeaveTo
  <2>3. InHeader(r, "genres", acc)
    BY <1>3, <1>5, Zenon DEF InHeader
  <2>4. Cell(r, f.field, h, a, Len(h))
    <3>1. Cell(r, "genres", Append(g, Newline), a, Len(g) + 1)
      <4> HIDE DEF acc
      <4> QED
        BY <1>1, <1>2, <2>3, LineStands, Zenon
    <3> QED
      BY <1>1, <1>4, <1>5, <3>1
  <2>5. NameState(r, k, h) \/ Closing(r, k, h)
    BY <1>2, <1>4, <2>2, <2>4, ValueEnds
  <2> QED
    BY <2>2, <2>5
<1>6. CASE /\ tok \in GenreTokens
           /\ HasGenre(IF text = <<>> THEN Trimmed(tok) ELSE text \o NoTail(tok))
  <2>1. IsSeq(tok) /\ tok # <<>> /\ tok # Newline /\ tok[Len(tok)] # Blank
    BY <1>6, PlainSpells, Zenon DEF SpellsGenres
  <2> DEFINE y == Append(acc, tok)
             d == Len(acc)
  <2>2. k = [f EXCEPT !.acc = y]
    BY <2>1 DEF UpdateValue
  <2> HIDE DEF y, acc, text
  <2>3. /\ DOMAIN k = FsmParts /\ k.field = f.field /\ k.part = f.part
        /\ k.acc = y /\ k.queue = f.queue /\ SameFlags(f, k) /\ Rules(k) = r
    <3> DEFINE l == [f EXCEPT !.acc = y]
    <3>1. /\ DOMAIN l = FsmParts /\ l.field = f.field /\ l.part = f.part
          /\ l.acc = y /\ l.queue = f.queue /\ SameFlags(f, l) /\ Rules(l) = Rules(f)
      BY AccTo, Zenon
    <3> HIDE DEF l
    <3>2. k = l
      BY <2>2 DEF l
    <3> QED
      BY <3>1, <3>2
  <2>4. /\ IsSeq(y) /\ Len(y) = d + 1 /\ d \in Nat /\ y[d + 1] = tok
        /\ \A q \in 1 .. d : acc[q] = y[q]
    BY <1>1, AppendAgrees DEF Agree, y
  <2>5. Standing(h, a, y, d + 1)
    <3>1. Standing(g, a, y, d)
      BY <1>2, <2>4 DEF Standing
    <3>2. Len(y) \in Nat /\ d < Len(y)
      BY <2>4
    <3>3. Standing(Append(g, y[d + 1]), a, y, d + 1)
      BY <3>1, <3>2, StandsLonger
    <3> QED
      BY <2>4, <3>3
  <2>6. \A q \in 1 .. Len(y) : y[q] # Newline
    <3>1. \A q \in 1 .. d + 1 : q \in 1 .. d \/ q = d + 1
      BY <2>4
    <3> QED
      BY <1>1, <2>1, <2>4, <3>1
  <2>7. FlattenSeq(y) = FlattenSeq(acc) \o tok
    BY <1>1, <2>1, TextGrows DEF y
  <2>8. Ended(tok)
    BY <2>1 DEF Ended
  <2> DEFINE x == FlattenSeq(acc)
             z == x \o tok
  <2>9. Ended(z) /\ Trimmed(z) = IF text = <<>> THEN Trimmed(tok) ELSE text \o NoTail(tok)
    <3>1. text = Trimmed(x)
      BY <1>3
    <3>2. Ended(x)
      BY <1>1
    <3> HIDE DEF x
    <3>3. /\ Ended(x \o tok)
          /\ Trimmed(x \o tok) =
                IF Trimmed(x) = <<>> THEN Trimmed(tok) ELSE Trimmed(x) \o NoTail(tok)
      BY <2>1, <2>8, <3>2, TrimmedGrows, Zenon
    <3> QED
      BY <3>1, <3>3, Zenon
  <2>10. Ended(FlattenSeq(k.acc)) /\ HasGenre(GenreText(k))
    <3>1. FlattenSeq(k.acc) = z
      <4>1. k.acc = y
        BY <2>3
      <4> QED
        BY <2>7, <4>1, Zenon
    <3>2. HasGenre(Trimmed(z))
      <4> HIDE DEF z
      <4> QED
        BY <1>6, <2>9
    <3> HIDE DEF z
    <3> QED
      BY <2>9, <3>1, <3>2, Zenon DEF GenreText
  <2>11. ValueDue(r, k, h, a)
    BY <1>2, <1>4, <2>3, ValueStaysDue
  <2>12. Standing(h, a, k.acc, Len(k.acc))
    BY <2>3, <2>4, <2>5
  <2>13. GenreState(r, k, h)
    <3>1. k.part = "value" /\ k.queue = <<>> /\ k.field = "genres" /\ IsSeq(k.acc)
      BY <1>1, <2>3, <2>4
    <3>2. \A q \in 1 .. Len(k.acc) : k.acc[q] # Newline
      BY <2>3, <2>6
    <3> QED
      BY <2>10, <2>11, <2>12, <3>1, <3>2, Zenon DEF GenreState
  <2> QED
    BY <2>3, <2>13
<1>7. IsSeq(text)
  <2>1. Ended(FlattenSeq(acc))
    BY <1>1
  <2> DEFINE x == FlattenSeq(acc)
  <2> HIDE DEF x, text
  <2>2. IsSeq(Trimmed(x))
    BY <2>1, TrimIsSeq DEF x
  <2> QED
    BY <1>3, <2>2 DEF x
<1> HIDE DEF text
<1>8. \/ tok = Newline /\ text \in GenreVocab
      \/ /\ tok \in GenreTokens
         /\ HasGenre(IF text = <<>> THEN Trimmed(tok) ELSE text \o NoTail(tok))
  BY <1>1, <1>7, GenreChoice DEF text
<1> QED
  BY <1>5, <1>6, <1>8

\* The genre begins.
LEMMA GenreOpens ==
  ASSUME PlainGenres, NEW r, r.genres => GenreVocab # {}, NEW f, NEW g, IsSeq(g),
         ValueNext(r, f, g), f.field = "genres"
  PROVE  GenreState(r, f, g)
<1> DEFINE a == Len(g) + 1
<1>1. /\ f.part = "value" /\ f.queue = <<>> /\ f.acc = <<>> /\ ValueDue(r, f, g, a)
  BY DEF ValueNext, Constrained
<1>2. r.genres
  <2>1. PICK c \in 1 .. Len(Order(r)) : f.field = Order(r)[c]
    BY <1>1 DEF ValueDue
  <2> QED
    BY <2>1, OrderIs
<1>3. FlattenSeq(f.acc) = <<>>
  BY <1>1 DEF FlattenSeq
<1>4. GenreText(f) = <<>>
  BY <1>3, TrimmedNothing DEF GenreText
<1>5. HasGenre(GenreText(f))
  <2>1. PICK x \in GenreVocab : TRUE
    BY <1>2
  <2>2. IsSeq(x)
    BY PlainSpells, Zenon DEF SpellsGenres
  <2>3. Len(x) \in Nat
    BY <2>2 DEF IsSeq
  <2>4. IsSeq(<<>>) /\ Len(<<>>) <= Len(x) /\ \A q \in 1 .. Len(<<>>) : <<>>[q] = x[q]
    BY <2>3, EmptyIsSeq
  <2>5. IsPrefix(<<>>, x)
    BY <2>2, <2>4, PrefixIs
  <2> QED
    BY <1>4, <2>5 DEF HasGenre
<1>6. Ended(FlattenSeq(f.acc))
  BY <1>3, EmptyIsSeq DEF Ended
<1>7. IsSeq(f.acc) /\ Len(f.acc) = 0 /\ \A q \in 1 .. Len(f.acc) : f.acc[q] # Newline
  <2>1. 1 .. 0 = {}
    OBVIOUS
  <2> QED
    BY <1>1, <2>1, EmptyIsSeq
<1>8. Standing(g, a, f.acc, Len(f.acc))
  <2>1. a \in Nat \ {0} /\ 0 \in 0 .. 0 /\ (a - 1) + 0 = Len(g) /\ 1 .. 0 = {}
    BY DEF IsSeq
  <2> HIDE DEF a
  <2> QED
    BY <1>7, <2>1 DEF Standing
<1> HIDE DEF a
<1> QED
  BY <1>1, <1>5, <1>6, <1>7, <1>8, Zenon DEF GenreState

-----------------------------------------------------------------------------
(* The header as far as it has been written.                                 *)

HeaderAt(r, f, g) ==
    /\ DOMAIN f = FsmParts /\ Rules(f) = r
    /\ \/ NameState(r, f, g) \/ ValueState(r, f, g) \/ GenreState(r, f, g)
       \/ CaptionState(r, f, g) \/ Closing(r, f, g)

\* What a template forces, and the vocabulary it has.
SoundRules(r) == OneLine(r) /\ (r.genres => GenreVocab # {})

LEMMA NameField ==
  ASSUME NEW r, NEW f, NEW g, NameState(r, f, g)
  PROVE  f.field \in Constrained \cup {"caption", "genres"} /\ f.part = "name" /\ f.queue = <<>>
<1>1. PICK p : NameDue(r, f, g, p) /\ Naming(f, g, p)
  BY DEF NameState
<1>2. f.part = "name" /\ f.queue = <<>>
  BY <1>1 DEF Naming
<1>3. \A c \in 1 .. Len(Order(r)) : Order(r)[c] \in Constrained \cup {"genres"}
  BY OrderIs
<1>4. "bpm" \in Constrained
  BY DEF Constrained
<1> QED
  BY <1>1, <1>2, <1>3, <1>4 DEF NameDue

\* The field of a header that is being written.
LEMMA NotEnded ==
  ASSUME NEW r, NEW f, NEW g, HeaderAt(r, f, g)
  PROVE  f.field # "codes"
<1>1. "codes" \notin Constrained
  BY DEF Constrained
<1> QED
  BY <1>1, NameField DEF HeaderAt, ValueState, GenreState, CaptionState, Closing

\* A field has been named: its value is begun.
LEMMA NextOpens ==
  ASSUME PlainGenres, NEW r, SoundRules(r), NEW f, DOMAIN f = FsmParts, Rules(f) = r,
         NEW g, IsSeq(g), ValueNext(r, f, g)
  PROVE  HeaderAt(r, f, g)
<1>1. OneLine(r) /\ (r.genres => GenreVocab # {})
  BY DEF SoundRules
<1>2. CASE f.field \in Constrained
  BY <1>1, <1>2, ValueOpens, Zenon DEF HeaderAt
<1>3. CASE f.field = "genres"
  BY <1>1, <1>3, GenreOpens, Zenon DEF HeaderAt
<1>4. CASE f.field = "caption"
  BY <1>4, CaptionOpens, Zenon DEF HeaderAt
<1> QED
  BY <1>2, <1>3, <1>4, Zenon DEF ValueNext

\* The mask, and what a step makes of the decoder, by where it is.
LEMMA MaskOfQueue ==
  ASSUME NEW f, f.queue # <<>>, NEW free, NEW audio, NEW tok \in Unmasked(f, free, audio)
  PROVE  tok = Head(f.queue) /\ UpdateFSM(f, tok) = Consume(f)
BY DEF Unmasked, UpdateFSM

LEMMA MaskOfName ==
  ASSUME NEW f, f.queue = <<>>, f.part = "name",
         f.field \in Constrained \cup {"caption", "genres"},
         NEW free, NEW audio, NEW tok \in Unmasked(f, free, audio)
  PROVE  tok = NameTokens(f.field)[f.pos + 1] /\ UpdateFSM(f, tok) = UpdateName(f)
<1>1. InName(f)
  BY DEF InName
<1>2. f.field \notin {"think_end", "codes"} /\ ~InCaption(f)
  BY DEF Constrained, InCaption
<1>3. Unmasked(f, free, audio) = {NameTokens(f.field)[f.pos + 1]}
  BY <1>1, <1>2 DEF Unmasked
<1>4. UpdateFSM(f, tok) = UpdateName(f)
  BY <1>1, <1>2 DEF UpdateFSM
<1> QED
  BY <1>3, <1>4

LEMMA MaskOfCaption ==
  ASSUME NEW f, f.queue = <<>>, f.part = "value", f.field = "caption",
         NEW free, NEW audio, NEW tok \in Unmasked(f, free, audio)
  PROVE  tok \in free /\ UpdateFSM(f, tok) = UpdateCaption(f, tok)
<1>1. ~InName(f) /\ InCaption(f)
  BY DEF InName, InCaption
<1> QED
  BY <1>1 DEF Unmasked, UpdateFSM

LEMMA MaskOfEnd ==
  ASSUME NEW f, f.queue = <<>>, f.field = "think_end",
         NEW free, NEW audio, NEW tok \in Unmasked(f, free, audio)
  PROVE  tok = EndOfThought /\ UpdateFSM(f, tok) = [f EXCEPT !.field = "codes"]
<1>1. ~InName(f) /\ ~InCaption(f)
  BY DEF InName, InCaption, Constrained
<1> QED
  BY <1>1 DEF Unmasked, UpdateFSM

LEMMA MaskOfGenre ==
  ASSUME NEW f, f.queue = <<>>, f.part = "value", f.field = "genres",
         NEW free, NEW audio, NEW tok \in Unmasked(f, free, audio)
  PROVE  tok \in GenreTokensAllowed(f) /\ UpdateFSM(f, tok) = UpdateValue(f, tok)
<1>1. ~InName(f) /\ ~InCaption(f) /\ f.field \notin {"think_end", "codes"}
  BY DEF InName, InCaption
<1> QED
  BY <1>1 DEF Unmasked, UpdateFSM

LEMMA MaskOfValue ==
  ASSUME NEW f, f.queue = <<>>, f.part = "value", f.field \in Constrained,
         NEW free, NEW audio, NEW tok \in Unmasked(f, free, audio)
  PROVE  tok \in Continuations(f) /\ UpdateFSM(f, tok) = UpdateValue(f, tok)
<1>1. ~InName(f) /\ ~InCaption(f) /\ f.field \notin {"think_end", "codes", "genres"}
  BY DEF InName, InCaption, Constrained
<1> QED
  BY <1>1 DEF Unmasked, UpdateFSM

\* A step of the decoder: the header goes on, or </think> has ended it.
Ends(k, tok, h) == tok = EndOfThought /\ k.field = "codes" /\ IsHeader(k, h)
Outcome(r, k, tok, h) == HeaderAt(r, k, h) \/ Ends(k, tok, h)

LEMMA QueueStep ==
  ASSUME NEW r, SoundRules(r), NEW f, DOMAIN f = FsmParts, Rules(f) = r, f.queue # <<>>,
         NEW g, IsSeq(g), ValueState(r, f, g), NEW free, NEW audio,
         NEW tok \in Unmasked(f, free, audio), NEW k, k = UpdateFSM(f, tok), NEW h, h = Append(g, tok)
  PROVE  Outcome(r, k, tok, h)
<1>1. tok = Head(f.queue) /\ k = Consume(f) /\ OneLine(r)
  BY MaskOfQueue DEF SoundRules
<1>2. /\ DOMAIN Consume(f) = FsmParts /\ Rules(Consume(f)) = r
      /\ LET l == Append(g, Head(f.queue))
         IN  ValueState(r, Consume(f), l) \/ NameState(r, Consume(f), l) \/ Closing(r, Consume(f), l)
  BY <1>1, QueueWrites, Zenon
<1>3. /\ DOMAIN k = FsmParts /\ Rules(k) = r
      /\ ValueState(r, k, h) \/ NameState(r, k, h) \/ Closing(r, k, h)
  BY <1>1, <1>2, Zenon
<1> QED
  BY <1>3, Zenon DEF Outcome, HeaderAt

LEMMA NameStep ==
  ASSUME PlainGenres, NEW r, SoundRules(r), NEW f, DOMAIN f = FsmParts, Rules(f) = r,
         NEW g, IsSeq(g), NameState(r, f, g), NEW free, NEW audio,
         NEW tok \in Unmasked(f, free, audio), NEW k, k = UpdateFSM(f, tok), NEW h, h = Append(g, tok)
  PROVE  Outcome(r, k, tok, h)
<1>1. f.field \in Constrained \cup {"caption", "genres"} /\ f.part = "name" /\ f.queue = <<>>
  BY NameField
<1>2. tok = NameTokens(f.field)[f.pos + 1] /\ k = UpdateName(f)
  BY <1>1, MaskOfName
<1>3. LET l == Append(g, NameTokens(f.field)[f.pos + 1])
          m == UpdateName(f)
      IN  /\ DOMAIN m = FsmParts /\ Rules(m) = r /\ m.queue = <<>>
          /\ NameState(r, m, l) \/ ValueNext(r, m, l)
  BY <1>1, NameWrites, Zenon
<1>4. DOMAIN k = FsmParts /\ Rules(k) = r /\ (NameState(r, k, h) \/ ValueNext(r, k, h))
  BY <1>2, <1>3, Zenon
<1>5. IsSeq(h)
  BY AppendIsSeq
<1> QED
  BY <1>4, <1>5, NextOpens, Zenon DEF Outcome, HeaderAt

LEMMA ValueStep ==
  ASSUME NEW r, SoundRules(r), NEW f, DOMAIN f = FsmParts, Rules(f) = r, f.queue = <<>>,
         r.forced[f.field] = <<>>, NEW g, IsSeq(g), ValueState(r, f, g), NEW free, NEW audio,
         NEW tok \in Unmasked(f, free, audio), NEW k, k = UpdateFSM(f, tok), NEW h, h = Append(g, tok)
  PROVE  Outcome(r, k, tok, h)
<1>1. f.part = "value" /\ f.field \in Constrained /\ OneLine(r)
  BY DEF ValueState, SoundRules
<1>2. tok \in Continuations(f) /\ k = UpdateValue(f, tok)
  BY <1>1, MaskOfValue
<1>3. LET l == Append(g, tok)
          m == UpdateValue(f, tok)
      IN  /\ DOMAIN m = FsmParts /\ Rules(m) = r
          /\ ValueState(r, m, l) \/ NameState(r, m, l) \/ Closing(r, m, l)
  BY <1>1, <1>2, FreeWrites, Zenon
<1>4. /\ DOMAIN k = FsmParts /\ Rules(k) = r
      /\ ValueState(r, k, h) \/ NameState(r, k, h) \/ Closing(r, k, h)
  BY <1>2, <1>3, Zenon
<1> QED
  BY <1>4, Zenon DEF Outcome, HeaderAt

LEMMA GenreStep ==
  ASSUME PlainGenres, NEW r, NEW f, DOMAIN f = FsmParts, Rules(f) = r,
         NEW g, IsSeq(g), GenreState(r, f, g), NEW free, NEW audio,
         NEW tok \in Unmasked(f, free, audio), NEW k, k = UpdateFSM(f, tok), NEW h, h = Append(g, tok)
  PROVE  Outcome(r, k, tok, h)
<1>1. f.part = "value" /\ f.field = "genres" /\ f.queue = <<>>
  BY DEF GenreState
<1>2. tok \in GenreTokensAllowed(f) /\ k = UpdateValue(f, tok)
  BY <1>1, MaskOfGenre
<1>3. LET m == UpdateValue(f, tok)
          l == Append(g, tok)
      IN  /\ DOMAIN m = FsmParts /\ Rules(m) = r
          /\ GenreState(r, m, l) \/ NameState(r, m, l) \/ Closing(r, m, l)
  BY <1>2, GenreWrites, Zenon
<1>4. /\ DOMAIN k = FsmParts /\ Rules(k) = r
      /\ GenreState(r, k, h) \/ NameState(r, k, h) \/ Closing(r, k, h)
  BY <1>2, <1>3, Zenon
<1> QED
  BY <1>4, Zenon DEF Outcome, HeaderAt

LEMMA TellStep ==
  ASSUME PlainGenres, NEW r, SoundRules(r), NEW f, DOMAIN f = FsmParts, Rules(f) = r,
         NEW g, IsSeq(g), CaptionState(r, f, g), NEW free, \A t \in free : Describes(t), NEW audio,
         NEW tok \in Unmasked(f, free, audio), NEW k, k = UpdateFSM(f, tok), NEW h, h = Append(g, tok)
  PROVE  Outcome(r, k, tok, h)
<1>1. f.part = "value" /\ f.field = "caption" /\ f.queue = <<>>
  BY DEF CaptionState
<1>2. tok \in free /\ k = UpdateCaption(f, tok)
  BY <1>1, MaskOfCaption
<1>3. Describes(tok)
  BY <1>2
<1>a. LET m == UpdateCaption(f, tok)
          l == Append(g, tok)
      IN  /\ DOMAIN m = FsmParts /\ Rules(m) = r /\ m.queue = <<>>
          /\ CaptionState(r, m, l) \/ ValueNext(r, m, l)
  BY <1>3, CaptionWrites, Zenon
<1>4. /\ DOMAIN k = FsmParts /\ Rules(k) = r
      /\ CaptionState(r, k, h) \/ ValueNext(r, k, h)
  BY <1>2, <1>a, Zenon
<1>5. IsSeq(h)
  BY AppendIsSeq
<1> QED
  BY <1>4, <1>5, NextOpens, Zenon DEF Outcome, HeaderAt

LEMMA EndStep ==
  ASSUME NEW r, NEW f, DOMAIN f = FsmParts, Rules(f) = r,
         NEW g, IsSeq(g), Closing(r, f, g), NEW free, NEW audio,
         NEW tok \in Unmasked(f, free, audio), NEW k, k = UpdateFSM(f, tok), NEW h, h = Append(g, tok)
  PROVE  Outcome(r, k, tok, h)
<1> DEFINE n == Len(Order(r))
<1>1. f.field = "think_end" /\ f.queue = <<>> /\ Reached(r, g, n + 1, Len(g) + 1)
  BY DEF Closing
<1>2. tok = EndOfThought /\ k = [f EXCEPT !.field = "codes"]
  BY <1>1, MaskOfEnd
<1>3. DOMAIN k = FsmParts /\ k.field = "codes" /\ Rules(k) = r
  BY <1>2, EndTo
<1>4. /\ IsSeq(h) /\ Len(h) = Len(g) + 1 /\ Len(g) \in Nat /\ h[Len(g) + 1] = tok
      /\ Agree(g, h, Len(g))
  BY AppendAgrees
<1>5. Longer(g, h)
  BY <1>4 DEF Longer
<1>6. Reached(r, h, n + 1, Len(h))
  BY <1>1, <1>4, <1>5, ReachedLasts
<1>7. Len(h) > 0 /\ h[Len(h)] = EndOfThought /\ n \in Nat
  <2>1. n \in Nat
    BY OrderIs
  <2>2. Len(h) > 0
    BY <1>4
  <2>3. h[Len(h)] = tok
    BY <1>4
  <2> QED
    BY <1>2, <2>1, <2>2, <2>3

<1>8. IsHeader(r, h)
  BY <1>4, <1>6, <1>7, HeaderEnds
<1>9. IsHeader(k, h)
  BY <1>3, <1>8, HeaderOfRules
<1> QED
  BY <1>2, <1>3, <1>9 DEF Outcome, Ends

\* Whatever the mask leaves, the header goes on, or it is whole.
LEMMA DecoderWrites ==
  ASSUME PlainGenres, NEW r, SoundRules(r), NEW f, NEW g, IsSeq(g), HeaderAt(r, f, g),
         NEW free, \A t \in free : Describes(t), NEW audio,
         NEW tok \in Unmasked(Injected(f), free, audio),
         NEW k, k = UpdateFSM(Injected(f), tok), NEW h, h = Append(g, tok)
  PROVE  Outcome(r, k, tok, h)
<1>1. DOMAIN f = FsmParts /\ Rules(f) = r
  BY DEF HeaderAt
<1>2. CASE NameState(r, f, g)
  <2>1. Injected(f) = f
    BY <1>2, NameField, NotInjected DEF InValue
  <2> QED
    BY <1>1, <1>2, <2>1, NameStep, Zenon
<1>3. CASE ValueState(r, f, g) /\ f.queue # <<>>
  <2>1. Injected(f) = f
    BY <1>3, NotInjected DEF InValue
  <2> QED
    BY <1>1, <1>3, <2>1, QueueStep, Zenon
<1>4. CASE ValueState(r, f, g) /\ f.queue = <<>> /\ r.forced[f.field] # <<>>
  <2>1. OneLine(r)
    BY DEF SoundRules
  <2>2. LET m == Injected(f)
        IN  DOMAIN m = FsmParts /\ Rules(m) = r /\ m.queue # <<>> /\ ValueState(r, m, g)
    BY <1>1, <1>4, <2>1, InjectQueues, Zenon
  <2> QED
    BY <2>2, QueueStep, Zenon
<1>5. CASE ValueState(r, f, g) /\ f.queue = <<>> /\ r.forced[f.field] = <<>>
  <2>1. f.forced[f.field] = <<>>
    BY <1>1, <1>5, RulesOf
  <2>2. Injected(f) = f
    BY <2>1, NotInjected DEF InValue
  <2> QED
    BY <1>1, <1>5, <2>2, ValueStep, Zenon
<1>6. CASE GenreState(r, f, g)
  <2>1. Injected(f) = f
    BY <1>6, NotInjected DEF GenreState, Constrained, InValue
  <2> QED
    BY <1>1, <1>6, <2>1, GenreStep, Zenon
<1>7. CASE CaptionState(r, f, g)
  <2>1. Injected(f) = f
    BY <1>7, NotInjected DEF CaptionState, Constrained, InValue
  <2> QED
    BY <1>1, <1>7, <2>1, TellStep, Zenon
<1>8. CASE Closing(r, f, g)
  <2>1. Injected(f) = f
    BY <1>8, NotInjected DEF Closing, Constrained, InValue
  <2> QED
    BY <1>1, <1>8, <2>1, EndStep, Zenon
<1> QED
  BY <1>2, <1>3, <1>4, <1>5, <1>6, <1>7, <1>8, Zenon DEF HeaderAt

-----------------------------------------------------------------------------
(* The headers of a call.                                                    *)

\* Up to </think>, and whether it is there.
Cut(g) == SubSeq(g, 1, SelectInSeq(g, LAMBDA t : t = EndOfThought))
NoEnd(g) == \A q \in 1 .. Len(g) : g[q] # EndOfThought

\* The first </think>.
LEMMA FirstEnd ==
  ASSUME NEW g, IsSeq(g), ~NoEnd(g)
  PROVE  \E b \in 1 .. Len(g) :
            /\ g[b] = EndOfThought /\ \A q \in 1 .. b - 1 : g[q] # EndOfThought
            /\ Cut(g) = SubSeq(g, 1, b)
<1> DEFINE n == Len(g)
           I == {q \in 1 .. n : g[q] = EndOfThought}
<1>1. n \in Nat
  BY DEF IsSeq
<1>2. SelectInSeq(g, LAMBDA t : t = EndOfThought) = FirstOf(I)
  BY Zenon DEF SelectInSeq, FirstOf
<1>3. I \in SUBSET (1 .. n) /\ I # {}
  BY DEF NoEnd
<1> DEFINE b == FirstOf(I)
<1>4. b \in I /\ \A y \in I : b <= y
  <2> HIDE DEF I
  <2> QED
    BY <1>1, <1>3, FirstIs
<1>5. b \in 1 .. n /\ g[b] = EndOfThought
  BY <1>4
<1>6. \A q \in 1 .. b - 1 : g[q] # EndOfThought
  <2> SUFFICES ASSUME NEW q \in 1 .. b - 1, g[q] = EndOfThought PROVE FALSE
    OBVIOUS
  <2> HIDE DEF b
  <2>1. q \in 1 .. n /\ ~(b <= q)
    BY <1>1, <1>5
  <2>2. q \in I
    BY <2>1
  <2> QED
    BY <1>4, <2>1, <2>2
<1>7. Cut(g) = SubSeq(g, 1, b)
  BY <1>2, Zenon DEF Cut
<1> HIDE DEF b, I
<1> QED
  BY <1>5, <1>6, <1>7, Zenon

LEMMA EndIsAt ==
  ASSUME NEW g, IsSeq(g), NEW b \in 1 .. Len(g), g[b] = EndOfThought,
         \A q \in 1 .. b - 1 : g[q] # EndOfThought
  PROVE  ~NoEnd(g) /\ Cut(g) = SubSeq(g, 1, b)
<1>1. ~NoEnd(g)
  BY DEF NoEnd
<1>2. PICK c \in 1 .. Len(g) :
         /\ g[c] = EndOfThought /\ \A q \in 1 .. c - 1 : g[q] # EndOfThought
         /\ Cut(g) = SubSeq(g, 1, c)
  BY <1>1, FirstEnd
<1>3. Len(g) \in Nat
  BY DEF IsSeq
<1>4. b = c
  <2>1. ~(b < c) /\ ~(c < b)
    BY <1>2, <1>3
  <2> QED
    BY <1>2, <1>3, <2>1
<1> QED
  BY <1>1, <1>2, <1>4

\* A header that has ended stays what it is.
LEMMA CutStays ==
  ASSUME NEW g, IsSeq(g), ~NoEnd(g), NEW tok, NEW h, h = Append(g, tok)
  PROVE  ~NoEnd(h) /\ Cut(h) = Cut(g)
<1>1. PICK b \in 1 .. Len(g) :
         /\ g[b] = EndOfThought /\ \A q \in 1 .. b - 1 : g[q] # EndOfThought
         /\ Cut(g) = SubSeq(g, 1, b)
  BY FirstEnd
<1>2. /\ IsSeq(h) /\ Len(h) = Len(g) + 1 /\ Len(g) \in Nat
      /\ Agree(g, h, Len(g))
  BY AppendAgrees
<1>3. \A q \in 1 .. Len(g) : g[q] = h[q]
  BY <1>2 DEF Agree
<1>4. b \in 1 .. Len(h) /\ h[b] = EndOfThought
  BY <1>1, <1>2, <1>3
<1>5. \A q \in 1 .. b - 1 : h[q] # EndOfThought
  BY <1>1, <1>2, <1>3
<1>6. ~NoEnd(h) /\ Cut(h) = SubSeq(h, 1, b)
  BY <1>2, <1>4, <1>5, EndIsAt
<1>7. SubSeq(g, 1, b) = SubSeq(h, 1, b)
  <2>1. Longer(g, h)
    BY <1>2 DEF Longer
  <2>2. 1 \in Nat \ {0} /\ b \in Nat /\ 1 - 1 <= b /\ b <= Len(g)
    BY <1>1, <1>2
  <2> QED
    BY <2>1, <2>2, PartsLast
<1> QED
  BY <1>1, <1>6, <1>7

\* The token that ends a header.
LEMMA CutWhole ==
  ASSUME NEW g, IsSeq(g), NoEnd(g), NEW h, h = Append(g, EndOfThought)
  PROVE  ~NoEnd(h) /\ Cut(h) = h
<1>1. /\ IsSeq(h) /\ Len(h) = Len(g) + 1 /\ Len(g) \in Nat /\ h[Len(g) + 1] = EndOfThought
      /\ Agree(g, h, Len(g))
  BY AppendAgrees
<1> DEFINE b == Len(g) + 1
<1>2. b \in 1 .. Len(h) /\ b - 1 = Len(g) /\ b = Len(h)
  BY <1>1
<1>3. \A q \in 1 .. b - 1 : h[q] # EndOfThought
  BY <1>1, <1>2 DEF Agree, NoEnd
<1>4. h[b] = EndOfThought
  BY <1>1
<1> HIDE DEF b
<1>5. ~NoEnd(h) /\ Cut(h) = SubSeq(h, 1, b)
  BY <1>1, <1>2, <1>3, <1>4, EndIsAt
<1> QED
  BY <1>1, <1>2, <1>5, WholePart

LEMMA NoEndGrows ==
  ASSUME NEW g, IsSeq(g), NoEnd(g), NEW tok, tok # EndOfThought, NEW h, h = Append(g, tok)
  PROVE  NoEnd(h)
<1>1. /\ Len(h) = Len(g) + 1 /\ Len(g) \in Nat /\ h[Len(g) + 1] = tok
      /\ Agree(g, h, Len(g))
  BY AppendAgrees
<1>2. \A q \in 1 .. Len(h) : q \in 1 .. Len(g) \/ q = Len(g) + 1
  BY <1>1
<1> QED
  BY <1>1, <1>2 DEF NoEnd, Agree

\* A sequence that is under the mask, or was: its decoder, its tokens, and
\* whether it has left the header.
HeadAt(f, g, out, masks) ==
    /\ IsSeq(g)
    /\ ~masks => f.field # "codes"
    /\ masks /\ ~out => HeaderAt(Rules(f), f, g) /\ SoundRules(Rules(f)) /\ NoEnd(g)
    /\ f.field = "codes" => ~NoEnd(g) /\ IsHeader(f, Cut(g))

\* A token under the mask.
HeadTaken(f, k, h, tok) ==
    HeadAt(k, h, tok = EndOfThought, TRUE) /\ (tok # EndOfThought => Rules(k) = Rules(f))

LEMMA HeadMasked ==
  ASSUME PlainGenres, NEW f, NEW g, HeadAt(f, g, FALSE, TRUE),
         NEW free, \A t \in free : Describes(t), NEW audio,
         NEW tok \in Unmasked(Injected(f), free, audio),
         NEW k, k = UpdateFSM(Injected(f), tok), NEW h, h = Append(g, tok)
  PROVE  HeadTaken(f, k, h, tok)
<1> USE DEF HeadTaken
<1> DEFINE r == Rules(f)
<1>1. IsSeq(g) /\ HeaderAt(r, f, g) /\ SoundRules(r) /\ NoEnd(g)
  BY DEF HeadAt
<1>2. IsSeq(h)
  BY <1>1, AppendIsSeq
<1>3. Outcome(r, k, tok, h)
  <2> HIDE DEF r
  <2> QED
    BY <1>1, DecoderWrites, Zenon
<1> HIDE DEF r
<1>4. CASE HeaderAt(r, k, h)
  <2>1. k.field # "codes" /\ Rules(k) = r
    BY <1>4, NotEnded DEF HeaderAt
  <2>2. tok # EndOfThought => NoEnd(h)
    BY <1>1, NoEndGrows
  <2>3. HeadAt(k, h, tok = EndOfThought, TRUE)
    BY <1>1, <1>2, <1>4, <2>1, <2>2, Zenon DEF HeadAt
  <2> QED
    BY <2>1, <2>3 DEF r
<1>5. CASE Ends(k, tok, h)
  <2>1. tok = EndOfThought /\ k.field = "codes" /\ IsHeader(k, h)
    BY <1>5 DEF Ends
  <2>2. ~NoEnd(h) /\ Cut(h) = h
    BY <1>1, <2>1, CutWhole
  <2> QED
    BY <1>2, <2>1, <2>2, Zenon DEF HeadAt
<1> QED
  BY <1>3, <1>4, <1>5 DEF Outcome

\* A token behind the header, or without a mask.
Headed(f, g) == IsSeq(g) /\ (f.field = "codes" => ~NoEnd(g) /\ IsHeader(f, Cut(g)))

LEMMA HeadFree ==
  ASSUME NEW f, NEW g, Headed(f, g), NEW tok, NEW h, h = Append(g, tok)
  PROVE  Headed(f, h)
<1>1. IsSeq(h)
  BY AppendIsSeq DEF Headed
<1>2. f.field = "codes" => ~NoEnd(h) /\ IsHeader(f, Cut(h))
  BY CutStays DEF Headed
<1> QED
  BY <1>1, <1>2, Zenon DEF Headed

\* The decoder that a header begins with.
LEMMA HeadBegins ==
  ASSUME NEW forced, NEW skip, NEW genres, NEW f, f = FreshFSM(forced, skip, genres),
         \A c \in Constrained : IsSeq(forced[c]) /\ \A q \in 1 .. Len(forced[c]) : forced[c][q] # Newline,
         NEW masks
  PROVE  HeadAt(f, <<>>, FALSE, masks)
<1> DEFINE r == Rules(f)
           g == <<>>
<1>1. /\ DOMAIN f = FsmParts /\ f.field = "bpm" /\ f.part = "name" /\ f.pos = 0
      /\ f.queue = <<>> /\ f.forced = forced /\ ~f.pendingNewline /\ ~f.ending
      /\ f.genres => GenreVocab # {}
  BY DEF FreshFSM, FsmParts
<1>2. r.forced = f.forced /\ r.genres = f.genres
  BY RulesOf
<1> HIDE DEF r
<1>3. IsSeq(g) /\ Len(g) = 0
  BY EmptyIsSeq
<1> HIDE DEF g
<1>4. SoundRules(r)
  BY <1>1, <1>2 DEF SoundRules, OneLine
<1>5. NameState(r, f, g)
  <2>1. NameDue(r, f, g, 1)
    BY <1>1 DEF NameDue, Unmoved
  <2>2. Naming(f, g, 1)
    <3>1. (1 - 1) + f.pos = Len(g)
      BY <1>1, <1>3
    <3> QED
      BY <1>1, <3>1 DEF Naming
  <2> QED
    BY <2>1, <2>2 DEF NameState
<1>6. NoEnd(g)
  <2>1. 1 .. 0 = {}
    OBVIOUS
  <2> QED
    BY <1>3, <2>1 DEF NoEnd
<1>7. HeaderAt(r, f, g)
  BY <1>1, <1>5, Zenon DEF HeaderAt, r
<1>8. f.field # "codes"
  BY <1>1
<1> QED
  BY <1>3, <1>4, <1>6, <1>7, <1>8, Zenon DEF HeadAt, r, g

\* The calls still to come.
PlainCalls == {b \in LmCalls \cup SongCalls : PlainCall(b)}
PlainInv == calls \in Seq(PlainCalls)

LEMMA PlainStarts == ASSUME PlainInstance PROVE Init => PlainInv
<1> SUFFICES ASSUME Init PROVE calls \in Seq(PlainCalls)
  BY DEF PlainInv
<1>1. calls \in Scenarios
  BY DEF Init
<1>2. calls \in Seq(LmCalls \cup SongCalls)
  BY <1>1, ScenariosAssumption
<1>3. Len(calls) \in Nat /\ DOMAIN calls = 1 .. Len(calls)
      /\ calls \in [1 .. Len(calls) -> LmCalls \cup SongCalls]
  BY <1>2, LenProperties
<1>4. \A n \in DOMAIN calls : PlainCall(calls[n])
  BY <1>1, Zenon DEF PlainInstance
<1>5. \A n \in 1 .. Len(calls) : calls[n] \in PlainCalls
  BY <1>3, <1>4 DEF PlainCalls
<1>6. calls \in [1 .. Len(calls) -> PlainCalls]
  BY <1>3, <1>5
<1> QED
  BY <1>3, <1>6

LEMMA PlainNext ==
  ASSUME PlainInv, NEW b, Ready(b)
  PROVE  b \in PlainCalls /\ calls' \in Seq(PlainCalls)
BY HeadTailProperties DEF PlainInv, Ready

LEMMA PlainStep == PlainInv /\ [UnderstandNext]_vars => PlainInv'
<1> SUFFICES ASSUME PlainInv, [UnderstandNext]_vars PROVE PlainInv'
  OBVIOUS
<1>1. CASE \E b : Reject(b) \/ BeginWithout(b) \/ BeginPhase1(b)
  BY <1>1, PlainNext DEF Reject, BeginWithout, BeginPhase1, PlainInv
<1>2. CASE \E b : RefuseUnderstand(b) \/ BeginUnderstand(b)
  BY <1>2, PlainNext DEF RefuseUnderstand, BeginUnderstand, PlainInv
<1>3. CASE calls' = calls
  BY <1>3 DEF PlainInv
<1>4. CASE UNCHANGED vars
  BY <1>3, <1>4 DEF vars
<1>5. CASE \/ First1 \/ Decode1 \/ Merge
           \/ BeginPhase2 \/ First2 \/ Decode2 \/ EndPhase2
           \/ Cancelled \/ Returned
           \/ AnswerToken \/ EndUnderstand \/ FailUnderstand
  <2>1. calls' = calls
    BY <1>5 DEF First1, Decode1, Merge, BeginPhase2, First2, Decode2, EndPhase2, Cancelled,
                Returned, AnswerToken, EndUnderstand, FailUnderstand, Sampled2, vars
  <2> QED
    BY <1>3, <2>1
<1> QED
  BY <1>1, <1>2, <1>4, <1>5, Actions

\* What the LM writes where it is free describes.
LEMMA PlainDescribes == ASSUME NEW t, Plain(t) PROVE Describes(t)
<1>1. t \in Seq(STRING) /\ t # <<>>
      /\ (\A q \in 1 .. Len(t) - 1 : t[q] # Break /\ t[q] # Stop)
      /\ (t[1] = Blank => t[Len(t)] # Break)
  BY Zenon DEF Plain, Blank, Break, Stop
<1>2. IsSeq(t)
  BY <1>1, SeqIsSeq
<1> QED
  BY <1>1, <1>2, Zenon DEF Describes

LEMMA WritesPlainly ==
  ASSUME PlainInstance
  PROVE  /\ \A t \in CaptionTokens : Describes(t)
         /\ \A t \in DullTokens : Describes(t)
         /\ \A t \in AnswerTokens : Describes(t)
         /\ PlainGenres
<1>1. \A t \in CaptionTokens \cup DullTokens \cup AnswerTokens : Plain(t)
  BY Zenon DEF PlainInstance
<1>2. \A t \in CaptionTokens \cup DullTokens \cup AnswerTokens : Describes(t)
  BY <1>1, PlainDescribes, Zenon
<1>3. PlainGenres
  BY Zenon DEF PlainInstance
<1> QED
  BY <1>2, <1>3

\* Every sequence that has a decoder.
Decoding == InPhase1 \/ stage = "understand"
HeadInv ==
    Decoding =>
        /\ DOMAIN fsms = IF stage = "understand" THEN {1} ELSE Seqs
        /\ \A i \in DOMAIN fsms : HeadAt(fsms[i], gen[i], inCodes[i], batch.fsm)
        /\ stage = "understand" /\ batch.fsm /\ ~inCodes[1] => fsms[1].forced = NothingForced

LEMMA DecodingComes ==
  ASSUME UnderstandNext, Decoding'
  PROVE  \/ \E b : BeginPhase1(b)
         \/ \E b : BeginUnderstand(b)
         \/ First1 \/ Decode1 \/ AnswerToken
         \/ UNCHANGED vars
<1>1. CASE \E b : Reject(b) \/ BeginWithout(b) \/ BeginPhase1(b)
  BY <1>1 DEF Reject, BeginWithout, Return, InPhase1, Decoding
<1>2. CASE \E b : RefuseUnderstand(b) \/ BeginUnderstand(b)
  BY <1>2 DEF RefuseUnderstand, Return, InPhase1, Decoding
<1>3. CASE Merge \/ EndPhase2 \/ Cancelled \/ EndUnderstand \/ FailUnderstand
  <2>1. stage' \in {"returned", "phase2", "failed"}
    BY <1>3, Zenon DEF Merge, EndPhase2, Cancelled, EndUnderstand, FailUnderstand, Return
  <2> QED
    BY <2>1 DEF InPhase1, Decoding
<1>4. CASE BeginPhase2 \/ First2
  BY <1>4 DEF BeginPhase2, First2, InPhase1, Decoding
<1>5. CASE Decode2
  BY <1>5 DEF Decode2, InPhase1, Decoding
<1>6. CASE Returned
  BY <1>6 DEF Returned
<1> QED
  BY <1>1, <1>2, <1>3, <1>4, <1>5, <1>6, Actions

\* The decoder of a request.
LEMMA RequestBegins ==
  ASSUME NEW b, PlainCall(b), NEW i \in DOMAIN b.reqs, b.reqs[i] \in LmRequests, NEW masks
  PROVE  HeadAt(RequestFSM(b, b.reqs[i]), <<>>, FALSE, masks)
<1> DEFINE given == b.reqs[i].given
           forced == [c \in Constrained |-> [k \in DOMAIN given[c] |-> <<given[c][k]>>]]
           skip == ~b.reqs[1].cot /\ b.mode # "inspire"
           f == RequestFSM(b, b.reqs[i])
<1>1. f = FreshFSM(forced, skip, FALSE)
  BY DEF RequestFSM
<1>2. ASSUME NEW c \in Constrained
      PROVE  IsSeq(forced[c]) /\ \A q \in 1 .. Len(forced[c]) : forced[c][q] # Newline
  <2> DEFINE v == given[c]
             w == forced[c]
  <2>1. v \in Seq(STRING)
    BY DEF LmRequests
  <2>2. Len(v) \in Nat /\ DOMAIN v = 1 .. Len(v)
    BY <2>1, LenProperties
  <2>3. w = [k \in 1 .. Len(v) |-> <<v[k]>>]
    BY <2>2
  <2>4. \A q \in DOMAIN v : v[q] # Break
    BY Zenon DEF PlainCall, Break
  <2> HIDE DEF v, w
  <2>5. w = [k \in 1 .. Len(v) |-> w[k]]
    BY <2>3
  <2>6. IsSeq(w) /\ Len(w) = Len(v)
    BY <2>2, <2>5, FunctionIsSeq
  <2>7. ASSUME NEW q \in 1 .. Len(w) PROVE w[q] # Newline
    <3>1. q \in 1 .. Len(v) /\ q \in DOMAIN v
      BY <2>2, <2>6
    <3>2. w[q] = <<v[q]>> /\ v[q] # Break
      BY <2>3, <2>4, <3>1
    <3>3. Newline = <<Break>>
      BY Zenon DEF Newline, Break
    <3> QED
      BY <3>2, <3>3
  <2> QED
    BY <2>6, <2>7 DEF w
<1> HIDE DEF forced, skip, f
<1>3. \A c \in Constrained : IsSeq(forced[c]) /\ \A q \in 1 .. Len(forced[c]) : forced[c][q] # Newline
  BY <1>2
<1>4. HeadAt(f, <<>>, FALSE, masks)
  BY <1>1, <1>3, HeadBegins, Zenon
<1> QED
  BY <1>4 DEF f

LEMMA HeadsBegin ==
  ASSUME PlainInv, NEW b, BeginPhase1(b)
  PROVE  HeadInv'
<1>1. b \in PlainCalls /\ b.mode \in Modes /\ batch' = b /\ stage' = "first1"
  BY PlainNext DEF BeginPhase1, Ready
<1>2. b \in LmCalls /\ PlainCall(b)
  <2>1. \A c \in SongCalls : c.mode \notin Modes
    BY DEF SongCalls, Modes
  <2> QED
    BY <1>1, <2>1 DEF PlainCalls
<1>3. /\ fsms' = [i \in DOMAIN b.reqs |-> RequestFSM(b, b.reqs[i])]
      /\ gen' = [i \in DOMAIN b.reqs |-> <<>>]
      /\ inCodes' = [i \in DOMAIN b.reqs |-> FALSE]
  BY Zenon DEF BeginPhase1
<1>4. DOMAIN b.reqs = 1 .. Len(b.reqs) /\ \A i \in DOMAIN b.reqs : b.reqs[i] \in LmRequests
  <2>1. b.reqs \in Seq(LmRequests)
    BY <1>2 DEF LmCalls
  <2> QED
    BY <2>1, LenProperties
<1>5. DOMAIN fsms' = Seqs'
  <2>1. DOMAIN fsms' = DOMAIN b.reqs
    BY <1>3
  <2> QED
    BY <1>1, <1>4, <2>1 DEF Seqs, N
<1>6. ASSUME NEW i \in DOMAIN fsms'
      PROVE  HeadAt(fsms'[i], gen'[i], inCodes'[i], batch'.fsm)
  <2>1. i \in DOMAIN b.reqs
    BY <1>3
  <2>2. fsms'[i] = RequestFSM(b, b.reqs[i]) /\ gen'[i] = <<>> /\ inCodes'[i] = FALSE
    BY <1>3, <2>1
  <2>3. HeadAt(RequestFSM(b, b.reqs[i]), <<>>, FALSE, batch'.fsm)
    BY <1>2, <1>4, <2>1, RequestBegins
  <2> QED
    BY <2>2, <2>3
<1>7. stage' # "understand"
  BY <1>1
<1> QED
  BY <1>5, <1>6, <1>7, Zenon DEF HeadInv

LEMMA SongBegins ==
  ASSUME NEW b, BeginUnderstand(b)
  PROVE  HeadInv'
<1> DEFINE f == FreshFSM(NothingForced, FALSE, TRUE)
<1>1. /\ fsms' = <<f>> /\ gen' = <<<<>>>> /\ inCodes' = <<FALSE>> /\ stage' = "understand"
  BY DEF BeginUnderstand
<1>2. \A c \in Constrained :
         IsSeq(NothingForced[c]) /\ \A q \in 1 .. Len(NothingForced[c]) : NothingForced[c][q] # Newline
  <2>1. \A c \in Constrained : NothingForced[c] = <<>>
    BY DEF NothingForced
  <2>2. 1 .. 0 = {}
    OBVIOUS
  <2> QED
    BY <2>1, <2>2, EmptyIsSeq
<1>3. f.forced = NothingForced
  BY DEF FreshFSM
<1> HIDE DEF f
<1>4. HeadAt(f, <<>>, FALSE, batch'.fsm)
  <2>1. f = FreshFSM(NothingForced, FALSE, TRUE)
    BY DEF f
  <2> QED
    BY <1>2, <2>1, HeadBegins, Zenon
<1>5. DOMAIN fsms' = {1} /\ fsms'[1] = f /\ gen'[1] = <<>> /\ inCodes'[1] = FALSE
  BY <1>1
<1>6. \A i \in DOMAIN fsms' : HeadAt(fsms'[i], gen'[i], inCodes'[i], batch'.fsm)
  BY <1>4, <1>5
<1> QED
  BY <1>1, <1>3, <1>5, <1>6 DEF HeadInv

\* First1 and Decode1, sequence by sequence.
LEMMA SampledHead ==
  ASSUME PlainInstance, HeadInv, InPhase1, stage # "understand",
         NEW tok \in Samples1, Sampled1(tok), NEW i \in Seqs
  PROVE  HeadAt(fsms'[i], gen'[i], inCodes'[i], batch.fsm)
<1> DEFINE f == fsms[i]
           g == gen[i]
           t == tok[i]
           k == UpdateFSM(Injected(f), t)
           ends == t = EndOfTurn
           closes == t = EndOfThought /\ ~inCodes[i]
           taken == ~done[i] /\ ~ends /\ Masked(i)
<1>1. /\ gen'[i] = IF done[i] \/ ends THEN g ELSE Append(g, t)
      /\ fsms'[i] = IF taken THEN k ELSE f
      /\ inCodes'[i] = (inCodes[i] \/ (~done[i] /\ closes))
  BY DEF Sampled1
<1>2. HeadAt(f, g, inCodes[i], batch.fsm)
  <2>1. i \in DOMAIN fsms
    BY DEF HeadInv, Decoding
  <2> QED
    BY <2>1 DEF HeadInv, Decoding
<1>3. EndOfTurn # EndOfThought
  BY DEF EndOfTurn, EndOfThought
<1>4. taken => t \in Unmasked(Injected(f), Written(i), AudioCodes)
  <2> SUFFICES ASSUME taken PROVE t \in Unmasked(Injected(f), Written(i), AudioCodes)
    OBVIOUS
  <2>1. i \in Active /\ Masked(i)
    BY DEF Active
  <2>2. tok[i] \in Samplable(i)
    BY <2>1 DEF Samples1
  <2> QED
    BY <2>1, <2>2 DEF Samplable
<1>5. taken => batch.fsm /\ ~inCodes[i] /\ ~done[i] /\ ~ends
  BY DEF Masked
<1>6. ~done[i] /\ ~ends /\ ~taken => inCodes[i] \/ ~batch.fsm
  BY DEF Masked
<1>7. taken => \A x \in Written(i) : Describes(x)
  BY <1>5, WritesPlainly DEF Written
<1>8. PlainGenres
  BY WritesPlainly
<1>9. closes => t = EndOfThought /\ ~inCodes[i]
  OBVIOUS
<1>10. t = EndOfThought /\ ~inCodes[i] => closes
  OBVIOUS
<1>11. ends => ~closes
  BY <1>3
<1> HIDE DEF taken, ends, closes
<1>12. CASE taken
  <2>1. gen'[i] = Append(g, t) /\ fsms'[i] = k
    BY <1>1, <1>5, <1>12
  <2>2. inCodes'[i] <=> t = EndOfThought
    BY <1>1, <1>5, <1>9, <1>10, <1>12
  <2>3. HeadAt(f, g, FALSE, TRUE)
    BY <1>2, <1>5, <1>12, Zenon DEF HeadAt
  <2> DEFINE x == gen'[i]
             l == fsms'[i]
  <2>4. l = UpdateFSM(Injected(f), t) /\ x = Append(g, t)
    BY <2>1
  <2> HIDE DEF x, l, f, g, t
  <2>5. HeadTaken(f, l, x, t)
    BY <1>4, <1>7, <1>8, <1>12, <2>3, <2>4, HeadMasked, Zenon
  <2>6. HeadAt(l, x, inCodes'[i], batch.fsm)
    BY <1>5, <1>12, <2>2, <2>5, Zenon DEF HeadAt, HeadTaken
  <2> QED
    BY <2>6 DEF x, l
<1>13. CASE ~taken /\ ~done[i] /\ ~ends
  <2>1. gen'[i] = Append(g, t) /\ fsms'[i] = f
    BY <1>1, <1>13
  <2>2. inCodes[i] => inCodes'[i]
    BY <1>1
  <2> DEFINE x == gen'[i]
  <2>3. x = Append(g, t)
    BY <2>1
  <2> HIDE DEF x, f, g, t
  <2>4. HeadAt(f, x, inCodes'[i], batch.fsm)
    <3>1. Headed(f, g)
      BY <1>2, Zenon DEF HeadAt, Headed
    <3>2. Headed(f, x)
      BY <2>3, <3>1, HeadFree, Zenon
    <3> QED
      BY <1>2, <1>6, <1>13, <2>2, <3>2, Zenon DEF HeadAt, Headed
  <2> QED
    BY <2>1, <2>4 DEF x
<1>14. CASE ~taken /\ (done[i] \/ ends)
  <2>1. gen'[i] = g /\ fsms'[i] = f
    BY <1>1, <1>14
  <2>2. inCodes'[i] <=> inCodes[i]
    BY <1>1, <1>11, <1>14
  <2> QED
    BY <1>2, <2>1, <2>2, Zenon DEF HeadAt
<1> QED
  BY <1>12, <1>13, <1>14

LEMMA PhaseHeads ==
  ASSUME PlainInstance, HeadInv, InPhase1, batch' = batch, InPhase1' \/ stage' = "exited",
         \E tok \in Samples1 : Sampled1(tok)
  PROVE  HeadInv'
<1>1. PICK tok \in Samples1 : Sampled1(tok)
  OBVIOUS
<1>2. Seqs' = Seqs /\ stage # "understand" /\ stage' # "understand"
  BY DEF Seqs, N, InPhase1
<1>3. DOMAIN fsms' = Seqs
  BY <1>1 DEF Sampled1
<1>4. \A i \in Seqs : HeadAt(fsms'[i], gen'[i], inCodes'[i], batch.fsm)
  BY <1>1, <1>2, SampledHead
<1>5. \A i \in DOMAIN fsms' : HeadAt(fsms'[i], gen'[i], inCodes'[i], batch'.fsm)
  BY <1>3, <1>4
<1> QED
  BY <1>2, <1>3, <1>5, Zenon DEF HeadInv

\* A token of an answer.
LEMMA AnswerHeads ==
  ASSUME PlainInstance, HeadInv, AnswerToken
  PROVE  HeadInv'
<1>1. stage = "understand" /\ batch' = batch
  BY DEF AnswerToken
<1>2. PICK tok \in Answers \ {EndOfTurn} :
        /\ gen' = <<Append(gen[1], tok)>>
        /\ fsms' = IF batch.fsm /\ ~inCodes[1] THEN <<UpdateFSM(fsms[1], tok)>> ELSE fsms
        /\ inCodes' = <<inCodes[1] \/ tok = EndOfThought>>
  BY DEF AnswerToken
<1> DEFINE f == fsms[1]
           g == gen[1]
<1>3. /\ DOMAIN fsms = {1} /\ HeadAt(f, g, inCodes[1], batch.fsm)
      /\ batch.fsm /\ ~inCodes[1] => f.forced = NothingForced
  BY <1>1 DEF HeadInv, Decoding
<1>4. gen'[1] = Append(g, tok) /\ (inCodes'[1] <=> inCodes[1] \/ tok = EndOfThought)
  BY <1>2
<1>5. CASE batch.fsm /\ ~inCodes[1]
  <2>1. DOMAIN fsms' = {1} /\ fsms'[1] = UpdateFSM(f, tok)
    BY <1>2, <1>5
  <2>2. Injected(f) = f
    <3>1. f.field \in Constrained => f.forced[f.field] = <<>>
      BY <1>3, <1>5 DEF NothingForced
    <3> QED
      BY <3>1, NotInjected DEF InValue
  <2>3. tok \in Unmasked(f, Freely, AudioCodes)
    BY <1>2, <1>5 DEF Answers
  <2>4. (\A x \in Freely : Describes(x)) /\ PlainGenres
    BY WritesPlainly DEF Freely
  <2>5. HeadAt(f, g, FALSE, TRUE)
    BY <1>3, <1>5, Zenon DEF HeadAt
  <2> DEFINE x == gen'[1]
             k == fsms'[1]
  <2>6. k = UpdateFSM(Injected(f), tok) /\ x = Append(g, tok)
        /\ tok \in Unmasked(Injected(f), Freely, AudioCodes)
    BY <1>4, <2>1, <2>2, <2>3
  <2> HIDE DEF x, k, f, g
  <2>7. HeadAt(k, x, tok = EndOfThought, TRUE) /\ (tok # EndOfThought => Rules(k) = Rules(f))
    <3>1. k = UpdateFSM(Injected(f), tok)
      BY <2>6
    <3>2. x = Append(g, tok)
      BY <2>6
    <3>3. tok \in Unmasked(Injected(f), Freely, AudioCodes)
      BY <2>6
    <3>4. \A y \in Freely : Describes(y)
      BY <2>4
    <3>5. PlainGenres
      BY <2>4
    <3>6. HeadTaken(f, k, x, tok)
      BY <2>5, <3>1, <3>2, <3>3, <3>4, <3>5, HeadMasked, Zenon
    <3> QED
      BY <3>6, Zenon DEF HeadTaken
  <2>8. HeadAt(k, x, inCodes'[1], batch.fsm)
    BY <1>4, <1>5, <2>7, Zenon DEF HeadAt
  <2>9. ~inCodes'[1] => k.forced = NothingForced
    <3>1. ~inCodes'[1] => Rules(k) = Rules(f)
      BY <1>4, <2>7
    <3>2. Rules(k) = Rules(f) => k.forced = f.forced
      BY RulesOf
    <3> QED
      BY <1>3, <1>5, <3>1, <3>2
  <2>10. \A i \in DOMAIN fsms' : HeadAt(fsms'[i], gen'[i], inCodes'[i], batch'.fsm)
    BY <1>1, <2>1, <2>8 DEF x, k
  <2>11. stage' = "understand" \/ stage' = "exited"
    BY <1>1 DEF AnswerToken
  <2> QED
    BY <2>1, <2>9, <2>10, <2>11 DEF HeadInv, Decoding, InPhase1, k
<1>6. CASE ~(batch.fsm /\ ~inCodes[1])
  <2>1. fsms' = fsms
    BY <1>2, <1>6
  <2> DEFINE x == gen'[1]
  <2>2. x = Append(g, tok) /\ (inCodes[1] => inCodes'[1]) /\ (inCodes[1] \/ ~batch.fsm)
    BY <1>4, <1>6
  <2>3. HeadAt(f, x, inCodes'[1], batch.fsm)
    <3> HIDE DEF f, g, x
    <3>1. Headed(f, g)
      BY <1>3, Zenon DEF HeadAt, Headed
    <3>2. Headed(f, x)
      BY <2>2, <3>1, HeadFree, Zenon
    <3> QED
      BY <1>3, <2>2, <3>2, Zenon DEF HeadAt, Headed
  <2>4. DOMAIN fsms' = {1}
    BY <1>3, <2>1
  <2>5. \A i \in DOMAIN fsms' : HeadAt(fsms'[i], gen'[i], inCodes'[i], batch'.fsm)
    BY <1>1, <2>1, <2>3, <2>4
  <2>6. ~(batch'.fsm /\ ~inCodes'[1])
    BY <1>1, <2>2
  <2>7. stage' = "understand" \/ stage' = "exited"
    BY <1>1 DEF AnswerToken
  <2> QED
    BY <2>4, <2>5, <2>6, <2>7 DEF HeadInv, Decoding, InPhase1
<1> QED
  BY <1>5, <1>6

LEMMA HeadStep ==
  ASSUME PlainInstance
  PROVE  PlainInv /\ HeadInv /\ [UnderstandNext]_vars => HeadInv'
<1> SUFFICES ASSUME PlainInv, HeadInv, [UnderstandNext]_vars, Decoding' PROVE HeadInv'
  BY DEF HeadInv
<1>1. CASE \E b : BeginPhase1(b)
  BY <1>1, HeadsBegin
<1>2. CASE \E b : BeginUnderstand(b)
  BY <1>2, SongBegins
<1>3. CASE First1 \/ Decode1
  <2>1. InPhase1 /\ batch' = batch /\ \E tok \in Samples1 : Sampled1(tok)
    BY <1>3 DEF First1, Decode1, InPhase1
  <2>2. InPhase1' \/ stage' = "exited"
    BY <1>3 DEF First1, Decode1, InPhase1
  <2> QED
    BY <2>1, <2>2, PhaseHeads
<1>4. CASE AnswerToken
  BY <1>4, AnswerHeads
<1>5. CASE UNCHANGED vars
  <2>1. stage' = stage /\ batch' = batch /\ fsms' = fsms /\ gen' = gen /\ inCodes' = inCodes
    BY <1>5 DEF vars, seqVars
  <2>2. Seqs' = Seqs
    BY <2>1 DEF Seqs, N
  <2> QED
    BY <2>1, <2>2 DEF HeadInv, Decoding, InPhase1
<1> QED
  BY <1>1, <1>2, <1>3, <1>4, <1>5, DecodingComes

\* A header that the decoder saw through to </think> is well formed whatever
\* the LM sampled, for every vocabulary of values and genres, batch and sequence
\* of calls in which the tokens are plain and the requests' values are on a line.
THEOREM HeadersAreWellFormed ==
  ASSUME PlainInstance
  PROVE  UnderstandSpec => []HeaderWellFormed
<1>1. Init => PlainInv /\ HeadInv
  <2>1. Init => ~Decoding
    BY DEF Init, Decoding, InPhase1
  <2> QED
    BY <2>1, PlainStarts DEF HeadInv
<1>2. PlainInv /\ HeadInv /\ [UnderstandNext]_vars => (PlainInv /\ HeadInv)'
  BY PlainStep, HeadStep
<1>3. HeadInv => HeaderWellFormed
  <2> SUFFICES ASSUME HeadInv, stage \in {"phase1", "understand"},
                      NEW i \in DOMAIN fsms, fsms[i].field = "codes"
               PROVE  IsHeader(fsms[i], Cut(gen[i]))
    BY Zenon DEF HeaderWellFormed, Cut
  <2>1. HeadAt(fsms[i], gen[i], inCodes[i], batch.fsm)
    BY DEF HeadInv, Decoding, InPhase1
  <2> QED
    BY <2>1, Zenon DEF HeadAt
<1> QED
  BY <1>1, <1>2, <1>3, PTL DEF UnderstandSpec
=============================================================================
