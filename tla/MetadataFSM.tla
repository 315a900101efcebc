----------------------------- MODULE MetadataFSM -----------------------------
(***************************************************************************)
(* The constrained decoder of src/metadata-fsm.h as operators on the state *)
(* of one MetadataFSM: what apply_mask leaves to sample from and what      *)
(* update does with the token that was sampled.                            *)
(*                                                                         *)
(* A token is named by its text, the sequence of the pieces that matter: a *)
(* line break, a space, a colon, a field name, a digit, anything else.     *)
(* The genres field is written by the understand pass alone, and only when *)
(* a vocabulary was found (src/genre-vocab.cpp).                           *)
(***************************************************************************)
EXTENDS Integers, Sequences, SequencesExt

CONSTANTS
    Values,         \* the token sequences each constrained field may have
    GenreVocab,     \* the genres, each the sequence of its pieces
    GenreTokens,    \* the tokens that have a text
    Span            \* a measure: four more than any value has tokens

Constrained == {"bpm", "duration", "keyscale", "language", "timesignature"}

Newline == <<"\n">>
Colon == <<":">>
EndOfThought == <<"</think>">>
EndOfTurn == <<"<|im_end|>">>

ASSUME ValuesAssumption ==
    /\ Values \in [Constrained -> SUBSET Seq(Seq(STRING))]
    /\ \A f \in Constrained :
        /\ Values[f] # {}
        /\ \A v \in Values[f] :
            v # <<>> /\ Len(v) <= Span - 4 /\ \A q \in DOMAIN v : v[q] # Newline
    /\ Span \in Nat /\ Span > 4

\* The pieces of "bpm:" and its like.
NameTokens(field) == <<<<field>>, Colon>>

\* A fresh copy of the template: reset, skip_caption, skip_genres and
\* force_field.  forced gives the tokens of the values the request brings, or
\* <<>>; no vocabulary, no genres.
FreshFSM(forced, skip, genres) ==
    [field |-> "bpm", part |-> "name", pos |-> 0, acc |-> <<>>, queue |-> <<>>,
     pendingNewline |-> FALSE, ending |-> FALSE, pending |-> <<>>,
     forced |-> forced, skip |-> skip, genres |-> genres /\ GenreVocab # {}]

InCaption(fsm) == fsm.field = "caption" /\ fsm.part = "value"

\* The values that may be of any length: a caption, and a genre with blanks.
Boundless(fsm) == fsm.field \in {"caption", "genres"} /\ fsm.part = "value"

\* current_name_tokens: the states that force a field's name.
InName(fsm) ==
    fsm.part = "name" /\ fsm.field \in Constrained \cup {"caption", "genres"}

\* next_name_state.
Following == [bpm |-> "caption", caption |-> "duration", duration |-> "genres",
              genres |-> "keyscale", keyscale |-> "language", language |-> "timesignature",
              timesignature |-> "think_end"]
NextField(fsm) ==
    CASE fsm.field = "bpm" /\ fsm.skip           -> "duration"
      [] fsm.field = "duration" /\ ~fsm.genres   -> "keyscale"
      [] OTHER                                   -> Following[fsm.field]

Leave(fsm) ==
    [fsm EXCEPT !.field = NextField(fsm), !.part = "name", !.pos = 0, !.acc = <<>>]

-----------------------------------------------------------------------------
(* apply_mask.                                                               *)

\* The values that are in the field's tree: force_field leaves just one.
Legal(fsm, field) ==
    IF fsm.forced[field] # <<>> THEN {fsm.forced[field]} ELSE Values[field]

\* Slip: the line of a forced value is not ended.
InjectedOpen(fsm) ==
    IF /\ fsm.queue = <<>>
       /\ fsm.part = "value"
       /\ fsm.field \in Constrained
       /\ fsm.forced[fsm.field] # <<>>
    THEN [fsm EXCEPT !.queue = fsm.forced[fsm.field]]
    ELSE fsm

\* The forced value is queued when the mask first meets the value state.
Injected(fsm) ==
    IF /\ fsm.queue = <<>>
       /\ fsm.part = "value"
       /\ fsm.field \in Constrained
       /\ fsm.forced[fsm.field] # <<>>
    THEN [fsm EXCEPT !.queue = Append(fsm.forced[fsm.field], Newline)]
    ELSE fsm

\* PrefixTree::get, and the newline where the tree ends.
Continuations(fsm) ==
    LET lines == {Append(v, Newline) : v \in Legal(fsm, fsm.field)}
        next == {l[Len(fsm.acc) + 1] : l \in {l \in lines : IsStrictPrefix(fsm.acc, l)}}
    IN  IF next = {} THEN {Newline} ELSE next

\* The text of tokens, without the blanks around it or behind it.
NoTail(text) == SubSeq(text, 1, SelectLastInSeq(text, LAMBDA a : a # " "))
Trimmed(text) == Reverse(NoTail(Reverse(NoTail(text))))

\* has_prefix and next_bytes of the vocabulary.
HasGenre(text) == \E g \in GenreVocab : IsPrefix(text, g)
NextPieces(text) == {g[Len(text) + 1] : g \in {g \in GenreVocab : IsStrictPrefix(text, g)}}

\* The tokens that go on with a genre, the blanks behind them left aside.
WordsAfter(text) ==
    {t \in GenreTokens :
        /\ NoTail(t) # <<>>
        /\ {Head(t), Head(Trimmed(t))} \cap NextPieces(text) # {}
        /\ HasGenre(IF text = <<>> THEN Trimmed(t) ELSE text \o NoTail(t))}

\* allowed_genre_tokens: the tokens that keep the text a prefix of a genre,
\* blanks between them where a genre goes on with one, and the newline behind
\* a whole genre, or when the text has left the vocabulary.
GenreTokensAllowed(fsm) ==
    LET text == Trimmed(FlattenSeq(fsm.acc))
        blanks == {t \in GenreTokens : NoTail(t) = <<>> /\ " " \in NextPieces(text)}
        all == blanks \cup WordsAfter(text) \cup (IF text \in GenreVocab THEN {Newline} ELSE {})
    IN  IF ~HasGenre(text) \/ all = {} THEN {Newline} ELSE all

\* What is left of the tokens free to choose from, for a state that Injected
\* has been applied to.  audio are the audio codes.
Unmasked(fsm, free, audio) ==
    IF fsm.queue # <<>> THEN {Head(fsm.queue)}
    ELSE CASE InName(fsm)               -> {NameTokens(fsm.field)[fsm.pos + 1]}
           [] InCaption(fsm)            -> free \ audio
           [] fsm.field = "think_end"   -> {EndOfThought}
           [] fsm.field = "codes"       -> free
           [] fsm.field = "genres" /\ ~InName(fsm) -> GenreTokensAllowed(fsm)
           [] OTHER                     -> Continuations(fsm)

-----------------------------------------------------------------------------
(* update.                                                                   *)

BeforeColon(text) == SubSeq(text, 1, SelectInSeq(text, LAMBDA a : a = ":") - 1)

\* Slip: the caption may be ended by the name of any field.
KnownFieldAny(fsm, name) ==
    IF name \in {<<f>> : f \in Constrained} THEN name[1] ELSE "none"

\* field_name_to_value_state: the fields that follow the caption.
KnownField(fsm, name) ==
    IF \/ name \in {<<f>> : f \in Constrained \ {"bpm"}}
       \/ fsm.genres /\ name = <<"genres">>
    THEN name[1] ELSE "none"

\* The line after the caption, as far as it has been sampled: once it names a
\* field, that field's value is next.  A name that is not known stays pending.
EndCaption(fsm, line) ==
    LET field == IF Contains(line, ":") THEN KnownField(fsm, NoTail(BeforeColon(line))) ELSE "none"
    IN  IF field = "none"
        THEN [fsm EXCEPT !.pendingNewline = FALSE, !.ending = TRUE, !.pending = line]
        ELSE [fsm EXCEPT !.pendingNewline = FALSE, !.ending = FALSE, !.pending = <<>>,
                         !.field = field, !.part = "value", !.pos = 0, !.acc = <<>>]

Consume(fsm) ==
    LET rest == [fsm EXCEPT !.queue = Tail(fsm.queue)]
    IN  IF rest.queue = <<>> THEN Leave(rest) ELSE rest

UpdateName(fsm) ==
    IF fsm.pos + 1 < Len(NameTokens(fsm.field))
    THEN [fsm EXCEPT !.pos = fsm.pos + 1]
    ELSE [fsm EXCEPT !.pos = fsm.pos + 1, !.part = "value", !.acc = <<>>]

UpdateCaption(fsm, token) ==
    CASE fsm.pendingNewline /\ Head(token) = " " -> [fsm EXCEPT !.pendingNewline = FALSE]
      [] fsm.pendingNewline /\ Head(token) # " " -> EndCaption(fsm, token)
      [] fsm.ending /\ ~fsm.pendingNewline -> EndCaption(fsm, fsm.pending \o token)
      [] OTHER -> [fsm EXCEPT !.pendingNewline = Contains(token, "\n")]

UpdateValue(fsm, token) ==
    IF token = Newline THEN Leave(fsm) ELSE [fsm EXCEPT !.acc = Append(fsm.acc, token)]

UpdateFSM(fsm, token) ==
    IF fsm.queue # <<>> THEN Consume(fsm)
    ELSE CASE InName(fsm)               -> UpdateName(fsm)
           [] InCaption(fsm)            -> UpdateCaption(fsm, token)
           [] fsm.field = "think_end"   -> [fsm EXCEPT !.field = "codes"]
           [] fsm.field = "codes"       -> fsm
           [] OTHER                     -> UpdateValue(fsm, token)

-----------------------------------------------------------------------------
(* What the decoder is for.                                                  *)

\* The fields that may follow the caption, in the order of the header.
Order(fsm) ==
    IF fsm.genres THEN <<"duration", "genres", "keyscale", "language", "timesignature">>
    ELSE <<"duration", "keyscale", "language", "timesignature">>

\* The values that may stand in a header: a genre may have blanks around it.
InHeader(fsm, field, value) ==
    IF field = "genres" THEN Trimmed(FlattenSeq(value)) \in GenreVocab
    ELSE value \in Legal(fsm, field)

\* The field that a text ends with the name of, on a line of its own.
NamedAtEnd(order, text) ==
    {k \in DOMAIN order :
        /\ text # <<>> /\ Last(text) = ":"
        /\ IsSuffix(<<"\n", order[k]>>, NoTail(Front(text)))}

\* The first newline from i on, and a value that stands from i up to it.
NewlineFrom(header, i) == SelectInSubSeq(header, i, Len(header), LAMBDA t : t = Newline)
ValueFrom(fsm, header, field, i) ==
    /\ NewlineFrom(header, i) # 0
    /\ InHeader(fsm, field, SubSeq(header, i, NewlineFrom(header, i) - 1))

\* Where the lines of a header begin from the k-th on, if that one begins at i.
Begins(order, header, k, i) ==
    LET begin[m \in k .. Len(order) + 1] ==
            IF m = k THEN i ELSE NewlineFrom(header, begin[m - 1] + 2) + 1
    IN  begin

\* From i on there are the fields from the k-th on, and </think>.
LinesFrom(fsm, header, k, i) ==
    LET order == Order(fsm)
        begin == Begins(order, header, k, i)
    IN  /\ \A m \in k .. Len(order) :
            /\ SubSeq(header, begin[m], begin[m] + 1) = NameTokens(order[m])
            /\ ValueFrom(fsm, header, order[m], begin[m] + 2)
        /\ SubSeq(header, begin[Len(order) + 1], Len(header)) = <<EndOfThought>>

\* The caption that begins at j has been ended before i, by the name of these.
EndingAt(fsm, header, j, i) ==
    NamedAtEnd(Order(fsm), FlattenSeq(SubSeq(header, j, i - 1)))

\* A header: the bpm, the caption unless it is skipped, and then, from the first
\* field whose name follows the caption, all the fields, each once, in order
\* and with a legal value.  The LM chooses that field, so those before it may
\* be missing.
IsHeader(fsm, header) ==
    \E b \in Legal(fsm, "bpm") :
        LET open == NameTokens("bpm") \o b \o <<Newline>>
            j == Len(open) + 3
            ends == {i \in DOMAIN header : i > j /\ EndingAt(fsm, header, j, i) # {}}
        IN  /\ IsPrefix(open, header)
            /\ IF fsm.skip THEN LinesFrom(fsm, header, 1, Len(open) + 1)
               ELSE /\ SubSeq(header, j - 2, j - 1) = NameTokens("caption")
                    /\ \E i \in ends :
                        /\ \A n \in ends : i <= n
                        /\ \E k \in EndingAt(fsm, header, j, i) :
                            /\ ValueFrom(fsm, header, Order(fsm)[k], i)
                            /\ LinesFrom(fsm, header, k + 1, NewlineFrom(header, i) + 1)

\* The tokens whose line breaks and colons the decoder does not miss: either is
\* the last piece, and a token that begins with a blank breaks no line.
Plain(t) ==
    /\ t \in Seq(STRING) /\ t # <<>>
    /\ \A q \in 1 .. Len(t) - 1 : t[q] \notin {"\n", ":"}
    /\ t[1] = " " => t[Len(t)] # "\n"

\* The tokens that write the genres of the vocabulary and nothing else: none
\* ends in a blank, and there is always one that goes on.
PlainGenres ==
    /\ GenreVocab \subseteq Seq(STRING)
    /\ \A t \in GenreTokens : t \in Seq(STRING) /\ t # <<>> /\ t # Newline /\ t[Len(t)] # " "
    /\ \A x \in GenreVocab : \A n \in 0 .. Len(x) - 1 :
        SubSeq(x, 1, n) \in GenreVocab \/ WordsAfter(SubSeq(x, 1, n)) # {}

\* How far the header is from its end: the fields that are left and what is
\* left of the present one, where a caption and a genre may be of any length.
FieldsLeft ==
    [bpm |-> 8, caption |-> 7, duration |-> 6, genres |-> 5, keyscale |-> 4, language |-> 3,
     timesignature |-> 2, think_end |-> 1, codes |-> 0]
Distance(fsm) ==
    Span * FieldsLeft[fsm.field]
      + IF fsm.queue # <<>> THEN Len(fsm.queue)
        ELSE CASE InName(fsm)                           -> Span - 1 - fsm.pos
               [] fsm.field \in {"think_end", "codes"}  -> 0
               [] Boundless(fsm)                        -> 0
               [] OTHER                                 -> Span - 3 - Len(fsm.acc)
=============================================================================
