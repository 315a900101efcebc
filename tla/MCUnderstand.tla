----------------------------- MODULE MCUnderstand -----------------------------
(* Instances of LmBatch and Understand for TLC: see the .cfg files. *)
EXTENDS Understand

OneOrTwelve == {<<<<"1">>>>, <<<<"1">>, <<"2">>>>}
SmallValues ==
    [bpm |-> {<<<<"1">>>>}, duration |-> OneOrTwelve, keyscale |-> {<<<<"c">>>>},
     language |-> {<<<<"en">>>>, <<<<"fr">>>>}, timesignature |-> {<<<<"2">>>>}]

Word == <<"w">>
Text == {Word, EndOfTurn}
Caption ==
    Text \cup {<<" ", "w">>, <<".", "\n">>, Newline, <<" ">>, Colon, <<"bpm">>,
               <<"duration">>, <<"language">>, <<"1">>, EndOfThought}
Answer == Text \cup {<<" ", "w">>, <<".", "\n">>, Colon, <<"duration">>, <<"genres">>}
Genre == {<<"hip">>, <<"hip", " ", "hop">>}
GenreWords == {<<"hip">>, <<" ", "hip">>, <<" ", "hop">>, <<"hop">>}
GenreParts == {<<"hip">>, <<" ">>, <<" ", "ho">>, <<"p">>}
GenreInParts == {<<"hip">>, <<"hip", " ", "ho", "p">>}
Lyrics == Text \cup {EndOfThought}
TwoCodes == {<<"code0">>, <<"code1">>}

Nothing == [f \in Constrained |-> <<>>]
All == [bpm |-> <<"2">>, duration |-> <<"2">>, keyscale |-> <<"d">>,
        language |-> <<"de">>, timesignature |-> <<"2">>]
OneLine == [All EXCEPT !["keyscale"] = <<>>]
AllButDuration == [All EXCEPT !["duration"] = <<>>]

Request(given, caption, lyrics, cot, codes) ==
    [given |-> given, caption |-> caption, lyrics |-> lyrics, cot |-> cot, codes |-> codes]
Call(mode, fsm, cfg, reqs) ==
    [mode |-> mode, fsm |-> fsm, cfg |-> cfg, split |-> FALSE, direct |-> FALSE, reqs |-> reqs]
Song(prompt, direct) ==
    [mode |-> "understand", fsm |-> TRUE, direct |-> direct, reqs |-> <<>>, prompt |-> prompt]
Direct(call) == [call EXCEPT !.direct = TRUE]
Split(call) == [call EXCEPT !.split = TRUE]

Free == Request(Nothing, <<"a">>, <<>>, TRUE, FALSE)
Sung == Request(AllButDuration, <<"a">>, <<"l">>, TRUE, FALSE)
Locked(c) == Request(AllButDuration, <<c>>, <<"l">>, FALSE, FALSE)
Whole == Request(All, <<"a">>, <<"l">>, TRUE, FALSE)
Coded == Request(All, <<"a">>, <<"l">>, TRUE, TRUE)
NoCaption == Request(All, <<>>, <<"l">>, TRUE, TRUE)

TwoWhole == Call("generate", TRUE, TRUE, <<Whole, Whole>>)
Compacted == {<<TwoWhole>>}
OneSong == {<<Song(1, FALSE)>>}

\* One call to an LM that was just loaded, or more where the second one may
\* meet what the first one left: a graph, and rows of its sets.
Sequences ==
    {<<c>> : c \in
        {Call("generate", TRUE, FALSE, <<Free>>),
         Call("generate", TRUE, TRUE, <<Sung>>),
         Call("inspire", TRUE, TRUE, <<Locked("a")>>),
         Call("format", TRUE, TRUE, <<Request(OneLine, <<"a">>, <<"l">>, FALSE, FALSE)>>),
         Direct(Call("generate", TRUE, TRUE, <<Locked("a"), Locked("b")>>)),
         Call("generate", TRUE, TRUE, <<Locked("a"), Locked("a")>>),
         Call("generate", FALSE, TRUE, <<Locked("a"), Locked("b")>>),
         Call("generate", TRUE, TRUE, <<Coded>>),
         Call("generate", TRUE, TRUE, <<Free, Whole>>),
         Call("generate", TRUE, TRUE, <<NoCaption>>),
         Song(1, FALSE), Song(36, TRUE), Song(40, TRUE)}}
      \cup {<<TwoWhole, Song(37, FALSE), Split(Direct(TwoWhole))>>,
            <<Direct(TwoWhole), Song(37, FALSE), TwoWhole>>,
            <<Split(TwoWhole), Direct(TwoWhole), Song(36, TRUE)>>,
            <<Song(37, FALSE), Song(37, FALSE)>>, <<Song(37, TRUE), Song(38, FALSE)>>}
=============================================================================
