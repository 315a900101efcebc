CONSTANTS
    Values <- SmallValues
    GenreVocab <- Genre
    GenreTokens <- GenreWords
    Span = 8
    Scenarios <- Compacted
    MaxBatch = 2
    KvSets = 4
    MaxSeq = 40
    Window = 16
    MaxNew = 28
    MaxAnswer = 30
    AnswerTokens <- Answer
    WordyTokens = 9
    MaxGenre = 3
    MaxCodes = 2
    CaptionTokens <- Caption
    LyricsTokens <- Lyrics
    DullTokens <- Text
    FreeTokens = 10
    AudioCodes <- TwoCodes
SPECIFICATION UnderstandSpec
INVARIANTS KvOwn2
