SPECIFICATION MCSpec
CONSTANTS
    Letters = {a}
    CR = CR
    LF = LF
    Nul = a
    Cap = 3
    Ceiling = 4
    Piece = 2
    MaxFile = 4
    MaxSought = 2
    MaxLimit = 2
    MaxKept = 3
    Block = 4
    MaxOutput = 16
    Visited = 2
    Most = 3
    MaxContext = 2
    MaxFiles = 3
    MaxLines = 3
    PROMPT = PROMPT
    CONTINUATION = CONTINUATION
    Foreign = Foreign
    Word = Word
    Widths = {2, 4}
    Height = 9
    MaxText = 2
    MaxTurns = 1
    MaxResizes = 2
CHECK_DEADLOCK FALSE
INVARIANT PagesAreTheFile
INVARIANT EditIsLocal
INVARIANT LeavesABeginning
INVARIANT AnswersAreHonest
INVARIANT OutputIsWhole
INVARIANT PanelShowsTheFrame
