CONSTANTS
    Width = 3
    Height = 5
    Top = 1
    Bottom = 3
    Letters = {a, b}
    Blank = blank
    Newline = newline
    Frame = frame
    Mark = mark
    PromptLen = 2
    LineMax = 4
SPECIFICATION Spec
INVARIANTS TypeOK EchoIsTheLine
PROPERTIES FrameIsKept
