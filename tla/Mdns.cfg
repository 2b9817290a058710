CONSTANTS
    i1 = i1
    i2 = i2
    t1 = t1
    t2 = t2
    Inst = {i1, i2}
    Type = {t1, t2}
    LongTxt <- LongStrings
    HostName = host
    EnumName = enum
    Elsewhere = elsewhere
    Broken = broken
    Foreign = foreign
    MaxServices = 2
    Asked <- SomeQuestions
    MaxQuestions = 2
    MaxDepth = 2
SPECIFICATION Spec
INVARIANT AnswersAsAsked
