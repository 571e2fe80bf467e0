CONSTANTS
    FZKTOP = {3}
    DEPEND = {4}
    NUMBER = {7}
    FZK_KGU = {5}
    TAI_KGU = {6}
    Hinsi = {1, 2, 3, 4, 5, 6, 7, 8}
    TANKANJI = 3
    IKKATU = 4
    MEISI_6 = 5
    D_MEISI_1 = 6
    Right = {1, 2, 3, 4, 5}
    R_CUT = 4
    R_FZKKGU = 5
    R_MEISI = 1
    R_DAIMEISI = 1
    Word <- MCWord
    Numeral <- MCNumeral
    Block <- MCBlock
    Prefix <- MCPrefix
    Suffix <- MCSuffix
    Connadr <- MCConnadr
    Conj <- MCConj
    Row <- MCRow
    Fzk <- MCFzk
    Cnct <- MCCnct
    T_SHUUJO = {3}
    T_KANOU = {1, 2, 4}
    MAXFLVL = 2
    MAXCLINPUTLEN = 4
    Sel <- MCSel
    SELARB = 1
    MAXKOUHONUMBER = 5
    STUDYMAX = 2
    Texts <- MCTexts
    Rooms = {2, 9}
    Protos = {"EUC", "SJIS"}
    CHOICES = 1
SPECIFICATION Spec
INVARIANTS Covered PoolExact CursorExact RepliesConvert ChosenFirst
PROPERTY StepsLeadOn
CHECK_DEADLOCK FALSE
