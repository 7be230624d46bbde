SPECIFICATION ReaderSpec
CONSTANTS
    None = None
    MIN_USRNAME_SIZE = 3
    MAX_USRNAME_SIZE = 4
    MIN_PWD_SIZE = 1
    MAX_PWD_SIZE = 2
    MAX_MSG_SIZE = 2
    MIN_N = 1
    MAX_N = 20
    MAX_FILE_SIZE = 3
    Files <- MCFiles
    Users <- MCUsers
    Dirs <- MCDirs
CHECK_DEADLOCK FALSE
INVARIANTS
    ReadsByGrammar
    CommandsSurvive
    AnswersSurvive
    FilesSurvive
