\* The application around two kinds of session, with a Tor that may do anything.
SPECIFICATION ShellSpec
CONSTANTS
    Done = 1
    MaxReplyLines = 3
    Char <- Chars
    Paste <- Pastes
    ValidNickname <- Names
    MaxKeys = 1
INVARIANTS
    NothingLeftRunning
    RepliesMatchCommands
    ScreenFits
    PasswordConfirmed
    FormNotLost
PROPERTIES
    NothingHangs
    TerminalLossQuits
