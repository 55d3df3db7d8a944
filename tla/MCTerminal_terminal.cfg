\* Three clients: telnet commands split over reads, floods, pages, snoopers, and a link that breaks.
SPECIFICATION Spec
CONSTANTS
    Terms = {"ann", "bob", "cat"}
    Bytes <- MCBytes
    AnsiTerms = {"xterm"}
    Scenes <- MCScenes
    MaxOut = 4
    MaxBacklog = 2
    MaxLine = 2
    MaxIncoming = 10
    ReadSize = 3
    HelpPages = 2
CHECK_DEADLOCK FALSE
INVARIANTS
    SplitReadsAgree
    SnoopLinksAgree
    NoSnoopLoop
    EndedOnce
PROPERTIES
    EventuallyShown
