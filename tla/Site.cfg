SPECIFICATION Spec
CONSTANTS
    Texts <- MCTexts
    Urls <- MCUrls
    Numbers <- MCNumbers
    default_port = 6
    MaxShort = 7
    Contents <- MCContents
    Others <- MCOthers
    Finds <- MCFinds
    MaxFileChanges = 2
INVARIANTS
    TypeOK
    LongestPrefixIsCalled
    StartsAsConfigured
    
    ConfigIsTheText
    
