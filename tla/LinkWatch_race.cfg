SPECIFICATION FairSpec
CONSTANTS
    MaxNews = 1
    Sfp = FALSE
PROPERTIES
    LinkFollows
