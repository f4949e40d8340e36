SPECIFICATION FairToastSpec
CONSTANTS
    Body = {"error"}
    maxVisible = 4
    MaxPosts = 7
CHECK_DEADLOCK FALSE
INVARIANTS ToastTypeOK NoToastTaken
PROPERTIES ToastsGo
