SPECIFICATION Spec
CONSTANTS
    Tab = {t1, t2}
    Client = {c}
    GoodName = {"Unknown", "Ann"}
    BadName = {"too long"}
    TabPosts <- FromTabs
    ClientPosts <- FromClients
    Limit = 2
    MaxSent = 3
INVARIANTS AnswersTrue OwnPostsShown
SYMMETRY Tabs
CHECK_DEADLOCK FALSE
