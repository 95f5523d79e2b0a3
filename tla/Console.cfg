\* Two users and two tabs; pages of two rows; two clicks; scripts of four
\* lexemes; four request threads and the writer; canvas: three states, two images.
CONSTANTS
    Visitor = {1, 2}
    Tab = {t1, t2}
    MaxTokens = 3
    PageSize = 2
    AtFirst = 3
    MaxRows = 5
    SeedUsers = 1
    SeedPosts = 2
    MaxComments = 2
    MaxBatches = 2
    MaxRetitles = 1
    MaxClicks = 2
    ProxyThreads = 1
    MaxHits = 3
    MaxProxies = 2
    MaxParts = 4
    MaxLexemes = 4
    User = {u1, u2, u3}
    Admins = {u1, u2}
    Reason = {r1, r2}
    MaxRequests = 5
    Thread = {h1, h2, h3, h4, writer}
    PoolSize = 5
    MaxAttempts = 3
    MaxHistory = 3
    MaxEdits = 2
    MaxPending = 2
SPECIFICATION ConsoleSpec
INVARIANTS SameVisitor LogoutLasts FormsStayGood WalkComplete SeededOnce
    NoStaleText BlockAudited NobodySleeps Settled SplitsRight SecurityRight
PROPERTIES RerunsChangeNothing ButtonReturns Resumes
CHECK_DEADLOCK FALSE
