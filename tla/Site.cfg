\* Either name may be the administrator's; two tabs share the cookie, so that a
\* late answer of one brings back a session the other ended.
CONSTANTS
    root = root
    ann = ann
    rootMail = rootMail
    annMail = annMail
    Browser = {b1}
    Tabs = 2
    Threads = 2
    Name = {root, ann}
    Mail = {rootMail, annMail}
    AdminName = {root, ann}
    BootMail <- MCBootMail
    MaxPosts = 1
    File = {f1}
    MaxViews = 2
SPECIFICATION Spec
INVARIANTS AdminEnsured RoleCurrent OwnText ViewsCounted RowHasFile
PROPERTIES DeletedStays
CHECK_DEADLOCK FALSE
