CONSTANTS
    MaxMail = 3
    Conversations = {"a", "b"}
    ConversationOf <- MCConversationOf
    Syncs = {s1, s2}
    Kill = kill
    Connect = connect
    Nobody = nobody
    MaxVisits = 1
    MaxFaults = 1
SPECIFICATION FairSpec
INVARIANTS TypeOK CursorCoversMail
PROPERTIES MailArrives
CHECK_DEADLOCK FALSE
