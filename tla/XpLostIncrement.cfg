SPECIFICATION Spec
CONSTANTS
    c1 = c1  c2 = c2  u1 = u1  u2 = u2
    m1 = m1  m2 = m2  m3 = m3  d1 = d1  d2 = d2
    m1sent = m1sent  m2sent = m2sent  m3sent = m3sent
    liked = liked  report = report  adjusted = adjusted
    NoChat = NoChat
    Chats = {c1}
    Users = {u1}
    Messages = {m1}
    Days = {d1}
    Txns = {m1sent, report}
    Job <- MCJob
    GroupCap = 3
    GlobalCap = 4
    Requests = {0, 2}
    ReactionXp = 3
    Reward = 5
    MaxFaults = 0
INVARIANT NoIncrementLost
CHECK_DEADLOCK FALSE
