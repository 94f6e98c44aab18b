SPECIFICATION PortalSpec
CONSTANTS
    r1 = r1  r2 = r2  r3 = r3  t1 = t1  m1 = m1
    Reqs <- MCReqs
    Tabs <- MCTabs
    Edits <- MCEdits
    NoEdit = NoEdit
    NoReq = NoReq
    NotAsked = NotAsked
    Pending = Pending
PROPERTIES ApprovedWasReviewed
\* The portal may rest when every call is answered and the port is taken.
CHECK_DEADLOCK FALSE
