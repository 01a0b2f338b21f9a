SPECIFICATION MemberSpec
CONSTANTS
    Nobody = Nobody
    Nothing = Nothing
    Failed = Failed
    m1 = m1
    m2 = m2
    Members = {m1, m2}
    Window = 2
    MaxEvents = 3
INVARIANT MembersAreSound
PROPERTY MembershipIsFollowed
CHECK_DEADLOCK FALSE
