SPECIFICATION MCSpec
CHECK_DEADLOCK FALSE
CONSTANTS
    N = 3
    MaxEdits = 2
    MaxTries = 3
    EditsWhileSending = FALSE
    Subscribers = {u1, u2, u3, u4}
    Async = {u3, u4}
    Publishers = {pub}
    Tasks = {u1, u2, u3, u4}
    Workers = {s1, s2}
    QueueSize = 1
    Submissions = {s1, s2, s3}
    SubmissionID <- SharedID
    s1 = s1
    s2 = s2
    s3 = s3
    u1 = u1
    u2 = u2
    u3 = u3
    u4 = u4
    pub = pub
    NoFile = NoFile
    Unset = Unset
    Zero = Zero
    None = None
INVARIANT ErrorCountIsAccurate
