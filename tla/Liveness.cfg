CONSTANTS
    p1 = p1
    p2 = p2
    None = None
SPECIFICATION FairSpec
PROPERTIES EventuallySettled EdgeImplementsContract FiresImplementContract EventuallySeen ActsAreDeliberated
CHECK_DEADLOCK FALSE
