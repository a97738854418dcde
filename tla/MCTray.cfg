SPECIFICATION FairSpec
INVARIANTS TypeOK ReplaceQuietly
PROPERTIES StopHonest StartingEnds
