SPECIFICATION FileSpec
CONSTANT MaxEdits = 0
INVARIANT ReadsBack
