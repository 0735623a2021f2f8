--------------------------- MODULE MCPlaybackSync ---------------------------
EXTENDS PlaybackSync

Everything == {"seek", "lateSeek", "joinerPause", "joinerResume",
               "joinerSeek", "skip", "getFails", "setFails", "slow",
               "lateState", "stop"}
LateSeek == {"lateSeek"}
=============================================================================
