---------------------------- MODULE MCLogWatcher ----------------------------
EXTENDS LogWatcher

MCNoPoison == {}
MCPoison == {2}
MCKey == <<1, 2, 3, 1>>
MCOwnKeys == <<1, 2>>
=============================================================================
