---------------------------- MODULE MCSshGateway ----------------------------
EXTENDS SshGateway, TLC

CONSTANTS real, decoy, eviltwin, admin123, c1, c2

MCUsers == {real, decoy}
MCPasswords == {eviltwin, admin123}
MCAllowedCreds == {<<decoy, admin123>>}
MCChannels == {c1, c2}
MCSymmetry == Permutations(MCChannels)
=============================================================================
