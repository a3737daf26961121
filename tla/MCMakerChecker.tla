---------------------------- MODULE MCMakerChecker ----------------------------
EXTENDS MakerChecker

\* Code runs show every step; documents share them but for the worktree.
MCKinds == {"code", "document"}
=============================================================================
