----------------------------- MODULE MCFollowRun -----------------------------
EXTENDS FollowRun, AnalysedPrograms
=============================================================================
