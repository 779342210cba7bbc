---------------------------- MODULE MCBuildStamps ----------------------------
EXTENDS BuildStamps
=============================================================================
