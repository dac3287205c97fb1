---------------------------- MODULE MCInstallation ----------------------------
EXTENDS Installation
CONSTANTS p1, p2
=============================================================================
