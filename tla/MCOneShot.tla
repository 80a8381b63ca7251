----------------------------- MODULE MCOneShot ------------------------------
EXTENDS OneShot
=============================================================================
