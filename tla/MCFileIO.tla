------------------------------ MODULE MCFileIO ------------------------------
EXTENDS FileIO

CONSTANTS a, x, y

MCText == {<<x>>, <<y, y>>}
=============================================================================
