---------------------------- MODULE MCLogStream ----------------------------
EXTENDS LogStream
CONSTANT None

OneTailOrNone == {None, 1}
============================================================================
