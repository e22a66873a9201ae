--------------------------- MODULE MCDirectorySync ---------------------------
EXTENDS DirectorySync

AllValues == [version : 1 .. MaxVersion, archived : BOOLEAN]
==============================================================================
