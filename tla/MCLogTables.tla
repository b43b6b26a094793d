------------------------------ MODULE MCLogTables ------------------------------
EXTENDS LogTables

MCKinds == {"main", "search"}
MCMarks == {0, 1}
===============================================================================
