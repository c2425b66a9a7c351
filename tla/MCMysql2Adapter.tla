-------------------------- MODULE MCMysql2Adapter --------------------------
EXTENDS Mysql2Adapter

\* Zero and negative sizes are raised to one row; 3 has a low-water mark below
\* its high-water mark with a row between them.
SomeBatchSizes == { -1, 1, 2, 3, 4 }
=============================================================================
