------------------------------ MODULE MCBuffer ------------------------------
EXTENDS Buffer

CONSTANTS a, b

SomeBytes == {a, b}
SomeBlocks == {<<a>>, <<b>>, <<a, b>>, <<b, b, a>>}
=============================================================================
