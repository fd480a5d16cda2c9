-------------------------------- MODULE MCHeap --------------------------------
EXTENDS Heap
===============================================================================
