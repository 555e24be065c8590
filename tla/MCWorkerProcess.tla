--------------------------- MODULE MCWorkerProcess ---------------------------
EXTENDS WorkerProcessProperties

CONSTANTS w1, w2, c1, c2
===============================================================================
