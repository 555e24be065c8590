----------------------------- MODULE MCPlayerApp -----------------------------
EXTENDS PlayerAppProperties

CONSTANTS a, b, ana
===============================================================================
