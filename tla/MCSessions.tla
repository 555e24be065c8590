------------------------------ MODULE MCSessions ------------------------------
(* One browser with one or two tabs, two requests, two or three refreshes. *)
EXTENDS SessionsProperties, TLC

CONSTANTS t1, t2, r1, r2, f1, f2

AllInFirst == [r \in Requests |-> t1]
OneEach == [r \in Requests |-> IF r = r1 THEN t1 ELSE t2]

===============================================================================
