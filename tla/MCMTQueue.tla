------------------------------ MODULE MCMTQueue ------------------------------
(* Values for model checking MTQueue.                                       *)
EXTENDS MTQueue

CONSTANTS r1, r2, w1, w2

TwoReaders == {r1, r2}
TwoWriters == {w1, w2}

AllCalls == {"read", "timedRead", "write", "timedWrite", "cycWrite", "clear", "exit"}
=============================================================================
