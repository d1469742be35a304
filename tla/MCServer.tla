------------------------------ MODULE MCServer ------------------------------
(* Two clients: one uses transactions, the other sends single statements.  *)
EXTENDS Server

CONSTANTS c1, c2

MCKinds == [c \in {c1, c2} |-> IF c = c1 THEN {"begin", "write", "commit", "rollback"}
                                        ELSE {"write", "wrong", "bad", "crash"}]
MCMaxStmts == [c \in {c1, c2} |-> IF c = c1 THEN 3 ELSE 1]
=============================================================================
