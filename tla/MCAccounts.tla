------------------------------ MODULE MCAccounts ------------------------------
\* A small instance of Accounts: ann signs in twice, ben once.
EXTENDS Accounts

CONSTANTS signA1, signA2, signB, eraseX, eraseY, ann, ben

MCSubjectOf == [r \in SignIns |-> IF r \in {signA1, signA2} THEN ann ELSE ben]
=============================================================================
