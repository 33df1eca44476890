----------------------------- MODULE MCAccounts -----------------------------
EXTENDS Accounts

CONSTANTS u1, u2, u3, r1, other, t1, t2

MCSeedGrants == [r \in SystemRoles |-> Actions]
=============================================================================
