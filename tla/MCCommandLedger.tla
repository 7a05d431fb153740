-------------------------- MODULE MCCommandLedger --------------------------
EXTENDS CommandLedger
CONSTANTS c1, c2, c3, r1, r2, n1, n2, n3, n4

Command(id, run, expected, kind, nonce) ==
    [id |-> id, run |-> run, expected |-> expected, kind |-> kind,
     nonce |-> nonce]

\* A Run that is started, admitted and used, a second Run whose proof has a
\* nonce of the first, command ids used for two commands, a command repeated
\* with a new proof, and one sent at a stale version.
MCEnvelopes ==
    {Command(c1, r1, 0, "start", n1),
     Command(c1, r1, 0, "start", n2),
     Command(c2, r1, 1, "admit", n2),
     Command(c3, r1, 2, "execute", n3),
     Command(c3, r1, 1, "execute", n3),
     Command(c2, r2, 0, "start", n1),
     Command(c2, r2, 0, "start", n4)}
=============================================================================
