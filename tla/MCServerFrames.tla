--------------------------- MODULE MCServerFrames ---------------------------
EXTENDS ServerFrames

\* One unit stands for the length prefix, the encryption header and the
\* smallest event alike.  In this order: flagged events of every rotation, a
\* heartbeat, a kernel event shorter than the server's, a foreign key, a
\* truncated body, a zero length and a length above MaxBody.
Good(r) == [len |-> 3, enc |-> 2, rot |-> r, key |-> r, type |-> 1, dlen |-> 1, sus |-> TRUE]

MCFrames ==
    {Good(r) : r \in Rot}
        \cup {[Good(1) EXCEPT !.type = 100],
              [Good(1) EXCEPT !.len = 2, !.enc = 1],
              [Good(1) EXCEPT !.key = Foreign],
              [Good(1) EXCEPT !.enc = 3],
              [Good(1) EXCEPT !.len = 0],
              [Good(1) EXCEPT !.len = MaxBody + 1]}

\* What the kernel module sends: 46 bytes of header and a 306-byte event.
KernelFrames ==
    {[len |-> 352, enc |-> 306, rot |-> 0, key |-> 0, type |-> 100, dlen |-> 32, sus |-> FALSE]}
=============================================================================
