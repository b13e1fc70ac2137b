---------------------------- MODULE MCCollation ----------------------------
EXTENDS Collation

CONSTANTS A, B

Xt(who, nonce, class, weight, to, value) ==
    [who |-> who, nonce |-> nonce, class |-> class, weight |-> weight, length |-> 100,
     to |-> to, value |-> value]

\* Two that compete for A's first nonce: one leaves A without the existential deposit,
\* the other just fits a block with a busy message queue; one of B that just exceeds the
\* reserved part and brings A back.
MCExtrinsics ==
    { Xt(A, 0, "Normal", 5000, B, 13500),
      Xt(A, 0, "Normal", 10353, B, 0),
      Xt(B, 0, "Operational", 4000, A, 8000) }

MCAuthorities == <<"Alice", "Bob">>

=============================================================================
