----------------------------- MODULE MCHubAuth -----------------------------
(* The keys, addresses and clocks of the clients in TLC's instances of HubAuth.    *)
EXTENDS HubAuth

CONSTANTS A, B, home, good, bad

OneAddress == [c \in Client |-> home]

\* Client A offers a key that is not allowed first.
OneBadKey == [c \in Client |-> IF c = A THEN <<bad, good>> ELSE <<good>>]

\* A's clock is behind by the whole margin, B's is not.
Clocks == [c \in Client |-> IF c = A THEN Margin ELSE 0]
=============================================================================
