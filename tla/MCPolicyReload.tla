---------------------------- MODULE MCPolicyReload ----------------------------
(* Small instances of PolicyReload: two types, of which the built-in policy *)
(* pseudonymizes one and tokenizes the other.                               *)
EXTENDS PolicyReload

CONSTANTS w1

Both == {"IP", "EMAIL"}
Shipped == [redact |-> {}, pseudonymize |-> {"IP"}, tokenize |-> {"EMAIL"}]
AllTokenized == [redact |-> {}, pseudonymize |-> {}, tokenize |-> Both]
AllRedacted == [redact |-> Both, pseudonymize |-> {}, tokenize |-> {}]
EmailForgotten == [redact |-> {"IP"}, pseudonymize |-> {}, tokenize |-> {}]
EmailTwice == [redact |-> {"EMAIL"}, pseudonymize |-> {"IP"}, tokenize |-> {"EMAIL"}]

\* Two valid policies besides the built-in one, an incomplete and an
\* ambiguous one, a file that does not parse and no file.
AnyFile == {AllTokenized, AllRedacted, EmailForgotten, EmailTwice, Malformed, Missing}
ValidFiles == {Shipped, AllTokenized, AllRedacted}
=============================================================================
