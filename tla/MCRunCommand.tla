----------------------------- MODULE MCRunCommand -----------------------------
(* One request to a small fleet, from rv puppet run or from anything else: instances *)
(* for TLC.                                                                          *)
EXTENDS RunCommand

MCNodes == {"n1", "n2"}

\* No prefix (an empty first element), the usual one, a longer one, and one that is itself
\* called puppet.
MCPrefixes == {<<"">>, <<"rv">>, <<"site", "rv">>, <<"puppet">>}
===============================================================================
