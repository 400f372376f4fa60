---------------------------- MODULE MCBrowserPhone ----------------------------
(* Instances of BrowserPhone for TLC.                                        *)
EXTENDS BrowserPhone, TLC

CONSTANTS s1, s2, d1, d2, g1, g2, a1, a2

Sockets1 == {s1}
Sockets2 == {s1, s2}
Dials1 == {d1}
Dials2 == {d1, d2}
NoDials == {}
Prompts1 == {g1}
Prompts2 == {g1, g2}
NoAgents == {}
Agents1 == {a1}
Agents2 == {a1, a2}
NoOffers == {}
SecondAgent == {a2}
===============================================================================
