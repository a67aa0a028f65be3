------------------------- MODULE MCProviderManager -------------------------
(* Two agents and four providers: two named at first (one a CDN link that   *)
(* can expire, one an mcf server), two CDN links the web service may name   *)
(* later.                                                                   *)
EXTENDS ProviderManager

CONSTANTS a1, a2, u1, u2, u3, u4

MCIds == {a1, a2}
MCUrls == {u1, u2, u3, u4}
MCFirst == <<u1, u2>>
MCCdn == {u1, u3, u4}
=============================================================================
