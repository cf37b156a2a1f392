----------------------------- MODULE MCContacts -----------------------------
(***************************************************************************)
(* Two people and two personas of one seat each; only one has a choice.    *)
(***************************************************************************)
EXTENDS Contacts, TLC

CONSTANTS h1, h2, p1, p2, c1

MCHandles == {h1, h2}
MCPersonas == {p1, p2}
MCCodes == {c1}
MCLikes == (h1 :> MCPersonas) @@ (h2 :> {p1})
=============================================================================
