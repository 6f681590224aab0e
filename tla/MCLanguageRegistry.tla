-------------------------- MODULE MCLanguageRegistry --------------------------
\* Three revisions: one lists a capability after what it depends on, one drops
\* that dependency but still names it, one lists the dependent first.
EXTENDS LanguageRegistry

CONSTANTS a, b, c

MCCaps   == {a, b, c}
MCOffers == <<<<a, b, c>>, <<b>>, <<c, b>>>>
Nothing  == [x \in MCCaps |-> {}]
MCNeeds  == <<[Nothing EXCEPT ![b] = {a}, ![c] = {b}],
              [Nothing EXCEPT ![b] = {a}],
              [Nothing EXCEPT ![c] = {b}]>>
=============================================================================
