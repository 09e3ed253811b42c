------------------------------ MODULE MCIssuance ------------------------------
\* Two files, one of which the database will not take, and three rules.
EXTENDS Issuance

MCHandlers == 1..2
MCRules == 1..3
MCFormula == <<"positive", "unknown", "zero">>
MCFiles == {<<"good", "good">>, <<"good", "malformed">>, <<"good", "dangling">>,
            <<"malformed">>}
===============================================================================
