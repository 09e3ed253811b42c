------------------------------ MODULE MCCatalog ------------------------------
\* Requests that overlap, about a field that templates may ask for.
EXTENDS Catalog, TLC

CONSTANTS h1, h2, field
MCHandlers == {h1, h2}
MCFields == {field}
MCRules == {[required |-> MCFields, formed |-> {}], [required |-> {}, formed |-> MCFields]}
MCSymmetry == Permutations(MCHandlers)
===============================================================================
