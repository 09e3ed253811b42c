----------------------------- MODULE MCInventory -----------------------------
\* Three items over two days, one more than a page has, and a report.
EXTENDS Inventory

MCItems == 1..3
MCHandlers == 1..1
===============================================================================
