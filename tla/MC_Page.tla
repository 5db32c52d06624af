------------------------------ MODULE MC_Page ------------------------------
\* Values for TLC: two packets of one segment that the page's id does not tell apart, and
\* a third packet with an id of its own.
EXTENDS Page

MC_Identity == <<1, 1, 0>>
=============================================================================
