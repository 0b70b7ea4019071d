--------------------------- MODULE MCBrowserSession ---------------------------
EXTENDS BrowserSession

CONSTANTS t1, t2, r1, r2
=============================================================================
