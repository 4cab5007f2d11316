--------------------------- MODULE MCBrowserSession ---------------------------
(* Small browsers: one or two tabs, two Accounts, two Tenants. *)
EXTENDS BrowserSession

CONSTANTS a1, a2, x, y

\* a1 belongs to x and may be leased y; a2 belongs to y.
OneEach == {<<a1, x>>, <<a2, y>>}
LeaseOfY == {<<a1, y>>}

\* Both Tenants are open to a1.
BothOpen == {<<a1, x>>, <<a1, y>>}
=============================================================================
