-------------------------------- MODULE MCPage --------------------------------
(* NO_DATA_MS and CONNECT_GRACE_MS in half seconds, two cars, two styles.  *)
EXTENDS Page
===============================================================================
