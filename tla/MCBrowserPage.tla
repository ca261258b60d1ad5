---------------------------- MODULE MCBrowserPage ----------------------------
(* BrowserPage, once for its events and once for its questions.              *)
EXTENDS BrowserPage
=============================================================================
