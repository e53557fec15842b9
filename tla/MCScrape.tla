------------------------------- MODULE MCScrape -------------------------------
(* Model-checking instance of Scrape. *)
EXTENDS Scrape
=============================================================================
