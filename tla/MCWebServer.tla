----------------------------- MODULE MCWebServer -----------------------------
(* A small instance of WebServer. *)
EXTENDS WebServer

CONSTANTS h1, h2, m, w1, reconciler

TwoHandlers == {h1, h2}
OneWorker == {w1}

\* One operation of each kind that uses other parts or ends in another way.
OneOfEach == {"delete_book", "convert_easyvoice_book", "create_crawl_task", "resume_task", "explore_site"}
=============================================================================
