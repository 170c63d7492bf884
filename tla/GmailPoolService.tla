-------------------------- MODULE GmailPoolService --------------------------
(***************************************************************************)
(* The download pool of the Gmail actor as its callers see it: the         *)
(* refinement of RequestService by GmailPool.                              *)
(***************************************************************************)
EXTENDS GmailPool

\* Which requests wait, which have a downloader.
Service == INSTANCE RequestService
  WITH MaxWorkers <- MaxDownloaders,
       waiting <- requestQueue,
       running <- {job[d] : d \in Downloader} \ {NoRequest},
       workers <- created

\* The pool implements the request service: requests start in the order they
\* were scheduled, at most one per downloader, and are answered once each.
ImplementsService == Service!Spec
=============================================================================
