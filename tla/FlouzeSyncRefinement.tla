------------------------- MODULE FlouzeSyncRefinement -------------------------
(* FlouzeSync implements SharedLog as long as crashes lose no write.         *)
EXTENDS FlouzeSync

Abstract == INSTANCE SharedLog WITH
  log   <- [i \in DOMAIN Chain(server) |-> Chain(server)[i].body],
  known <- [c \in Clients |-> Len(Synchronized(repo[c]))]

\* Every step of the devices, the network and the server is an append to the
\* shared log, a device learning more of it, or invisible.
ImplementsSharedLog == Abstract!Spec

\* And no device stays behind the log forever.
ImplementsFairSharedLog == Abstract!FairSpec
===============================================================================
