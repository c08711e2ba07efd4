--------------------------- MODULE MCTopicLifecycle ---------------------------
(***************************************************************************)
(* Every configuration of a topic: synchronous or not, any set of workers, *)
(* fatal start failures or not.                                            *)
(***************************************************************************)
EXTENDS TopicLifecycle
=============================================================================
