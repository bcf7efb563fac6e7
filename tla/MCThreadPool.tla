---------------------------- MODULE MCThreadPool ----------------------------
(* Instances of ThreadPool: the pool's bottom half and handler are the     *)
(* newest, so they are first in the lists.                                 *)
EXTENDS ThreadPool

MCBhs == <<SpawnBh, AppBh>>
MCHandlers == <<PoolFd>>
=============================================================================
