--------------------------- MODULE MCContainerCall ---------------------------
(* Two calls, with any runtime.  With docker, commands are given where there is *)
(* no tunnel, which is another matter.                                        *)
EXTENDS DockerCalls

AllRuntimes == {"k8s", "embedded", "docker"}

AllSettings == ({"linux"} \X Commands) \cup {<<"darwin", "none">>}

\* Bound: not all trouble comes at once.  A call is not cancelled in a behaviour in
\* which something is done to the other one, nor where the tunnel is set up, which has
\* a context of its own (wgUp).
CancelledAlone ==
    cancelled = {} \/ IF runtime = "docker" THEN platform = "linux"
                      ELSE troubled \subseteq cancelled
=============================================================================
