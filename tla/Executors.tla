----------------------------- MODULE Executors -----------------------------
(***************************************************************************)
(* executors/: what each operation of an executor does to the job's        *)
(* container (or Ray submission) and whether it resolves or throws. An     *)
(* operator maps the container's state to the set of outcomes; the empty   *)
(* set means that the call is still waiting. The states are "none",        *)
(* "created", "running", "exited" by itself and "killed".                  *)
(*                                                                         *)
(* `admits` says whether the host accepts the specification at all:        *)
(* registry, OPA, runtime, GPU identities and the image's digest.          *)
(***************************************************************************)

Ok(c)     == {[ok |-> TRUE, container |-> c]}
Throws(c) == {[ok |-> FALSE, container |-> c]}

Ended == {"exited", "killed"}

Containers == {"none", "created", "running"} \cup Ended
-------------------------------------------------------------------------------
(* docker: the name vc-<job> is taken until the container is removed. *)

DockerCreate(c) == IF c = "none" THEN Ok("created") ELSE Throws(c)

DockerPrepare(c, admits) == IF admits THEN DockerCreate(c) ELSE Throws(c)

DockerStart(c) == IF c = "none" THEN Throws(c) ELSE Ok("running")

\* A wrong form of DockerRecover: an ended container is not taken up again.
DockerRecover_running(c, admits) ==
  IF admits /\ c = "running" THEN Ok(c) ELSE Throws(c)

\* The container must have been started; it may have ended since.
DockerRecover(c, admits) ==
  IF admits /\ c \in {"running"} \cup Ended THEN Ok(c) ELSE Throws(c)

\* `docker wait` resolves when the container has ended, and fails without one;
\* on a container that was never started it waits for the timeout.
DockerCollect(c) ==
  IF c \in Ended THEN Ok(c) ELSE IF c = "none" THEN Throws(c) ELSE {}

DockerCleanup(c) == "none"
-------------------------------------------------------------------------------
(* vllm: a service that is stopped when the time that was bought is over. *)

VllmCreate(c) == IF c = "none" THEN Ok("created") ELSE Throws(c)

VllmPrepare(c, admits) == IF admits THEN VllmCreate(c) ELSE Throws(c)

VllmStart(c) == IF c = "none" THEN Throws(c) ELSE Ok("running")

\* Only a running container publishes the port that is read back.
VllmRecover(c, admits) == IF admits /\ c = "running" THEN Ok(c) ELSE Throws(c)

\* A running service serves out its time and is stopped, or is stopped because
\* it was not ready in time; one that has ended before is an error.
VllmCollect(c) ==
  IF c = "running" THEN Ok("killed") \cup Throws("killed") ELSE Throws(c)

VllmCleanup(c) == "none"
-------------------------------------------------------------------------------
(* ray: a submission under the job's id, which Ray accepts once. *)

RayPrepare(c, admits) == IF admits THEN Ok(c) ELSE Throws(c)

RayStart(c) == IF c = "none" THEN Ok("running") ELSE Throws(c)

\* collectResult polls the submission until it has ended.
RayCollect(c) == IF c \in Ended THEN Ok(c) ELSE IF c = "none" THEN Throws(c) ELSE {}

\* The executor forgets the job; the cluster does not.
RayCleanup(c) == c
-------------------------------------------------------------------------------
prepare(b, c, admits) ==
  CASE b = "docker" -> DockerPrepare(c, admits)
    [] b = "vllm"   -> VllmPrepare(c, admits)
    [] b = "ray"    -> RayPrepare(c, admits)

start(b, c) ==
  CASE b = "docker" -> DockerStart(c)
    [] b = "vllm"   -> VllmStart(c)
    [] b = "ray"    -> RayStart(c)

\* Ray has no recover().
recover(b, c, admits) ==
  CASE b = "docker" -> DockerRecover(c, admits)
    [] b = "vllm"   -> VllmRecover(c, admits)
    [] b = "ray"    -> Throws(c)

collectResult(b, c) ==
  CASE b = "docker" -> DockerCollect(c)
    [] b = "vllm"   -> VllmCollect(c)
    [] b = "ray"    -> RayCollect(c)

cleanup(b, c) ==
  CASE b = "docker" -> DockerCleanup(c)
    [] b = "vllm"   -> VllmCleanup(c)
    [] b = "ray"    -> RayCleanup(c)
===============================================================================
