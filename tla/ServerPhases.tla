----------------------------- MODULE ServerPhases -----------------------------
(***************************************************************************)
(* How a drain and the stop of the services follow on each other.          *)
(* AppLifecycle shows that callers, signals and threads keep to it;        *)
(* SessionLifecycle takes it for granted where StopMayInterrupt is FALSE.  *)
(***************************************************************************)

VARIABLES drain,      \* GracefulShutdownManager: "none", "running", "complete"
          services    \* AppBootstrap: "up", "stopping" (from UdpServer::stop on), "down"

phases == <<drain, services>>

PhaseInit == drain = "none" /\ services = "up"

\* initiateShutdown: once, and never while the services are stopped.
Begin == /\ drain = "none" /\ services = "up"
         /\ drain' = "running"
         /\ UNCHANGED services

\* shutdownWorker gets to its end while requests are still served.
Complete == /\ drain = "running" /\ services = "up"
            /\ drain' = "complete"
            /\ UNCHANGED services

\* stopServices, after a drain or, where a service did not start, without one.
StopBegins == /\ services = "up" /\ drain # "running"
              /\ services' = "stopping"
              /\ UNCHANGED drain

StopEnds == /\ services = "stopping"
            /\ services' = "down"
            /\ UNCHANGED drain

PhaseNext == Begin \/ Complete \/ StopBegins \/ StopEnds

PhaseSpec == PhaseInit /\ [][PhaseNext]_phases
===============================================================================
