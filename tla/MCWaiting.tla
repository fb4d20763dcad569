------------------------------- MODULE MCWaiting -------------------------------
(***************************************************************************)
(* Small instances of Waiting: three threads and the monitor of an object. *)
(***************************************************************************)
EXTENDS Waiting, TLC

CONSTANTS t1, t2, t3

Does3(x, y, z) == t1 :> x @@ t2 :> y @@ t3 :> z

\* Two threads wait in a monitor, the third one notifies and interrupts.
MonitorScenario ==
    Does3({"enter", "wait"}, {"enter", "wait", "native_wait", "notify"},
          {"enter", "notify_all", "interrupt"})

\* A waiting thread is notified, interrupted and stopped.
StopScenario == Does3({"enter", "wait"}, {"enter", "notify_all"}, {"stop", "interrupt"})

\* A thread parks, or sleeps; the others unpark, interrupt and stop it.
ParkScenarios ==
    {Does3({"park"}, {"unpark", "interrupt"}, {"unpark"}), Does3({"park"}, {"unpark"}, {"stop"}),
     Does3({"sleep"}, {"interrupt"}, {"stop"}), Does3({"park", "stop"}, {"stop", "unpark"}, {})}

AllScenarios == {MonitorScenario, StopScenario} \cup ParkScenarios
================================================================================
